--------------------------- MODULE ContentProofs ---------------------------
(***************************************************************************)
(* Proofs about what the decoders show of a mail, for all texts and ways   *)
(* to send them: FieldWhole, that a field reads as it was written, and     *)
(* TextRight, that a text does, however its packets are cut.               *)
(*                                                                         *)
(* The first goes through each way to write a field and back.  A code of   *)
(* base64 is described by its characters (Coded), and the decoder gives    *)
(* the three bytes of a group back (GroupOf), up to the last one, with its *)
(* padding (Base64Back).  An escaped text has its characters at every      *)
(* third place (EscapedAs), from where they are read one by one            *)
(* (EscapesBack).  An encoded word begins and ends with a question mark    *)
(* that the code cannot hold (StrDecodeWord), and the line ends at a CR    *)
(* that none of them holds (WayBack).                                      *)
(*                                                                         *)
(* The second is an invariant: what came of a text in base64 is some       *)
(* groups and at most three characters that wait (AtGroup), and what is    *)
(* kept is what these groups hold (GroupsKept).  The lines of the code are *)
(* described by where each group begins (Lined), so that the loop is       *)
(* always at a group or at the end of a line in front of one (Place), and  *)
(* a packet takes it from there to another (CodePacket).                   *)
(***************************************************************************)
EXTENDS KeywordProofs

-----------------------------------------------------------------------------
(* base64: the bits of a group.                                              *)

LEMMA EsabBase ==
    ASSUME NEW n \in 0..63
    PROVE  /\ Base(n) \in 43..122 /\ Esab(Base(n)) = n
           /\ Base(n) \notin {EQUAL, QUESTION, CR, NUL}
<1>1. CASE n < 26
  <2>1. Base(n) = 65 + n
    BY <1>1 DEF Base
  <2>2. QED BY <1>1, <2>1 DEF Esab, EQUAL, QUESTION, CR, NUL
<1>2. CASE n \in 26..51
  <2>1. Base(n) = 97 + n - 26
    BY <1>2 DEF Base
  <2>2. QED BY <1>2, <2>1 DEF Esab, EQUAL, QUESTION, CR, NUL
<1>3. CASE n \in 52..61
  <2>1. Base(n) = 48 + n - 52
    BY <1>3 DEF Base
  <2>2. QED BY <1>3, <2>1 DEF Esab, EQUAL, QUESTION, CR, NUL
<1>4. CASE n = 62
  BY <1>4 DEF Base, Esab, EQUAL, QUESTION, CR, NUL
<1>5. CASE n = 63
  BY <1>5 DEF Base, Esab, EQUAL, QUESTION, CR, NUL
<1>6. QED BY <1>1, <1>2, <1>3, <1>4, <1>5

\* The bits of three bytes, distributed to four characters and put together.
LEMMA BitsBack ==
    ASSUME NEW x \in 0..127, NEW y \in 0..127, NEW z \in 0..127
    PROVE  /\ Byte((x \div 4) * 4 + ((x % 4) * 16 + y \div 16) \div 16) = x
           /\ Byte(((x % 4) * 16 + y \div 16) * 16 + ((y % 16) * 4 + z \div 64) \div 4) = y
           /\ Byte(((y % 16) * 4 + z \div 64) * 64 + (z % 64)) = z
<1>1. PICK a \in 0..31, b \in 0..3 : a = x \div 4 /\ b = x % 4 /\ x = 4 * a + b
  BY Z3
<1>2. PICK c \in 0..7, d \in 0..15 : c = y \div 16 /\ d = y % 16 /\ y = 16 * c + d
  BY Z3
<1>3. PICK e \in 0..1, f \in 0..63 : e = z \div 64 /\ f = z % 64 /\ z = 64 * e + f
  BY Z3
<1>4. (b * 16 + c) \div 16 = b /\ (d * 4 + e) \div 4 = d
  BY Z3
<1>5. (a * 4 + b) % 256 = x /\ ((b * 16 + c) * 16 + d) % 256 = y /\ ((d * 4 + e) * 64 + f) % 256 = z
  <2>1. (a * 4 + b) % 256 = x
    BY <1>1, Z3
  <2>2. ((b * 16 + c) * 16 + d) % 256 = y
    BY <1>2, Z3
  <2>3. ((d * 4 + e) * 64 + f) % 256 = z
    BY <1>3, Z3
  <2>4. QED BY <2>1, <2>2, <2>3
<1>6. Byte(a * 4 + b) = x /\ Byte((b * 16 + c) * 16 + d) = y /\ Byte((d * 4 + e) * 64 + f) = z
  BY <1>5 DEF Byte
<1>7. /\ x \div 4 = a /\ x % 4 = b /\ y \div 16 = c /\ y % 16 = d /\ z \div 64 = e /\ z % 64 = f
  BY <1>1, <1>2, <1>3, Zenon
<1>8. QED BY ONLY <1>4, <1>6, <1>7

\* The characters of the bytes x, y, z.
Six(x, y, z, k) ==
    IF k = 0 THEN x \div 4
    ELSE IF k = 1 THEN (x % 4) * 16 + y \div 16
    ELSE IF k = 2 THEN (y % 16) * 4 + z \div 64
    ELSE z % 64

LEMMA SixIs ==
    ASSUME NEW x \in 0..127, NEW y \in 0..127, NEW z \in 0..127, NEW k
    PROVE  Six(x, y, z, k) \in 0..63
BY SixBits DEF Six

\* n characters of the bytes x, y, z at p.
CharsAt(data, p, x, y, z, n) ==
    /\ x \in 0..127 /\ y \in 0..127 /\ z \in 0..127 /\ n \in {2, 3, 4}
    /\ \A k \in 0..(n - 1) : At(data, p + k) = Base(Six(x, y, z, k))

\* The decoder has the bytes of as many characters as there are.
LEMMA GroupBack ==
    ASSUME NEW data, NEW p, NEW x, NEW y, NEW z, NEW n, CharsAt(data, p, x, y, z, n)
    PROVE  /\ Group(data, p)[1] = x
           /\ n >= 3 => Group(data, p)[2] = y
           /\ n = 4 => Group(data, p) = << x, y, z >>
<1>0. \A k \in 0..(n - 1) : At(data, p + k) = Base(Six(x, y, z, k))
  BY DEF CharsAt
<1> x \in 0..127 /\ y \in 0..127 /\ z \in 0..127 /\ n \in {2, 3, 4}
  BY DEF CharsAt
<1>1. /\ Esab(At(data, p + 0)) = x \div 4 /\ Esab(At(data, p + 1)) = (x % 4) * 16 + y \div 16
      /\ n >= 3 => Esab(At(data, p + 2)) = (y % 16) * 4 + z \div 64
      /\ n = 4 => Esab(At(data, p + 3)) = z % 64
  <2>1. \A k : Esab(Base(Six(x, y, z, k))) = Six(x, y, z, k)
    BY SixIs, EsabBase, Zenon
  <2>2. /\ Six(x, y, z, 0) = x \div 4 /\ Six(x, y, z, 1) = (x % 4) * 16 + y \div 16
        /\ Six(x, y, z, 2) = (y % 16) * 4 + z \div 64 /\ Six(x, y, z, 3) = z % 64
    BY DEF Six
  <2>3. 0 \in 0..(n - 1) /\ 1 \in 0..(n - 1) /\ (n >= 3 => 2 \in 0..(n - 1)) /\ (n = 4 => 3 \in 0..(n - 1))
    OBVIOUS
  <2>4. /\ Esab(At(data, p + 0)) = Six(x, y, z, 0) /\ Esab(At(data, p + 1)) = Six(x, y, z, 1)
        /\ n >= 3 => Esab(At(data, p + 2)) = Six(x, y, z, 2)
        /\ n = 4 => Esab(At(data, p + 3)) = Six(x, y, z, 3)
    BY ONLY <1>0, <2>1, <2>3
  <2>5. QED BY ONLY <2>2, <2>4, Zenon
<1>2. PICK u, v, w, t : u = Esab(At(data, p + 0)) /\ v = Esab(At(data, p + 1))
                        /\ w = Esab(At(data, p + 2)) /\ t = Esab(At(data, p + 3))
  OBVIOUS
<1>3. Group(data, p) = << Byte(u * 4 + v \div 16), Byte(v * 16 + w \div 4), Byte(w * 64 + t) >>
  BY <1>2 DEF Group
<1>4. PICK f, g, h, i : /\ f = x \div 4 /\ g = (x % 4) * 16 + y \div 16
                        /\ h = (y % 16) * 4 + z \div 64 /\ i = z % 64
  OBVIOUS
<1>5. Byte(f * 4 + g \div 16) = x /\ Byte(g * 16 + h \div 4) = y /\ Byte(h * 64 + i) = z
  <2>1. /\ Byte((x \div 4) * 4 + ((x % 4) * 16 + y \div 16) \div 16) = x
        /\ Byte(((x % 4) * 16 + y \div 16) * 16 + ((y % 16) * 4 + z \div 64) \div 4) = y
        /\ Byte(((y % 16) * 4 + z \div 64) * 64 + (z % 64)) = z
    BY BitsBack, Zenon
  <2>2. QED BY ONLY <1>4, <2>1, Zenon
<1>6. u = f /\ v = g /\ (n >= 3 => w = h) /\ (n = 4 => t = i)
  BY ONLY <1>1, <1>2, <1>4
<1>7. QED BY <1>3, <1>5, <1>6

\* How many of four characters are "=".
LEMMA EqualSigns ==
    ASSUME NEW data, NEW p
    PROVE  /\ base64_equal_sign(data, p) = 0 <=> \A k \in 0..3 : At(data, p + k) # EQUAL
           /\ base64_equal_sign(data, p) = 1 <=>
                \E i \in 0..3 : \A k \in 0..3 : At(data, p + k) = EQUAL <=> k = i
           /\ base64_equal_sign(data, p) = 2 <=>
                \E i \in 0..3, j \in 0..3 : i # j /\ \A k \in 0..3 : At(data, p + k) = EQUAL <=> k \in {i, j}
<1> DEFINE I == {i \in 0..3 : At(data, p + i) = EQUAL}
<1>1. IsFiniteSet(I)
  <2>1. IsFiniteSet(0..3)
    <3>1. PICK a \in Int, b \in Int : a = 0 /\ b = 3
      OBVIOUS
    <3>2. IsFiniteSet(a..b)
      BY FS_Interval
    <3>3. QED BY <3>1, <3>2
  <2>2. QED BY <2>1, FS_Subset
<1>2. base64_equal_sign(data, p) = Cardinality(I)
  BY DEF base64_equal_sign
<1>3. Cardinality(I) = 0 <=> I = {}
  BY <1>1, FS_EmptySet
<1>4. Cardinality(I) = 1 <=> \E i : I = {i}
  BY <1>1, FS_Singleton
<1>5. Cardinality(I) = 2 <=> \E i, j : i # j /\ I = {i, j}
  <2> HIDE DEF I
  <2>1. ASSUME NEW i, NEW j, i # j, I = {i, j} PROVE Cardinality(I) = 2
    <3>1. IsFiniteSet({i}) /\ Cardinality({i}) = 1
      BY FS_Singleton
    <3>2. Cardinality({i} \cup {j}) = 1 + 1
      BY <2>1, <3>1, FS_AddElement
    <3>3. {i} \cup {j} = I
      BY <2>1
    <3>4. QED BY <3>2, <3>3
  <2>2. ASSUME Cardinality(I) = 2 PROVE \E i, j : i # j /\ I = {i, j}
    <3>1. I # {}
      BY <1>3, <2>2
    <3>2. PICK i : i \in I
      BY <3>1
    <3>3. IsFiniteSet(I \ {i}) /\ Cardinality(I \ {i}) = 2 - 1
      BY <1>1, <2>2, <3>2, FS_RemoveElement
    <3>4. PICK j : I \ {i} = {j}
      <4>1. PICK J : J = I \ {i}
        OBVIOUS
      <4>2. IsFiniteSet(J) /\ Cardinality(J) = 1
        BY <3>3, <4>1
      <4>3. \E j : J = {j}
        BY <4>2, FS_Singleton, Zenon
      <4>4. QED BY <4>1, <4>3
    <3>5. i # j /\ I = {i, j}
      BY <3>2, <3>4
    <3>6. QED BY <3>5
  <2>3. QED BY <2>1, <2>2
<1>6. I = {} <=> \A k \in 0..3 : At(data, p + k) # EQUAL
  OBVIOUS
<1>7. (\E i : I = {i}) <=> \E i \in 0..3 : \A k \in 0..3 : At(data, p + k) = EQUAL <=> k = i
  <2>1. ASSUME NEW i, I = {i} PROVE i \in 0..3 /\ \A k \in 0..3 : At(data, p + k) = EQUAL <=> k = i
    BY <2>1
  <2>2. ASSUME NEW i \in 0..3, \A k \in 0..3 : At(data, p + k) = EQUAL <=> k = i PROVE I = {i}
    BY <2>2
  <2> HIDE DEF I
  <2>3. QED BY <2>1, <2>2
<1>8. (\E i, j : i # j /\ I = {i, j}) <=>
        \E i \in 0..3, j \in 0..3 : i # j /\ \A k \in 0..3 : At(data, p + k) = EQUAL <=> k \in {i, j}
  <2>1. ASSUME NEW i, NEW j, I = {i, j}
        PROVE  i \in 0..3 /\ j \in 0..3 /\ \A k \in 0..3 : At(data, p + k) = EQUAL <=> k \in {i, j}
    BY <2>1
  <2>2. ASSUME NEW i \in 0..3, NEW j \in 0..3, \A k \in 0..3 : At(data, p + k) = EQUAL <=> k \in {i, j}
        PROVE  I = {i, j}
    BY <2>2
  <2> HIDE DEF I
  <2>3. QED BY <2>1, <2>2
<1>9. QED BY <1>2, <1>3, <1>4, <1>5, <1>6, <1>7, <1>8

-----------------------------------------------------------------------------
(* base64: the code of a text.                                               *)

\* The byte of a text at a place, 0 behind its end.
LEMMA TextByte ==
    ASSUME NEW str \in Seq(1..127), NEW j
    PROVE  At(str, j) \in 0..127
<1>1. CASE j \in DOMAIN str
  <2>1. j \in 1..Len(str)
    BY <1>1
  <2>2. str[j] \in 1..127
    BY <2>1, ElementOfSeq
  <2>3. QED BY <1>1, <2>2 DEF At
<1>2. CASE j \notin DOMAIN str
  BY <1>2 DEF At, NUL
<1>3. QED BY <1>1, <1>2

LEMMA ConcatAt ==
    ASSUME NEW s \in Str, NEW t \in Str
    PROVE  /\ s \o t \in Str /\ Len(s \o t) = Len(s) + Len(t)
           /\ \A i \in 1..Len(s) : (s \o t)[i] = s[i]
           /\ \A i \in 1..Len(t) : (s \o t)[Len(s) + i] = t[i]
<1>1. PICK m \in Nat, n \in Nat : m = Len(s) /\ n = Len(t)
  BY DEF Str
<1>2. /\ s \o t \in Str /\ Len(s \o t) = m + n
      /\ \A i \in 1..(m + n) : (s \o t)[i] = IF i <= m THEN s[i] ELSE t[i - m]
  BY <1>1, ConcatProperties DEF Str
<1>3. \A i \in 1..n : m + i \in 1..(m + n) /\ ~(m + i <= m) /\ m + i - m = i
  OBVIOUS
<1>4. \A i \in 1..m : i \in 1..(m + n) /\ i <= m
  OBVIOUS
<1>5. QED BY <1>1, <1>2, <1>3, <1>4

\* The character k of the group of the bytes of str from j on.
CodeChar(str, j, k) ==
    IF (k = 2 /\ j = Len(str)) \/ (k = 3 /\ j + 1 >= Len(str)) THEN EQUAL
    ELSE Base(Six(At(str, j), At(str, j + 1), At(str, j + 2), k))

\* e is the code of the bytes of str from i on.
Coded(e, str, i) ==
    /\ e \in Str
    /\ \A g \in Nat :
         /\ i + 3 * g <= Len(str) =>
              4 * g + 4 <= Len(e) /\ \A k \in 0..3 : e[4 * g + k + 1] = CodeChar(str, i + 3 * g, k)
         /\ i + 3 * g > Len(str) => Len(e) <= 4 * g

LEMMA CodeCharIs ==
    ASSUME NEW str \in Seq(1..127), NEW j, NEW k
    PROVE  /\ CodeChar(str, j, k) \in 43..122 /\ CodeChar(str, j, k) \notin {QUESTION, CR}
           /\ CodeChar(str, j, k) = EQUAL <=> (k = 2 /\ j = Len(str)) \/ (k = 3 /\ j + 1 >= Len(str))
<1>1. PICK x \in 0..127, y \in 0..127, z \in 0..127 :
         x = At(str, j) /\ y = At(str, j + 1) /\ z = At(str, j + 2)
  BY TextByte, Zenon
<1>2. PICK s \in 0..63 : s = Six(x, y, z, k)
  BY SixIs, Zenon
<1>3. Base(s) \in 43..122 /\ Base(s) \notin {EQUAL, QUESTION, CR}
  BY EsabBase
<1>4. QED BY <1>1, <1>2, <1>3, Z3 DEF CodeChar, EQUAL, QUESTION, CR

LEMMA QuadChars ==
    ASSUME NEW str \in Seq(1..127), NEW j \in Nat \ {0}
    PROVE  /\ Quad(str, j) \in Str /\ Len(Quad(str, j)) = 4
           /\ \A k \in 0..3 : Quad(str, j)[k + 1] = Base(Six(At(str, j), At(str, j + 1), At(str, j + 2), k))
<1>1. PICK x, y, z : x = At(str, j) /\ y = At(str, j + 1) /\ z = At(str, j + 2)
  OBVIOUS
<1>2. PICK a, b, c, d : a = Base(x \div 4) /\ b = Base((x % 4) * 16 + y \div 16)
                        /\ c = Base((y % 16) * 4 + z \div 64) /\ d = Base(z % 64)
  OBVIOUS
<1>3. Quad(str, j) = << a, b, c, d >>
  BY <1>1, <1>2 DEF Quad
<1>4. << a, b, c, d >> \in Str
  <2>1. PICK e \in Int, f \in Int, g \in Int, h \in Int : Quad(str, j) = << e, f, g, h >>
    <3>1. PICK e \in 43..122, f \in 43..122, g \in 43..122, h \in 43..122 : Quad(str, j) = << e, f, g, h >>
      BY QuadIs, Zenon
    <3>2. e \in Int /\ f \in Int /\ g \in Int /\ h \in Int
      OBVIOUS
    <3>3. QED BY <3>1, <3>2, Zenon
  <2>2. << e, f, g, h >> \in Seq(Int)
    OBVIOUS
  <2>3. QED BY <1>3, <2>1, <2>2 DEF Str
<1>5. \A k \in 0..3 : Quad(str, j)[k + 1] = Base(Six(x, y, z, k))
  <2>1. << a, b, c, d >>[1] = a /\ << a, b, c, d >>[2] = b /\ << a, b, c, d >>[3] = c /\ << a, b, c, d >>[4] = d
    OBVIOUS
  <2>2. /\ Base(Six(x, y, z, 0)) = a /\ Base(Six(x, y, z, 1)) = b
        /\ Base(Six(x, y, z, 2)) = c /\ Base(Six(x, y, z, 3)) = d
    BY <1>2 DEF Six
  <2>3. PICK q : q = << a, b, c, d >>
    OBVIOUS
  <2>4. \A k \in 0..3 : q[k + 1] = Base(Six(x, y, z, k))
    <3> TAKE k \in 0..3
    <3>1. k = 0 \/ k = 1 \/ k = 2 \/ k = 3
      OBVIOUS
    <3>2. q[1] = Base(Six(x, y, z, 0)) /\ q[2] = Base(Six(x, y, z, 1))
          /\ q[3] = Base(Six(x, y, z, 2)) /\ q[4] = Base(Six(x, y, z, 3))
      BY ONLY <2>1, <2>2, <2>3
    <3>3. QED BY <3>1, <3>2
  <2>5. QED BY <1>3, <2>3, <2>4
<1>6. QED BY <1>1, <1>3, <1>4, <1>5

\* Four characters that are a group of their own.
LEMMA LastCoded ==
    ASSUME NEW str \in Seq(1..127), NEW i \in Nat \ {0}, i <= Len(str), Len(str) <= i + 1,
           NEW e \in Str, Len(e) = 4, \A k \in 0..3 : e[k + 1] = CodeChar(str, i, k)
    PROVE  Coded(e, str, i)
<1>1. PICK n \in Nat : n = Len(str)
  OBVIOUS
<1>2. \A g \in Nat : i + 3 * g <= n => g = 0
  BY <1>1
<1>3. \A g \in Nat : i + 3 * g > n => Len(e) <= 4 * g
  BY <1>1
<1>4. i + 3 * 0 = i /\ \A k \in 0..3 : 4 * 0 + k + 1 = k + 1
  OBVIOUS
<1>5. \A g \in Nat : i + 3 * g <= n =>
        4 * g + 4 <= Len(e) /\ \A k \in 0..3 : e[4 * g + k + 1] = CodeChar(str, i + 3 * g, k)
  <2> SUFFICES ASSUME NEW g \in Nat, i + 3 * g <= n
               PROVE  4 * g + 4 <= Len(e) /\ \A k \in 0..3 : e[4 * g + k + 1] = CodeChar(str, i + 3 * g, k)
    OBVIOUS
  <2>1. g = 0
    BY <1>2
  <2>2. 4 * g + 4 = 4 /\ i + 3 * g = i /\ \A k \in 0..3 : 4 * g + k + 1 = k + 1
    BY <2>1
  <2>3. QED BY <2>2
<1>6. QED BY <1>1, <1>3, <1>5 DEF Coded

LEMMA CodedStep ==
    ASSUME NEW str \in Seq(1..127), NEW i \in Nat \ {0}, NEW C,
           i + 1 < Len(str) => Coded(C[i + 3], str, i + 3)
    PROVE  Coded(Encode(str, i, C), str, i)
<1>1. PICK n \in Nat : n = Len(str)
  OBVIOUS
<1>2. PICK q \in Str : /\ q = Quad(str, i) /\ Len(q) = 4
                       /\ \A k \in 0..3 : q[k + 1] = Base(Six(At(str, i), At(str, i + 1), At(str, i + 2), k))
  BY QuadChars
<1>3. PICK e : e = Encode(str, i, C)
  OBVIOUS
<1>4. CASE i > n
  <2>1. e = << >>
    BY <1>1, <1>3, <1>4 DEF Encode
  <2>2. e \in Str /\ Len(e) = 0
    BY <2>1, SufEmpty DEF Str
  <2>3. \A g \in Nat : ~(i + 3 * g <= n) /\ 0 <= 4 * g
    BY <1>4
  <2>4. QED BY <1>1, <1>3, <2>2, <2>3 DEF Coded
<1>5. CASE i = n
  <2>1. PICK u \in Str : u = SubSeq(q, 1, 2) /\ Len(u) = 2 /\ u[1] = q[1] /\ u[2] = q[2]
    <3>1. PICK a \in Nat \ {0}, b \in Int : a = 1 /\ b = 2
      OBVIOUS
    <3>2. b <= Len(q) /\ a <= b /\ b - a + 1 = 2 /\ 1 \in 1..2 /\ 2 \in 1..2 /\ a + 1 - 1 = 1 /\ a + 2 - 1 = 2
      BY <1>2, <3>1
    <3>3. /\ SubSeq(q, a, b) \in Str /\ Len(SubSeq(q, a, b)) = 2
          /\ \A k \in 1..2 : SubSeq(q, a, b)[k] = q[a + k - 1]
      BY <3>2, SubStr
    <3>4. QED BY <3>1, <3>2, <3>3
  <2>2. PICK v \in Str : v = << EQUAL, EQUAL >> /\ Len(v) = 2 /\ v[1] = EQUAL /\ v[2] = EQUAL
    <3>1. << EQUAL, EQUAL >> \in Str
      BY DEF EQUAL, Str
    <3>2. QED BY <3>1
  <2>3. e = u \o v
    <3>1. e = SubSeq(Quad(str, i), 1, 2) \o << EQUAL, EQUAL >>
      BY <1>1, <1>3, <1>5 DEF Encode
    <3>2. QED BY ONLY <1>2, <2>1, <2>2, <3>1
  <2>4. /\ u \o v \in Str /\ Len(u \o v) = 2 + 2
        /\ \A k \in 1..2 : (u \o v)[k] = u[k]
        /\ \A k \in 1..2 : (u \o v)[2 + k] = v[k]
    <3>1. PICK a \in Nat, b \in Nat : a = Len(u) /\ b = Len(v) /\ a = 2 /\ b = 2
      BY <2>1, <2>2
    <3>2. /\ u \o v \in Str /\ Len(u \o v) = Len(u) + Len(v)
          /\ \A k \in 1..Len(u) : (u \o v)[k] = u[k]
          /\ \A k \in 1..Len(v) : (u \o v)[Len(u) + k] = v[k]
      BY ConcatAt
    <3>3. QED BY ONLY <3>1, <3>2
  <2>5. e \in Str /\ Len(e) = 4 /\ e[1] = q[1] /\ e[2] = q[2] /\ e[3] = EQUAL /\ e[4] = EQUAL
    <3>1. 1 \in 1..2 /\ 2 \in 1..2 /\ 2 + 1 = 3 /\ 2 + 2 = 4
      OBVIOUS
    <3>2. QED BY ONLY <2>1, <2>2, <2>3, <2>4, <3>1
  <2>6. \A k \in 0..3 : e[k + 1] = CodeChar(str, i, k)
    <3> TAKE k \in 0..3
    <3>1. k = 0 \/ k = 1 \/ k = 2 \/ k = 3
      OBVIOUS
    <3>2. CASE k = 0 \/ k = 1
      <4>1. e[k + 1] = q[k + 1]
        BY <2>5, <3>2
      <4>2. QED BY <1>2, <3>2, <4>1 DEF CodeChar
    <3>3. CASE k = 2 \/ k = 3
      BY <1>1, <1>5, <2>5, <3>3 DEF CodeChar
    <3>4. QED BY <3>1, <3>2, <3>3
  <2>7. i <= Len(str) /\ Len(str) <= i + 1
    BY <1>1, <1>5
  <2>8. QED BY <1>3, <2>5, <2>6, <2>7, LastCoded
<1>6. CASE i + 1 = n
  <2>1. PICK u \in Str : u = SubSeq(q, 1, 3) /\ Len(u) = 3 /\ u[1] = q[1] /\ u[2] = q[2] /\ u[3] = q[3]
    <3>1. PICK a \in Nat \ {0}, b \in Int : a = 1 /\ b = 3
      OBVIOUS
    <3>2. /\ b <= Len(q) /\ a <= b /\ b - a + 1 = 3 /\ 1 \in 1..3 /\ 2 \in 1..3 /\ 3 \in 1..3
          /\ a + 1 - 1 = 1 /\ a + 2 - 1 = 2 /\ a + 3 - 1 = 3
      BY <1>2, <3>1
    <3>3. /\ SubSeq(q, a, b) \in Str /\ Len(SubSeq(q, a, b)) = 3
          /\ \A k \in 1..3 : SubSeq(q, a, b)[k] = q[a + k - 1]
      BY <3>2, SubStr
    <3>4. QED BY <3>1, <3>2, <3>3
  <2>2. PICK v \in Str : v = << EQUAL >> /\ Len(v) = 1 /\ v[1] = EQUAL
    <3>1. << EQUAL >> \in Str
      BY DEF EQUAL, Str
    <3>2. QED BY <3>1
  <2>3. e = u \o v
    <3>1. e = SubSeq(Quad(str, i), 1, 3) \o << EQUAL >>
      <4>1. ~(i > Len(str)) /\ ~(Len(str) - i = 0) /\ Len(str) - i = 1
        BY <1>1, <1>6
      <4>2. QED BY ONLY <1>3, <4>1 DEF Encode
    <3>2. QED BY ONLY <1>2, <2>1, <2>2, <3>1
  <2>4. /\ u \o v \in Str /\ Len(u \o v) = 3 + 1
        /\ \A k \in 1..3 : (u \o v)[k] = u[k]
        /\ \A k \in 1..1 : (u \o v)[3 + k] = v[k]
    <3>1. PICK a \in Nat, b \in Nat : a = Len(u) /\ b = Len(v) /\ a = 3 /\ b = 1
      BY <2>1, <2>2
    <3>2. /\ u \o v \in Str /\ Len(u \o v) = Len(u) + Len(v)
          /\ \A k \in 1..Len(u) : (u \o v)[k] = u[k]
          /\ \A k \in 1..Len(v) : (u \o v)[Len(u) + k] = v[k]
      BY ConcatAt
    <3>3. QED BY ONLY <3>1, <3>2
  <2>5. e \in Str /\ Len(e) = 4 /\ e[1] = q[1] /\ e[2] = q[2] /\ e[3] = q[3] /\ e[4] = EQUAL
    <3>1. 1 \in 1..3 /\ 2 \in 1..3 /\ 3 \in 1..3 /\ 1 \in 1..1 /\ 3 + 1 = 4
      OBVIOUS
    <3>2. QED BY ONLY <2>1, <2>2, <2>3, <2>4, <3>1
  <2>6. \A k \in 0..3 : e[k + 1] = CodeChar(str, i, k)
    <3> TAKE k \in 0..3
    <3>1. k = 0 \/ k = 1 \/ k = 2 \/ k = 3
      OBVIOUS
    <3>2. CASE k # 3
      <4>1. e[k + 1] = q[k + 1]
        BY <2>5, <3>1, <3>2
      <4>2. ~(k = 2 /\ i = Len(str))
        BY <1>1, <1>6
      <4>3. QED BY <1>2, <3>2, <4>1, <4>2 DEF CodeChar
    <3>3. CASE k = 3
      BY <1>1, <1>6, <2>5, <3>3 DEF CodeChar
    <3>4. QED BY <3>1, <3>2, <3>3
  <2>7. i <= Len(str) /\ Len(str) <= i + 1
    BY <1>1, <1>6
  <2>8. QED BY <1>3, <2>5, <2>6, <2>7, LastCoded
<1>7. CASE i + 1 < n
  <2>1. PICK r : r = C[i + 3] /\ Coded(r, str, i + 3)
    BY <1>1, <1>7
  <2>2. r \in Str
    BY <2>1 DEF Coded
  <2>3. PICK l \in Nat : l = Len(r)
    BY <2>2 DEF Str
  <2>4. e = q \o r
    <3>1. ~(i > Len(str)) /\ ~(Len(str) - i = 0) /\ ~(Len(str) - i = 1)
      BY <1>1, <1>7
    <3>2. e = Quad(str, i) \o C[i + 3]
      BY ONLY <1>3, <3>1 DEF Encode
    <3>3. QED BY ONLY <1>2, <2>1, <3>2
  <2>5. /\ e \in Str /\ Len(e) = 4 + l
        /\ \A k \in 1..4 : e[k] = q[k]
        /\ \A k \in 1..l : e[4 + k] = r[k]
    <3>1. PICK a \in Nat : a = Len(q) /\ a = 4
      BY <1>2
    <3>2. /\ q \o r \in Str /\ Len(q \o r) = Len(q) + Len(r)
          /\ \A k \in 1..Len(q) : (q \o r)[k] = q[k]
          /\ \A k \in 1..Len(r) : (q \o r)[Len(q) + k] = r[k]
      BY <2>2, ConcatAt
    <3>3. QED BY ONLY <2>3, <2>4, <3>1, <3>2
  <2>6. ASSUME NEW g \in Nat
        PROVE  /\ i + 3 * g <= n =>
                    4 * g + 4 <= 4 + l /\ \A k \in 0..3 : e[4 * g + k + 1] = CodeChar(str, i + 3 * g, k)
               /\ i + 3 * g > n => 4 + l <= 4 * g
    <3>1. CASE g = 0
      <4>1. i + 3 * g = i /\ 4 * g + 4 <= 4 + l /\ \A k \in 0..3 : 4 * g + k + 1 = k + 1 /\ k + 1 \in 1..4
        BY <3>1
      <4>2. \A k \in 0..3 : e[k + 1] = CodeChar(str, i, k)
        <5> TAKE k \in 0..3
        <5>1. e[k + 1] = q[k + 1]
          BY <2>5, <4>1
        <5>2. ~(k = 2 /\ i = Len(str)) /\ ~(k = 3 /\ i + 1 >= Len(str))
          BY <1>1, <1>7
        <5>3. QED BY <1>2, <5>1, <5>2 DEF CodeChar
      <4>3. QED BY <1>7, <4>1, <4>2
    <3>2. CASE g # 0
      <4>1. PICK h \in Nat : g = h + 1
        <5>1. g - 1 \in Nat /\ g = (g - 1) + 1
          BY <3>2
        <5>2. QED BY <5>1
      <4>2. (i + 3) + 3 * h = i + 3 * g /\ 4 * g + 4 = 4 * h + 4 + 4
        BY <4>1
      <4>3. /\ i + 3 * g <= n =>
                 4 * h + 4 <= l /\ \A k \in 0..3 : r[4 * h + k + 1] = CodeChar(str, i + 3 * g, k)
            /\ i + 3 * g > n => l <= 4 * h
        BY <1>1, <2>1, <2>3, <4>2 DEF Coded
      <4>4. ASSUME i + 3 * g <= n, NEW k \in 0..3 PROVE e[4 * g + k + 1] = r[4 * h + k + 1]
        <5>1. PICK m \in 1..l : m = 4 * h + k + 1
          BY <4>3, <4>4
        <5>2. 4 + m = 4 * g + k + 1
          BY <4>1, <5>1
        <5>3. QED BY <2>5, <5>1, <5>2
      <4>5. i + 3 * g > n => 4 + l <= 4 * g
        BY <4>1, <4>3
      <4>6. i + 3 * g <= n => 4 * g + 4 <= 4 + l
        BY <4>1, <4>3
      <4>7. QED BY <4>3, <4>4, <4>5, <4>6
    <3>3. QED BY <3>1, <3>2
  <2>7. QED BY <1>1, <1>3, <2>5, <2>6 DEF Coded
<1>8. QED BY <1>1, <1>4, <1>5, <1>6, <1>7

LEMMA CodedIs ==
    ASSUME NEW str \in Seq(1..127)
    PROVE  Coded(base64_encode(str), str, 1)
<1>1. PICK C : C \in [1..(Len(str) + 3) -> Str] /\ Encodes(C, str) /\ base64_encode(str) = C[1]
  BY EncodeIs
<1>2. PICK m \in Nat, n \in Nat : m = Len(str) /\ n = m + 3
  <2>1. PICK m \in Nat : m = Len(str)
    OBVIOUS
  <2>2. m + 3 \in Nat
    OBVIOUS
  <2>3. QED BY <2>1, <2>2
<1>3. \A i \in 1..n : C[i] = Encode(str, i, C)
  BY <1>1, <1>2 DEF Encodes
<1> DEFINE T == {k \in 0..n : \A i \in (n + 1 - k)..n : i \in 1..n => Coded(C[i], str, i)}
<1>4. 0 \in T
  <2>1. (n + 1 - 0)..n = {}
    OBVIOUS
  <2>2. QED BY <2>1
<1>5. ASSUME NEW k \in 0..(n - 1), k \in T PROVE k + 1 \in T
  <2>1. PICK i \in 1..n : i = n - k
    OBVIOUS
  <2>2. \A j \in (i + 1)..n : Coded(C[j], str, j)
    <3>1. n + 1 - k = i + 1 /\ \A j \in (i + 1)..n : j \in 1..n
      BY <2>1
    <3>2. QED BY <1>5, <3>1
  <2>3. Coded(C[i], str, i)
    <3>1. i + 1 < Len(str) => i + 3 \in (i + 1)..n
      BY <1>2
    <3>2. i + 1 < Len(str) => Coded(C[i + 3], str, i + 3)
      BY <2>2, <3>1
    <3>3. Coded(Encode(str, i, C), str, i)
      BY <3>2, CodedStep
    <3>4. QED BY <1>3, <3>3
  <2>4. \A j \in i..n : j = i \/ j \in (i + 1)..n
    OBVIOUS
  <2>5. n + 1 - (k + 1) = i /\ k + 1 \in 0..n
    BY <2>1
  <2>6. QED BY <2>2, <2>3, <2>4, <2>5
<1> HIDE DEF T
<1>6. \A k \in 0..n : k \in T
  BY <1>4, <1>5, UpTo
<1>7. n \in T /\ n + 1 - n = 1 /\ 1 \in 1..n
  BY <1>2, <1>6
<1>8. QED BY <1>1, <1>7 DEF T

-----------------------------------------------------------------------------
(* base64: the groups of a code, decoded.                                    *)

\* Pieces of three, put together.
InThree(s, n) == n \in Nat /\ s \in [1..n -> Str] /\ \A i \in 1..n : Len(s[i]) = 3

LEMMA FlattenThree ==
    ASSUME NEW n, NEW s, InThree(s, n)
    PROVE  /\ FlattenSeq(s) \in Str /\ Len(FlattenSeq(s)) = 3 * n
           /\ \A i \in 1..n : \A k \in 1..3 : FlattenSeq(s)[3 * (i - 1) + k] = s[i][k]
<1>0. s \in [1..n -> Str] /\ \A i \in 1..n : Len(s[i]) = 3
  BY DEF InThree
<1> n \in Nat
  BY DEF InThree
<1>1. CASE n = 0
  <2>1. s \in Seq(Str) /\ DOMAIN s = 1..0
    <3>1. s \in [1..0 -> Str]
      BY <1>0, <1>1
    <3>2. QED BY <3>1
  <2>2. Len(s) = 0 /\ s = << >>
    BY <2>1, LenProperties
  <2>3. FlattenSeq(s) = << >>
    BY <2>2 DEF FlattenSeq
  <2>4. << >> \in Str /\ Len(<< >>) = 0 /\ 3 * n = 0 /\ 1..n = {}
    BY <1>1, SufEmpty DEF Str
  <2>5. QED BY <2>3, <2>4
<1>2. CASE n # 0
  <2>1. n \in Nat \ {0}
    BY <1>2
  <2>2. PICK g : Flattens(g, s, n)
    BY <1>0, <2>1, FlattenIs
  <2>3. /\ g \in [1..n -> Str] /\ g[1] = s[1] /\ FlattenSeq(s) = g[n]
        /\ \A i \in 2..n : g[i] = g[i - 1] \o s[i]
    BY <2>2 DEF Flattens
  <2> DEFINE Holds(m) == /\ Len(g[m]) = 3 * m
                         /\ \A i \in 1..m : \A k \in 1..3 : g[m][3 * (i - 1) + k] = s[i][k]
             T == {m \in 0..n : m = 0 \/ Holds(m)}
  <2>4. 0 \in T
    BY <2>1
  <2>5. ASSUME NEW m \in 0..(n - 1), m \in T PROVE m + 1 \in T
    <3>1. PICK j \in 1..n : j = m + 1
      OBVIOUS
    <3>2. CASE m = 0
      <4>1. j = 1 /\ \A i \in 1..j : i = 1 /\ \A k \in 1..3 : 3 * (i - 1) + k = k
        BY <3>1, <3>2
      <4>2. Len(g[j]) = 3 * j /\ \A k \in 1..3 : g[j][k] = s[1][k]
        BY <1>0, <2>3, <4>1
      <4>3. Holds(j)
        BY <4>1, <4>2
      <4> HIDE DEF Holds
      <4>4. QED BY <3>1, <4>3
    <3>3. CASE m # 0
      <4>1. Holds(m) /\ m \in 1..n /\ m \in Nat
        BY <2>5, <3>3
      <4>2. PICK u \in Str, v \in Str : u = g[m] /\ v = s[j]
        BY <1>0, <2>3, <3>1, <4>1
      <4>3. g[j] = u \o v
        <5>1. j \in 2..n /\ j - 1 = m
          BY <3>1, <3>3
        <5>2. QED BY <2>3, <4>2, <5>1
      <4>4. Len(u) = 3 * m /\ Len(v) = 3
        BY <1>0, <3>1, <4>1, <4>2
      <4>5. /\ Len(u \o v) = Len(u) + Len(v)
            /\ \A i \in 1..Len(u) : (u \o v)[i] = u[i]
            /\ \A i \in 1..Len(v) : (u \o v)[Len(u) + i] = v[i]
        BY ConcatAt
      <4>6. Len(g[j]) = 3 * j
        <5>1. 3 * m + 3 = 3 * j
          BY <3>1
        <5>2. QED BY ONLY <4>3, <4>4, <4>5, <5>1
      <4>7. ASSUME NEW i \in 1..j, NEW k \in 1..3 PROVE g[j][3 * (i - 1) + k] = s[i][k]
        <5>1. CASE i = j
          <6>1. 3 * (i - 1) + k = 3 * m + k
            BY <3>1, <5>1
          <6>2. (u \o v)[3 * m + k] = v[k]
            BY <4>4, <4>5
          <6>3. QED BY <4>2, <4>3, <5>1, <6>1, <6>2
        <5>2. CASE i # j
          <6>1. i \in 1..m
            BY <3>1, <5>2
          <6>2. g[m][3 * (i - 1) + k] = s[i][k]
            BY <4>1, <6>1
          <6>3. 3 * (i - 1) + k \in 1..(3 * m)
            BY <4>1, <6>1
          <6>4. (u \o v)[3 * (i - 1) + k] = u[3 * (i - 1) + k]
            BY <4>4, <4>5, <6>3
          <6>5. QED BY ONLY <4>2, <4>3, <6>2, <6>4
        <5>3. QED BY <5>1, <5>2
      <4>8. Holds(j)
        BY <4>6, <4>7
      <4> HIDE DEF Holds
      <4>9. QED BY <3>1, <4>8
    <3>4. QED BY <3>2, <3>3
  <2> HIDE DEF T
  <2>6. \A m \in 0..n : m \in T
    BY <2>4, <2>5, UpTo
  <2>7. n \in T /\ n # 0
    BY <1>2, <2>6
  <2>8. Holds(n)
    BY <2>7 DEF T
  <2>9. n \in 1..n
    BY <2>1
  <2>10. QED BY <2>3, <2>8, <2>9
<1>3. QED BY <1>1, <1>2

\* The places of a string, by threes.
LEMMA ByThrees ==
    ASSUME NEW n \in Nat, NEW j \in 1..(3 * n)
    PROVE  \E i \in 1..n, k \in 1..3 : j = 3 * (i - 1) + k
<1>1. PICK q \in Int, r \in 0..2 : j - 1 = 3 * q + r
  <2>1. (j - 1) \div 3 \in Int /\ (j - 1) % 3 \in 0..2 /\ j - 1 = 3 * ((j - 1) \div 3) + ((j - 1) % 3)
    BY Z3
  <2>2. QED BY <2>1
<1>2. q + 1 \in 1..n /\ r + 1 \in 1..3 /\ j = 3 * ((q + 1) - 1) + (r + 1)
  BY <1>1
<1>3. QED BY <1>2

\* What is left behind the groups of three bytes.
LEMMA CodedLen ==
    ASSUME NEW str \in Seq(1..127), NEW e, Coded(e, str, 1), NEW m \in Nat, NEW r \in 0..2,
           Len(str) = 3 * m + r
    PROVE  Len(e) = IF r = 0 THEN 4 * m ELSE 4 * m + 4
<1>1. PICK l \in Nat : l = Len(e)
  BY DEF Coded, Str
<1>2. \A g \in Nat : (1 + 3 * g <= 3 * m + r => 4 * g + 4 <= l) /\ (1 + 3 * g > 3 * m + r => l <= 4 * g)
  BY <1>1 DEF Coded
<1>3. CASE r = 0
  <2>1. 1 + 3 * m > 3 * m + r
    BY <1>3
  <2>2. l <= 4 * m
    BY <1>2, <2>1
  <2>3. CASE m = 0
    BY <1>1, <1>3, <2>2, <2>3
  <2>4. CASE m # 0
    <3>1. PICK g \in Nat : m = g + 1
      <4>1. m - 1 \in Nat /\ m = (m - 1) + 1
        BY <2>4
      <4>2. QED BY <4>1
    <3>2. 4 * g + 4 <= l
      BY <1>2, <1>3, <3>1
    <3>3. QED BY <1>1, <1>3, <2>2, <3>1, <3>2
  <2>5. QED BY <2>3, <2>4
<1>4. CASE r # 0
  <2>1. 4 * m + 4 <= l
    BY <1>2, <1>4
  <2>2. PICK g \in Nat : g = m + 1
    OBVIOUS
  <2>3. l <= 4 * g
    <3>1. 1 + 3 * g > 3 * m + r
      BY <2>2
    <3>2. QED BY <1>2, <3>1
  <2>4. QED BY <1>1, <1>4, <2>1, <2>2, <2>3
<1>5. QED BY <1>3, <1>4

LEMMA InThrees ==
    ASSUME NEW n \in Nat
    PROVE  \E m \in Nat, r \in 0..2 : n = 3 * m + r /\ m = n \div 3 /\ r = n % 3
<1>1. n \div 3 \in Nat /\ n % 3 \in 0..2 /\ n = 3 * (n \div 3) + (n % 3)
  BY Z3
<1>2. QED BY <1>1

\* What the decoder reads of a group: how many "=", and the bytes.
GroupSays(str, j, data, q) ==
    /\ j + 2 <= Len(str) => /\ base64_equal_sign(data, q) = 0
                            /\ Group(data, q) = << str[j], str[j + 1], str[j + 2] >>
    /\ j + 1 = Len(str) => /\ base64_equal_sign(data, q) = 1
                           /\ Group(data, q)[1] = str[j] /\ Group(data, q)[2] = str[j + 1]
    /\ j = Len(str) => /\ base64_equal_sign(data, q) = 2
                       /\ Group(data, q)[1] = str[j]

LEMMA GroupOf ==
    ASSUME NEW str \in Seq(1..127), NEW j \in 1..Len(str), NEW data, NEW q,
           \A k \in 0..3 : At(data, q + k) = CodeChar(str, j, k)
    PROVE  GroupSays(str, j, data, q)
<1>1. PICK n \in Nat : n = Len(str)
  BY LenProperties, Zenon
<1>2. PICK x \in 0..127, y \in 0..127, z \in 0..127 :
         x = At(str, j) /\ y = At(str, j + 1) /\ z = At(str, j + 2)
  BY TextByte, Zenon
<1>3. j \in 1..n /\ x = str[j] /\ (j + 1 <= n => y = str[j + 1]) /\ (j + 2 <= n => z = str[j + 2])
  <2>1. DOMAIN str = 1..n
    BY <1>1
  <2>2. j \in 1..n
    BY <1>1
  <2>3. (j + 1 <= n => j + 1 \in 1..n) /\ (j + 2 <= n => j + 2 \in 1..n)
    BY <2>2
  <2>4. QED BY <1>2, <2>1, <2>2, <2>3 DEF At
<1>4. \A k \in 0..3 : (At(data, q + k) = EQUAL) <=> (k = 2 /\ j = n) \/ (k = 3 /\ j + 1 >= n)
  BY <1>1, CodeCharIs
<1>5. \A k \in 0..3 : ~((k = 2 /\ j = n) \/ (k = 3 /\ j + 1 >= n)) => At(data, q + k) = Base(Six(x, y, z, k))
  BY <1>1, <1>2 DEF CodeChar
<1>6. ASSUME j + 2 <= n
      PROVE  base64_equal_sign(data, q) = 0 /\ Group(data, q) = << str[j], str[j + 1], str[j + 2] >>
  <2>1. \A k \in 0..3 : ~((k = 2 /\ j = n) \/ (k = 3 /\ j + 1 >= n))
    BY <1>3, <1>6
  <2>2. base64_equal_sign(data, q) = 0
    <3>1. \A k \in 0..3 : At(data, q + k) # EQUAL
      BY <1>4, <2>1
    <3>2. QED BY <3>1, EqualSigns
  <2>3. PICK four \in {2, 3, 4} : four = 4
    OBVIOUS
  <2>4. CharsAt(data, q, x, y, z, four)
    <3>1. \A k \in 0..(four - 1) : k \in 0..3 /\ ~((k = 2 /\ j = n) \/ (k = 3 /\ j + 1 >= n))
      BY <2>1, <2>3
    <3>2. \A k \in 0..(four - 1) : At(data, q + k) = Base(Six(x, y, z, k))
      BY ONLY <1>5, <3>1
    <3>3. QED BY <3>2 DEF CharsAt
  <2>5. Group(data, q) = << x, y, z >>
    BY <2>3, <2>4, GroupBack
  <2>6. x = str[j] /\ y = str[j + 1] /\ z = str[j + 2]
    BY <1>3, <1>6
  <2>7. QED BY <2>2, <2>5, <2>6
<1>7. ASSUME j + 1 = n
      PROVE  /\ base64_equal_sign(data, q) = 1
             /\ Group(data, q)[1] = str[j] /\ Group(data, q)[2] = str[j + 1]
  <2>1. \A k \in 0..3 : ((k = 2 /\ j = n) \/ (k = 3 /\ j + 1 >= n)) <=> k = 3
    BY <1>3, <1>7
  <2>2. base64_equal_sign(data, q) = 1
    <3>1. \A k \in 0..3 : (At(data, q + k) = EQUAL) <=> k = 3
      BY <1>4, <2>1
    <3>2. 3 \in 0..3
      OBVIOUS
    <3>3. \E i \in 0..3 : \A k \in 0..3 : At(data, q + k) = EQUAL <=> k = i
      BY <3>1, <3>2
    <3>4. base64_equal_sign(data, q) = 1 <=>
            \E i \in 0..3 : \A k \in 0..3 : At(data, q + k) = EQUAL <=> k = i
      BY EqualSigns
    <3>5. QED BY ONLY <3>3, <3>4
  <2>3. PICK three \in {2, 3, 4} : three = 3
    OBVIOUS
  <2>4. CharsAt(data, q, x, y, z, three)
    <3>1. \A k \in 0..(three - 1) : k \in 0..3 /\ ~((k = 2 /\ j = n) \/ (k = 3 /\ j + 1 >= n))
      BY <2>1, <2>3
    <3>2. \A k \in 0..(three - 1) : At(data, q + k) = Base(Six(x, y, z, k))
      BY ONLY <1>5, <3>1
    <3>3. QED BY <3>2 DEF CharsAt
  <2>5. Group(data, q)[1] = x /\ Group(data, q)[2] = y
    BY <2>3, <2>4, GroupBack
  <2>6. x = str[j] /\ y = str[j + 1]
    BY <1>3, <1>7
  <2>7. QED BY <2>2, <2>5, <2>6
<1>8. ASSUME j = n
      PROVE  base64_equal_sign(data, q) = 2 /\ Group(data, q)[1] = str[j]
  <2>1. \A k \in 0..3 : ((k = 2 /\ j = n) \/ (k = 3 /\ j + 1 >= n)) <=> k \in {2, 3}
    BY <1>3, <1>8
  <2>2. base64_equal_sign(data, q) = 2
    <3>1. \A k \in 0..3 : (At(data, q + k) = EQUAL) <=> k \in {2, 3}
      BY <1>4, <2>1
    <3>2. 2 \in 0..3 /\ 3 \in 0..3 /\ 2 # 3
      OBVIOUS
    <3>3. \E i \in 0..3, l \in 0..3 : i # l /\ \A k \in 0..3 : (At(data, q + k) = EQUAL) <=> k \in {i, l}
      BY <3>1, <3>2
    <3>4. QED BY <3>3, EqualSigns
  <2>3. PICK two \in {2, 3, 4} : two = 2
    OBVIOUS
  <2>4. CharsAt(data, q, x, y, z, two)
    <3>1. \A k \in 0..(two - 1) : k \in 0..3 /\ ~((k = 2 /\ j = n) \/ (k = 3 /\ j + 1 >= n))
      BY <2>1, <2>3
    <3>2. \A k \in 0..(two - 1) : At(data, q + k) = Base(Six(x, y, z, k))
      BY ONLY <1>5, <3>1
    <3>3. QED BY <3>2 DEF CharsAt
  <2>5. Group(data, q)[1] = x
    BY <2>3, <2>4, GroupBack
  <2>6. QED BY <1>3, <2>2, <2>5
<1>9. QED BY <1>1, <1>6, <1>7, <1>8 DEF GroupSays

\* The groups of three bytes, put together.
LEMMA FlattenText ==
    ASSUME NEW str \in Seq(1..127), NEW m \in Nat, 3 * m <= Len(str), NEW s,
           s = [i \in 1..m |-> s[i]],
           \A i \in 1..m : s[i] = << str[3 * (i - 1) + 1], str[3 * (i - 1) + 2], str[3 * (i - 1) + 3] >>
    PROVE  FlattenSeq(s) = SubSeq(str, 1, 3 * m)
<1>1. PICK n \in Nat : n = Len(str)
  OBVIOUS
<1>2. str \in Str
  BY TextStr
<1>3. \A i \in 1..m : \A k \in 1..3 : 3 * (i - 1) + k \in 1..(3 * m)
  OBVIOUS
<1>4. ASSUME NEW i \in 1..m
      PROVE  s[i] \in Str /\ Len(s[i]) = 3 /\ \A k \in 1..3 : s[i][k] = str[3 * (i - 1) + k]
  <2>1. \A k \in 1..3 : str[3 * (i - 1) + k] \in Int
    <3> TAKE k \in 1..3
    <3>1. 3 * (i - 1) + k \in 1..Len(str)
      BY <1>1, <1>3
    <3>2. QED BY <1>2, <3>1, ElementOfSeq DEF Str
  <2>2. PICK a \in Int, b \in Int, c \in Int :
          a = str[3 * (i - 1) + 1] /\ b = str[3 * (i - 1) + 2] /\ c = str[3 * (i - 1) + 3]
    <3>1. 1 \in 1..3 /\ 2 \in 1..3 /\ 3 \in 1..3
      OBVIOUS
    <3>2. QED BY ONLY <2>1, <3>1
  <2>3. PICK t : t = << a, b, c >>
    OBVIOUS
  <2>4. t \in Str /\ Len(t) = 3 /\ t[1] = a /\ t[2] = b /\ t[3] = c
    BY <2>3 DEF Str
  <2>5. s[i] = t
    BY <1>4, <2>2, <2>3
  <2>6. \A k \in 1..3 : k = 1 \/ k = 2 \/ k = 3
    OBVIOUS
  <2>7. \A k \in 1..3 : t[k] = str[3 * (i - 1) + k]
    BY ONLY <2>2, <2>4, <2>6
  <2>8. QED BY <2>4, <2>5, <2>7
<1>5. s \in [1..m -> Str]
  BY <1>4
<1>6. /\ FlattenSeq(s) \in Str /\ Len(FlattenSeq(s)) = 3 * m
      /\ \A i \in 1..m : \A k \in 1..3 : FlattenSeq(s)[3 * (i - 1) + k] = s[i][k]
  <2>1. \A i \in 1..m : Len(s[i]) = 3
    BY <1>4
  <2>2. InThree(s, m)
    BY <1>5, <2>1 DEF InThree
  <2>3. QED BY ONLY <2>2, FlattenThree
<1>7. PICK f \in Str : f = FlattenSeq(s) /\ Len(f) = 3 * m
  BY <1>6
<1>8. \A i \in 1..m : \A k \in 1..3 : f[3 * (i - 1) + k] = str[3 * (i - 1) + k]
  BY <1>4, <1>6, <1>7
<1>9. \A j \in 1..(3 * m) : f[j] = str[j]
  <2> TAKE j \in 1..(3 * m)
  <2>1. PICK i \in 1..m, k \in 1..3 : j = 3 * (i - 1) + k
    BY ByThrees
  <2>2. QED BY <1>8, <2>1
<1>10. PICK a \in Nat \ {0}, b \in Int : a = 1 /\ b = 3 * m /\ b <= Len(str)
  OBVIOUS
<1>11. /\ SubSeq(str, a, b) \in Str /\ Len(SubSeq(str, a, b)) = IF a <= b THEN b - a + 1 ELSE 0
       /\ \A i \in 1..(b - a + 1) : SubSeq(str, a, b)[i] = str[a + i - 1]
  BY <1>2, <1>10, SubStr, Zenon
<1>12. PICK h \in Str : h = SubSeq(str, a, b) /\ Len(h) = b /\ \A i \in 1..b : h[i] = str[i]
  <2>1. (IF a <= b THEN b - a + 1 ELSE 0) = b /\ b - a + 1 = b /\ \A i \in 1..b : a + i - 1 = i
    BY <1>10
  <2>2. QED BY <1>11, <2>1
<1>13. f = h
  <2>1. Len(f) = Len(h) /\ \A i \in 1..Len(f) : f[i] = h[i]
    BY <1>7, <1>9, <1>10, <1>12
  <2>2. QED BY <2>1, SeqEqual DEF Str
<1>14. QED BY <1>7, <1>10, <1>12, <1>13

LEMMA FirstTwo ==
    ASSUME NEW data \in Str, NEW q
    PROVE  SubSeq(Group(data, q), 1, 2) = << Group(data, q)[1], Group(data, q)[2] >>
<1>1. PICK g \in Str : g = Group(data, q) /\ Len(g) = 3 /\ g[1] \in Int /\ g[2] \in Int
  BY GroupIs
<1>2. PICK a \in Nat \ {0}, b \in Int : a = 1 /\ b = 2
  OBVIOUS
<1>3. PICK h \in Str : h = SubSeq(g, a, b) /\ Len(h) = 2 /\ h[1] = g[1] /\ h[2] = g[2]
  <2>1. b <= Len(g) /\ a <= b /\ b - a + 1 = 2 /\ 1 \in 1..2 /\ 2 \in 1..2
    BY <1>1, <1>2
  <2>2. /\ SubSeq(g, a, b) \in Str /\ Len(SubSeq(g, a, b)) = 2
        /\ \A i \in 1..2 : SubSeq(g, a, b)[i] = g[a + i - 1]
    BY <2>1, SubStr
  <2>3. a + 1 - 1 = 1 /\ a + 2 - 1 = 2
    BY <1>2
  <2>4. QED BY <2>1, <2>2, <2>3
<1>4. PICK x \in Int, y \in Int : x = g[1] /\ y = g[2]
  BY <1>1
<1>5. PICK t : t = << x, y >>
  OBVIOUS
<1>6. t \in Str /\ Len(t) = 2 /\ t[1] = x /\ t[2] = y
  BY <1>5 DEF Str
<1>7. \A i \in 1..Len(h) : h[i] = t[i]
  <2>1. \A i \in 1..2 : i = 1 \/ i = 2
    OBVIOUS
  <2>2. QED BY ONLY <1>3, <1>4, <1>6, <2>1
<1>8. h = t
  BY <1>3, <1>6, <1>7, SeqEqual DEF Str
<1>9. QED BY ONLY <1>1, <1>2, <1>3, <1>4, <1>5, <1>8

\* Two strings that have the same characters.
LEMMA StrEqual ==
    ASSUME NEW s, NEW t, s \in Str, t \in Str, Len(s) = Len(t), \A i \in 1..Len(s) : s[i] = t[i]
    PROVE  s = t
BY SeqEqual DEF Str

\* The groups of three bytes, and what is behind them.
LEMMA Rejoin ==
    ASSUME NEW str \in Str, NEW m \in Nat, NEW u \in Str, Len(str) = m + Len(u),
           \A i \in 1..Len(u) : str[m + i] = u[i]
    PROVE  SubSeq(str, 1, m) \o u = str
<1>1. PICK n \in Nat, l \in Nat : n = Len(str) /\ l = Len(u) /\ n = m + l
  BY DEF Str
<1>2. PICK a \in Nat \ {0}, b \in Int : a = 1 /\ b = m
  OBVIOUS
<1>3. PICK h \in Str : h = SubSeq(str, a, b) /\ Len(h) = m /\ \A i \in 1..m : h[i] = str[i]
  <2>1. b <= Len(str)
    BY <1>1, <1>2
  <2>2. /\ SubSeq(str, a, b) \in Str /\ Len(SubSeq(str, a, b)) = IF a <= b THEN b - a + 1 ELSE 0
        /\ \A i \in 1..(b - a + 1) : SubSeq(str, a, b)[i] = str[a + i - 1]
    BY <2>1, SubStr
  <2>3. (IF a <= b THEN b - a + 1 ELSE 0) = m /\ b - a + 1 = m /\ \A i \in 1..m : a + i - 1 = i
    BY <1>2
  <2>4. QED BY <2>2, <2>3
<1>4. /\ h \o u \in Str /\ Len(h \o u) = Len(h) + Len(u)
      /\ \A i \in 1..Len(h) : (h \o u)[i] = h[i]
      /\ \A i \in 1..Len(u) : (h \o u)[Len(h) + i] = u[i]
  BY ConcatAt
<1>5. PICK v \in Str : v = h \o u
  BY <1>4
<1>6. Len(v) = n /\ (\A i \in 1..m : v[i] = str[i]) /\ (\A i \in 1..l : v[m + i] = u[i])
  BY ONLY <1>1, <1>3, <1>4, <1>5
<1>7. \A i \in 1..n : v[i] = str[i]
  <2> TAKE i \in 1..n
  <2>1. CASE i \in 1..m
    BY <1>6, <2>1
  <2>2. CASE i \notin 1..m
    <3>1. PICK j \in 1..l : i = m + j
      <4>1. i - m \in 1..l /\ i = m + (i - m)
        BY <1>1, <2>2
      <4>2. QED BY <4>1
    <3>2. str[m + j] = u[j]
      BY <1>1
    <3>3. QED BY <1>6, <3>1, <3>2
  <2>3. QED BY <2>1, <2>2
<1>8. v = str
  BY <1>1, <1>6, <1>7, StrEqual
<1>9. QED BY <1>2, <1>3, <1>5, <1>8

\* The code e stands in data at p, and the end of an encoded word behind it.
WordAt(data, p, e) ==
    /\ p \in Nat /\ data \in Str
    /\ \A i \in 1..Len(e) : At(data, p + i - 1) = e[i]
    /\ At(data, p + Len(e)) = QUESTION /\ At(data, p + Len(e) + 1) = EQUAL
    /\ At(data, p + Len(e) + 2) # EQUAL

\* The groups of the bytes of str from 3 * g + 1 on.
Grouped(data, p, str) ==
    \A g \in Nat : 1 + 3 * g <= Len(str) =>
      \A k \in 0..3 : At(data, p + 4 * g + k) = CodeChar(str, 1 + 3 * g, k)

LEMMA WordGroup ==
    ASSUME NEW str \in Seq(1..127), NEW e, Coded(e, str, 1), NEW data, NEW p, WordAt(data, p, e)
    PROVE  Grouped(data, p, str)
<1> SUFFICES ASSUME NEW g \in Nat, 1 + 3 * g <= Len(str)
             PROVE  \A k \in 0..3 : At(data, p + 4 * g + k) = CodeChar(str, 1 + 3 * g, k)
  BY DEF Grouped
<1>1. PICK l \in Nat : l = Len(e)
  BY DEF Coded, Str
<1>2. 4 * g + 4 <= l /\ \A k \in 0..3 : e[4 * g + k + 1] = CodeChar(str, 1 + 3 * g, k)
  BY <1>1 DEF Coded
<1>3. p \in Nat /\ \A i \in 1..l : At(data, p + i - 1) = e[i]
  BY <1>1 DEF WordAt
<1>4. ASSUME NEW k \in 0..3 PROVE At(data, p + 4 * g + k) = CodeChar(str, 1 + 3 * g, k)
  <2>1. PICK i \in 1..l : i = 4 * g + k + 1
    BY <1>2
  <2>2. p + i - 1 = p + 4 * g + k
    BY <1>3, <2>1
  <2>3. At(data, p + i - 1) = e[i]
    BY <1>3
  <2>4. QED BY <1>2, <2>1, <2>2, <2>3
<1>5. QED BY <1>4

LEMMA AppendTuples ==
    ASSUME NEW x \in Int, NEW y \in Int, NEW z \in Int
    PROVE  Append(<< >>, x) = << x >> /\ Append(<< x, y >>, z) = << x, y, z >>
<1>1. Append(<< >>, x) = << x >>
  OBVIOUS
<1>2. << x, y >> \in Seq(Int) /\ << x, y, z >> \in Seq(Int)
  OBVIOUS
<1>3. PICK c \in Str, d \in Str : /\ c = << x, y >> /\ d = << x, y, z >>
                                /\ Len(c) = 2 /\ Len(d) = 3 /\ d[1] = c[1] /\ d[2] = c[2] /\ d[3] = z
  BY <1>2 DEF Str
<1>4. PICK n \in Nat : n = Len(c) /\ n = 2
  BY <1>3
<1>5. PICK v : v = Append(c, z)
  OBVIOUS
<1>6. v \in Str /\ Len(v) = n + 1 /\ (\A i \in 1..n : v[i] = c[i]) /\ v[n + 1] = z
  <2>1. c \in Seq(Int) /\ z \in Int
    BY DEF Str
  <2>2. /\ Append(c, z) \in Seq(Int) /\ Len(Append(c, z)) = Len(c) + 1
        /\ \A i \in 1..Len(c) : Append(c, z)[i] = c[i]
        /\ Append(c, z)[Len(c) + 1] = z
    BY <2>1, AppendProperties
  <2>3. QED BY ONLY <1>4, <1>5, <2>2 DEF Str
<1>7. \A i \in 1..Len(v) : v[i] = d[i]
  <2>1. n + 1 = 3 /\ 1 \in 1..n /\ 2 \in 1..n /\ \A i \in 1..3 : i = 1 \/ i = 2 \/ i = 3
    BY <1>4
  <2>2. QED BY ONLY <1>3, <1>6, <2>1
<1>8. v = d
  <2>1. Len(v) = Len(d)
    BY <1>3, <1>4, <1>6
  <2>2. QED BY <1>6, <1>7, <2>1, StrEqual
<1>9. QED BY ONLY <1>1, <1>3, <1>5, <1>8

\* What the block behind the loop makes of one byte that is left, and of two.  Of
\* the latter the code takes the "=" and the "?=" of the encoded word for a
\* group of its own, of a byte that is zero.
LEMMA LastByte ==
    ASSUME NEW data \in Str, NEW q, base64_equal_sign(data, q) = 2
    PROVE  Padding(data, q, TRUE).out = << Group(data, q)[1] >>
<1>1. PICK x \in Int : x = Group(data, q)[1]
  BY GroupIs
<1>2. Padding(data, q, TRUE).out = Append(<< >>, x)
  BY <1>1 DEF Padding
<1>3. QED BY <1>1, <1>2, AppendTuples

LEMMA LastTwoBytes ==
    ASSUME NEW data \in Str, NEW q \in Nat, base64_equal_sign(data, q) = 1, At(data, q + 3) = EQUAL,
           At(data, q + 4) = QUESTION, At(data, q + 5) = EQUAL, At(data, q + 6) # EQUAL
    PROVE  Padding(data, q, TRUE).out = << Group(data, q)[1], Group(data, q)[2], NUL >>
<1>1. PICK v \in Nat : v = q + 3
  OBVIOUS
<1>2. /\ At(data, v + 0) = EQUAL /\ At(data, v + 1) = QUESTION
      /\ At(data, v + 2) = EQUAL /\ At(data, v + 3) # EQUAL
  <2>1. v + 0 = q + 3 /\ v + 1 = q + 4 /\ v + 2 = q + 5 /\ v + 3 = q + 6
    BY <1>1
  <2>2. QED BY <2>1
<1>3. base64_equal_sign(data, v) = 2
  <2>1. \A k \in 0..3 : At(data, v + k) = EQUAL <=> k \in {0, 2}
    <3> TAKE k \in 0..3
    <3>1. k = 0 \/ k = 1 \/ k = 2 \/ k = 3
      OBVIOUS
    <3>2. EQUAL # QUESTION
      BY DEF EQUAL, QUESTION
    <3>3. QED BY <1>2, <3>1, <3>2
  <2>2. \E i \in 0..3, j \in 0..3 : i # j /\ \A k \in 0..3 : At(data, v + k) = EQUAL <=> k \in {i, j}
    <3>1. 0 \in 0..3 /\ 2 \in 0..3 /\ 0 # 2
      OBVIOUS
    <3>2. QED BY <2>1, <3>1
  <2>3. base64_equal_sign(data, v) = 2 <=>
          \E i \in 0..3, j \in 0..3 : i # j /\ \A k \in 0..3 : At(data, v + k) = EQUAL <=> k \in {i, j}
    BY EqualSigns
  <2>4. QED BY ONLY <2>2, <2>3
<1>4. Group(data, v)[1] = NUL
  <2>1. Esab(At(data, v + 0)) = 0 /\ Esab(At(data, v + 1)) = 0
    BY <1>2 DEF Esab, EQUAL, QUESTION
  <2>2. Group(data, v)[1] = Byte(Esab(At(data, v + 0)) * 4 + Esab(At(data, v + 1)) \div 16)
    BY DEF Group
  <2>3. (0 * 4 + 0 \div 16) % 256 = 0
    BY Z3
  <2>4. Group(data, v)[1] = (0 * 4 + 0 \div 16) % 256
    BY ONLY <2>1, <2>2 DEF Byte
  <2>5. QED BY <2>3, <2>4 DEF NUL
<1>5. PICK x \in Int, y \in Int : x = Group(data, q)[1] /\ y = Group(data, q)[2]
  BY GroupIs
<1>6. PICK first : first = << x, y >>
  OBVIOUS
<1>7. SubSeq(Group(data, q), 1, 2) = first
  BY <1>5, <1>6, FirstTwo
<1>8. Padding(data, q, TRUE).out = Append(first, NUL)
  BY <1>1, <1>3, <1>4, <1>7 DEF Padding
<1>9. Append(first, NUL) = << x, y, NUL >>
  <2>1. PICK z \in Int : z = NUL
    BY DEF NUL
  <2>2. Append(<< x, y >>, z) = << x, y, z >>
    BY AppendTuples
  <2>3. QED BY ONLY <1>6, <2>1, <2>2
<1>10. QED BY ONLY <1>5, <1>8, <1>9

\* Strings that are written out, and one more character.
LEMMA Tuples ==
    ASSUME NEW x \in Int, NEW y \in Int, NEW z \in Int
    PROVE  /\ << >> \in Str /\ Len(<< >>) = 0
           /\ << x >> \in Str /\ Len(<< x >>) = 1 /\ << x >>[1] = x
           /\ << x, y >> \in Str /\ Len(<< x, y >>) = 2
           /\ << x, y >>[1] = x /\ << x, y >>[2] = y
           /\ << x, y, z >> \in Str /\ Len(<< x, y, z >>) = 3
           /\ << x, y, z >>[1] = x /\ << x, y, z >>[2] = y /\ << x, y, z >>[3] = z
<1>1. << x >> \in Seq(Int) /\ << x, y >> \in Seq(Int) /\ << x, y, z >> \in Seq(Int)
  OBVIOUS
<1>2. << >> \in Str /\ Len(<< >>) = 0
  BY SufEmpty DEF Str
<1>3. QED BY <1>1, <1>2 DEF Str

LEMMA NoStr ==
    ASSUME NEW s \in Str, Len(s) = 0
    PROVE  s = << >>
BY EmptySeq DEF Str

LEMMA OneMore ==
    ASSUME NEW s \in Str, NEW c \in Int, NEW n \in Nat, n = Len(s)
    PROVE  /\ Append(s, c) \in Str /\ Len(Append(s, c)) = n + 1
           /\ \A i \in 1..n : Append(s, c)[i] = s[i]
           /\ Append(s, c)[n + 1] = c
<1>1. /\ Append(s, c) \in Seq(Int) /\ Len(Append(s, c)) = Len(s) + 1
      /\ \A i \in 1..Len(s) : Append(s, c)[i] = s[i]
      /\ Append(s, c)[Len(s) + 1] = c
  <2>1. s \in Seq(Int)
    BY DEF Str
  <2>2. QED BY <2>1, AppendProperties
<1>2. QED BY ONLY <1>1, n = Len(s) DEF Str

\* Two strings that begin with the same characters.
LEMMA SameStart ==
    ASSUME NEW s \in Str, NEW t \in Str, NEW i \in Nat, i <= Len(s), i <= Len(t),
           \A h \in 1..i : s[h] = t[h]
    PROVE  SubSeq(s, 1, i) = SubSeq(t, 1, i)
<1>1. PICK a \in Nat \ {0}, b \in Int : a = 1 /\ b = i /\ b <= Len(s) /\ b <= Len(t)
  OBVIOUS
<1>2. PICK x : x = SubSeq(s, a, b)
  OBVIOUS
<1>3. PICK y : y = SubSeq(t, a, b)
  OBVIOUS
<1>4. x \in Str /\ Len(x) = (IF a <= b THEN b - a + 1 ELSE 0) /\ \A h \in 1..(b - a + 1) : x[h] = s[a + h - 1]
  BY <1>1, <1>2, SubStr
<1>5. y \in Str /\ Len(y) = (IF a <= b THEN b - a + 1 ELSE 0) /\ \A h \in 1..(b - a + 1) : y[h] = t[a + h - 1]
  BY <1>1, <1>3, SubStr
<1>6. (IF a <= b THEN b - a + 1 ELSE 0) = i /\ b - a + 1 = i /\ \A h \in 1..i : a + h - 1 = h
  BY <1>1
<1>7. Len(x) = i /\ Len(y) = i /\ \A h \in 1..i : x[h] = y[h]
  BY <1>4, <1>5, <1>6
<1>8. x = y
  BY <1>4, <1>5, <1>7, StrEqual
<1>9. QED BY <1>1, <1>2, <1>3, <1>8

\* The groups of base64_decode without "=".
FullGroups(data, p, l) == {k \in 0..l \div 4 : \A i \in 0..k - 1 : base64_equal_sign(data, p + 4 * i) = 0}

\* base64_decode gives back what base64_encode was given; a zero follows it if
\* two bytes were left.
LEMMA Base64Back ==
    ASSUME NEW str \in Seq(1..127), NEW e, Coded(e, str, 1), NEW data, NEW p, WordAt(data, p, e)
    PROVE  base64_decode(data, p, Len(e)) = IF Len(str) % 3 = 2 THEN Append(str, NUL) ELSE str
<1>1. PICK n \in Nat, m \in Nat, r \in 0..2 : n = Len(str) /\ n = 3 * m + r /\ r = n % 3
  <2>1. PICK n \in Nat : n = Len(str)
    OBVIOUS
  <2>2. PICK m \in Nat, r \in 0..2 : n = 3 * m + r /\ m = n \div 3 /\ r = n % 3
    BY InThrees
  <2>3. QED BY <2>1, <2>2
<1>2. PICK l \in Nat : l = Len(e) /\ l = IF r = 0 THEN 4 * m ELSE 4 * m + 4
  <2>1. Len(str) = 3 * m + r
    BY <1>1
  <2>2. Len(e) = IF r = 0 THEN 4 * m ELSE 4 * m + 4
    BY <2>1, CodedLen
  <2>3. PICK l \in Nat : l = IF r = 0 THEN 4 * m ELSE 4 * m + 4
    OBVIOUS
  <2>4. QED BY ONLY <2>2, <2>3, l \in Nat
<1>3. str \in Str /\ data \in Str /\ p \in Nat
  BY TextStr DEF WordAt
<1>4. \A g \in Nat : 1 + 3 * g <= n => \A k \in 0..3 : At(data, p + 4 * g + k) = CodeChar(str, 1 + 3 * g, k)
  <2>1. Grouped(data, p, str)
    BY WordGroup
  <2>2. QED BY ONLY <1>1, <2>1 DEF Grouped
<1>5. ASSUME NEW g \in 0..(m - 1)
      PROVE  /\ base64_equal_sign(data, p + 4 * g) = 0
             /\ Group(data, p + 4 * g) = << str[3 * g + 1], str[3 * g + 2], str[3 * g + 3] >>
  <2>1. PICK j \in 1..Len(str) : j = 1 + 3 * g /\ j + 2 <= Len(str)
    BY <1>1
  <2>2. PICK q \in Nat : q = p + 4 * g
    BY <1>3
  <2>3. \A k \in 0..3 : At(data, q + k) = CodeChar(str, j, k)
    BY <1>1, <1>4, <2>1, <2>2
  <2>4. base64_equal_sign(data, q) = 0 /\ Group(data, q) = << str[j], str[j + 1], str[j + 2] >>
    BY <2>1, <2>3, GroupOf DEF GroupSays
  <2>5. j = 3 * g + 1 /\ j + 1 = 3 * g + 2 /\ j + 2 = 3 * g + 3
    BY <2>1
  <2>6. QED BY <2>2, <2>4, <2>5
<1> DEFINE full == FullGroups(data, p, l)
           k == CHOOSE k \in full : \A j \in full : j <= k
           text(i) == FlattenSeq([i_1 \in 1..i |-> Group(data, p + 4 * (i_1 - 1))])
<1>6. l \div 4 = (IF r = 0 THEN m ELSE m + 1) /\ l % 4 = 0
  <2>1. CASE r = 0
    <3>1. (4 * m) \div 4 = m /\ (4 * m) % 4 = 0
      BY Z3
    <3>2. QED BY <1>2, <2>1, <3>1
  <2>2. CASE r # 0
    <3>1. (4 * m + 4) \div 4 = m + 1 /\ (4 * m + 4) % 4 = 0
      BY Z3
    <3>2. QED BY <1>2, <2>2, <3>1
  <2>3. QED BY <2>1, <2>2
<1>7. r # 0 => /\ r = 1 => /\ base64_equal_sign(data, p + 4 * m) = 2
                           /\ Group(data, p + 4 * m)[1] = str[n]
               /\ r = 2 => /\ base64_equal_sign(data, p + 4 * m) = 1
                           /\ Group(data, p + 4 * m)[1] = str[n - 1] /\ Group(data, p + 4 * m)[2] = str[n]
                           /\ At(data, p + 4 * m + 3) = EQUAL
  <2> SUFFICES ASSUME r # 0
               PROVE  /\ r = 1 => /\ base64_equal_sign(data, p + 4 * m) = 2
                                  /\ Group(data, p + 4 * m)[1] = str[n]
                      /\ r = 2 => /\ base64_equal_sign(data, p + 4 * m) = 1
                                  /\ Group(data, p + 4 * m)[1] = str[n - 1]
                                  /\ Group(data, p + 4 * m)[2] = str[n]
                                  /\ At(data, p + 4 * m + 3) = EQUAL
    OBVIOUS
  <2>1. PICK j \in 1..Len(str) : j = 1 + 3 * m
    BY <1>1
  <2>2. PICK q \in Nat : q = p + 4 * m
    BY <1>3
  <2>3. \A i \in 0..3 : At(data, q + i) = CodeChar(str, j, i)
    BY <1>1, <1>4, <2>1, <2>2
  <2>4. /\ j + 1 = Len(str) => /\ base64_equal_sign(data, q) = 1
                               /\ Group(data, q)[1] = str[j] /\ Group(data, q)[2] = str[j + 1]
        /\ j = Len(str) => /\ base64_equal_sign(data, q) = 2
                           /\ Group(data, q)[1] = str[j]
    BY <2>3, GroupOf DEF GroupSays
  <2>5. r = 1 => j = Len(str) /\ j = n
    BY <1>1, <2>1
  <2>6. r = 2 => j + 1 = Len(str) /\ j = n - 1 /\ j + 1 = n
    BY <1>1, <2>1
  <2>7. r = 2 => At(data, q + 3) = EQUAL
    <3>1. 3 \in 0..3
      OBVIOUS
    <3>2. r = 2 => CodeChar(str, j, 3) = EQUAL
      BY <1>1, <2>1 DEF CodeChar
    <3>3. QED BY <2>3, <3>1, <3>2
  <2>8. QED BY ONLY <2>2, <2>4, <2>5, <2>6, <2>7
<1>8. full = 0..m
  <2>1. \A i \in full : i \in 0..m
    <3> SUFFICES ASSUME NEW i \in full PROVE i \in 0..m
      OBVIOUS
    <3>1. i \in 0..(IF r = 0 THEN m ELSE m + 1) /\ \A h \in 0..i - 1 : base64_equal_sign(data, p + 4 * h) = 0
      BY <1>6 DEF FullGroups
    <3>2. r # 0 => base64_equal_sign(data, p + 4 * m) # 0
      BY <1>1, <1>7
    <3>3. CASE i = m + 1
      <4>1. m \in 0..i - 1 /\ r # 0
        BY <3>1, <3>3
      <4>2. QED BY <3>1, <3>2, <4>1
    <3>4. QED BY <3>1, <3>3
  <2>2. \A i \in 0..m : i \in full
    <3> TAKE i \in 0..m
    <3>1. i \in 0..l \div 4
      BY <1>6
    <3>2. \A h \in 0..i - 1 : base64_equal_sign(data, p + 4 * h) = 0
      BY <1>5
    <3>3. QED BY <3>1, <3>2 DEF FullGroups
  <2> HIDE DEF full
  <2>3. QED BY <2>1, <2>2
<1>9. k = m
  <2> HIDE DEF full
  <2>1. \E x \in full : \A j \in full : j <= x
    <3>1. m \in full /\ \A j \in full : j <= m
      BY <1>8
    <3>2. QED BY <3>1
  <2>2. k \in full /\ \A j \in full : j <= k
    BY <2>1
  <2> HIDE DEF k
  <2>3. QED BY <1>8, <2>2
<1>10. text(m) = SubSeq(str, 1, 3 * m)
  <2>1. PICK s : s = [i \in 1..m |-> Group(data, p + 4 * (i - 1))]
    OBVIOUS
  <2>2. \A i \in 1..m : s[i] = << str[3 * (i - 1) + 1], str[3 * (i - 1) + 2], str[3 * (i - 1) + 3] >>
    <3> TAKE i \in 1..m
    <3>1. PICK g \in 0..(m - 1) : g = i - 1
      OBVIOUS
    <3>2. s[i] = Group(data, p + 4 * g)
      BY <2>1, <3>1
    <3>3. QED BY <1>5, <3>1, <3>2
  <2>3. s = [i \in 1..m |-> s[i]]
    BY <2>1
  <2>4. 3 * m <= Len(str)
    BY <1>1
  <2>5. FlattenSeq(s) = SubSeq(str, 1, 3 * m)
    BY <2>2, <2>3, <2>4, FlattenText
  <2>6. QED BY <2>1, <2>5
<1>11. base64_decode(data, p, l) =
         IF l = 0 \/ l % 4 # 0 THEN << >>
         ELSE IF l = 4 * k THEN text(k)
         ELSE text(k) \o Padding(data, p + 4 * k, TRUE).out
  BY DEF base64_decode, FullGroups
<1> HIDE DEF k, text
<1>12. CASE r = 0
  <2>1. SubSeq(str, 1, 3 * m) = str
    <3>1. PICK u \in Str : u = << >> /\ Len(u) = 0
      BY ONLY Tuples, 0 \in Int
    <3>2. PICK i \in Nat : i = 3 * m
      OBVIOUS
    <3>3. Len(str) = i + Len(u) /\ \A h \in 1..Len(u) : str[i + h] = u[h]
      BY <1>1, <1>12, <3>1, <3>2
    <3>4. SubSeq(str, 1, i) \o u = str
      BY <1>3, <3>3, Rejoin
    <3>5. SubSeq(str, 1, i) \in Str
      <4>1. PICK a \in Nat \ {0}, b \in Int : a = 1 /\ b = i /\ b <= Len(str)
        BY <1>1, <3>2
      <4>2. SubSeq(str, a, b) \in Str
        BY <1>3, <4>1, SubStr
      <4>3. QED BY <4>1, <4>2
    <3>6. SubSeq(str, 1, i) \o << >> = SubSeq(str, 1, i)
      BY <3>5, ConcatEmptySeq DEF Str
    <3>7. QED BY <3>1, <3>2, <3>4, <3>6
  <2>2. base64_decode(data, p, l) = str
    <3>1. CASE l = 0
      <4>1. n = 0
        BY <1>1, <1>2, <1>12, <3>1
      <4>2. str = << >>
        BY <1>1, <1>3, <4>1, NoStr
      <4>3. QED BY <1>11, <3>1, <4>2
    <3>2. CASE l # 0
      <4>1. l = 4 * k
        BY <1>2, <1>9, <1>12
      <4>2. QED BY <1>6, <1>9, <1>10, <1>11, <2>1, <3>2, <4>1
    <3>3. QED BY <3>1, <3>2
  <2>3. QED BY <1>1, <1>2, <1>12, <2>2
<1>13. CASE r = 1
  <2>1. l # 0 /\ l # 4 * k
    BY <1>2, <1>9, <1>13
  <2>2. PICK c \in Int : c = str[n]
    <3>1. n \in 1..Len(str)
      BY <1>1, <1>13
    <3>2. QED BY <1>3, <3>1, ElementOfSeq DEF Str
  <2>3. Padding(data, p + 4 * m, TRUE).out = << c >>
    <3>1. PICK q \in Nat : q = p + 4 * m
      BY <1>3
    <3>2. base64_equal_sign(data, q) = 2 /\ Group(data, q)[1] = c
      BY <1>7, <1>13, <2>2, <3>1
    <3>3. Padding(data, q, TRUE).out = << Group(data, q)[1] >>
      BY <1>3, <3>2, LastByte
    <3>4. QED BY ONLY <3>1, <3>2, <3>3
  <2>4. base64_decode(data, p, l) = SubSeq(str, 1, 3 * m) \o << c >>
    BY <1>6, <1>9, <1>10, <1>11, <2>1, <2>3
  <2>5. PICK u \in Str : u = << c >> /\ Len(u) = 1 /\ u[1] = c
    BY Tuples
  <2>6. PICK i \in Nat : i = 3 * m
    OBVIOUS
  <2>7. Len(str) = i + Len(u) /\ \A h \in 1..Len(u) : str[i + h] = u[h]
    <3>1. n = i + 1
      BY <1>1, <1>13, <2>6
    <3>2. \A h \in 1..1 : h = 1
      OBVIOUS
    <3>3. QED BY ONLY <1>1, <2>2, <2>5, <3>1, <3>2
  <2>8. SubSeq(str, 1, i) \o u = str
    BY <1>3, <2>7, Rejoin
  <2>9. Len(str) % 3 # 2
    BY <1>1, <1>13
  <2>10. QED BY <1>2, <2>4, <2>5, <2>6, <2>8, <2>9
<1>14. CASE r = 2
  <2>1. l # 0 /\ l # 4 * k
    BY <1>2, <1>9, <1>14
  <2>2. PICK c \in Int, d \in Int : c = str[n - 1] /\ d = str[n]
    <3>1. n - 1 \in 1..Len(str) /\ n \in 1..Len(str)
      BY <1>1, <1>14
    <3>2. QED BY <1>3, <3>1, ElementOfSeq DEF Str
  <2>3. Padding(data, p + 4 * m, TRUE).out = << c, d, NUL >>
    <3>1. PICK q \in Nat : q = p + 4 * m
      BY <1>3
    <3>2. At(data, q + 4) = QUESTION /\ At(data, q + 5) = EQUAL /\ At(data, q + 6) # EQUAL
      <4>1. /\ At(data, p + l) = QUESTION /\ At(data, p + l + 1) = EQUAL /\ At(data, p + l + 2) # EQUAL
        BY <1>2 DEF WordAt
      <4>2. q + 4 = p + l /\ q + 5 = p + l + 1 /\ q + 6 = p + l + 2
        BY <1>2, <1>3, <1>14, <3>1
      <4>3. QED BY <4>1, <4>2
    <3>3. /\ base64_equal_sign(data, q) = 1 /\ Group(data, q)[1] = c /\ Group(data, q)[2] = d
          /\ At(data, q + 3) = EQUAL
      BY <1>7, <1>14, <2>2, <3>1
    <3>4. Padding(data, q, TRUE).out = << Group(data, q)[1], Group(data, q)[2], NUL >>
      BY <1>3, <3>2, <3>3, LastTwoBytes
    <3>5. QED BY ONLY <3>1, <3>3, <3>4
  <2>4. base64_decode(data, p, l) = SubSeq(str, 1, 3 * m) \o << c, d, NUL >>
    BY <1>6, <1>9, <1>10, <1>11, <2>1, <2>3
  <2>5. PICK u \in Str : u = << c, d, NUL >> /\ Len(u) = 3 /\ u[1] = c /\ u[2] = d /\ u[3] = NUL
    <3>1. PICK z \in Int : z = NUL
      BY DEF NUL
    <3>2. PICK u : u = << c, d, z >>
      OBVIOUS
    <3>3. u \in Str /\ Len(u) = 3 /\ u[1] = c /\ u[2] = d /\ u[3] = z
      BY ONLY <3>2, Tuples, c \in Int, d \in Int, z \in Int
    <3>4. QED BY ONLY <3>1, <3>2, <3>3
  <2>6. PICK i \in Nat, z \in Int : i = 3 * m /\ z = NUL
    BY DEF NUL
  <2>7. PICK t : t = Append(str, z)
    OBVIOUS
  <2>8. t \in Str /\ Len(t) = n + 1 /\ (\A h \in 1..n : t[h] = str[h]) /\ t[n + 1] = z
    <3>1. /\ Append(str, z) \in Str /\ Len(Append(str, z)) = n + 1
          /\ \A i_1 \in 1..n : Append(str, z)[i_1] = str[i_1]
          /\ Append(str, z)[n + 1] = z
      BY <1>1, <1>3, OneMore, Zenon
    <3>2. QED BY ONLY <2>7, <3>1
  <2>9. Len(t) = i + Len(u) /\ \A h \in 1..Len(u) : t[i + h] = u[h]
    <3>1. n = i + 2 /\ n - 1 = i + 1 /\ n + 1 = i + 3 /\ n - 1 \in 1..n /\ n \in 1..n
      BY <1>1, <1>14, <2>6
    <3>2. \A h \in 1..3 : h = 1 \/ h = 2 \/ h = 3
      OBVIOUS
    <3>3. t[i + 1] = c /\ t[i + 2] = d /\ t[i + 3] = NUL
      BY ONLY <2>2, <2>6, <2>8, <3>1
    <3>4. Len(t) = i + 3
      BY ONLY <2>8, <3>1
    <3>5. QED BY ONLY <2>5, <3>2, <3>3, <3>4
  <2>10. SubSeq(t, 1, i) \o u = t
    BY <2>8, <2>9, Rejoin
  <2>11. SubSeq(t, 1, i) = SubSeq(str, 1, i)
    <3>1. i <= n /\ i <= n + 1 /\ \A h \in 1..i : h \in 1..n
      BY <1>1, <2>6
    <3>2. i <= Len(t) /\ i <= Len(str) /\ \A h \in 1..i : t[h] = str[h]
      BY <1>1, <2>8, <3>1
    <3>3. QED BY <1>3, <2>8, <3>2, SameStart
  <2>12. Len(str) % 3 = 2
    BY <1>1, <1>14
  <2>13. QED BY ONLY <1>2, <2>4, <2>5, <2>6, <2>7, <2>10, <2>11, <2>12
<1>15. QED BY <1>12, <1>13, <1>14

-----------------------------------------------------------------------------
(* Strings: what is in front of a character.                                 *)

Free(s, c) == \A i \in 1..Len(s) : s[i] # c

LEMMA StrchrAt ==
    ASSUME NEW s \in Str, NEW p \in Nat \ {0}, NEW c, NEW x, x \in p..Len(s), s[x] = c,
           \A i \in p..(x - 1) : s[i] # c
    PROVE  strchr(s, p, c) = x
<1>1. \/ strchr(s, p, c) = 0 /\ \A i \in p..Len(s) : s[i] # c
      \/ /\ strchr(s, p, c) \in p..Len(s) /\ s[strchr(s, p, c)] = c
         /\ \A i \in p..(strchr(s, p, c) - 1) : s[i] # c
  BY StrchrIs
<1>2. PICK y : y = strchr(s, p, c)
  OBVIOUS
<1>3. y \in p..Len(s) /\ s[y] = c /\ \A i \in p..(y - 1) : s[i] # c
  BY <1>1, <1>2
<1>4. PICK n \in Nat : n = Len(s)
  BY DEF Str
<1>5. y \in Int /\ x \in Int /\ ~(y < x) /\ ~(x < y)
  BY <1>3, <1>4
<1>6. QED BY <1>2, <1>5

LEMMA StrchrNot ==
    ASSUME NEW s \in Str, NEW p \in Nat \ {0}, NEW c, \A i \in p..Len(s) : s[i] # c
    PROVE  strchr(s, p, c) = 0
<1>1. \/ strchr(s, p, c) = 0 /\ \A i \in p..Len(s) : s[i] # c
      \/ /\ strchr(s, p, c) \in p..Len(s) /\ s[strchr(s, p, c)] = c
         /\ \A i \in p..(strchr(s, p, c) - 1) : s[i] # c
  BY StrchrIs
<1>2. QED BY <1>1

\* The parts of a string that was put together.
LEMMA PartsOf ==
    ASSUME NEW s \in Str, NEW t \in Str, NEW n \in Nat, n = Len(s), NEW l \in Nat, l = Len(t)
    PROVE  /\ SubSeq(s \o t, 1, n) = s
           /\ SubSeq(s \o t, n + 1, n + l) = t
<1>1. PICK u \in Str : u = s \o t
  BY ConcatAt
<1>2. Len(u) = n + l /\ (\A i \in 1..n : u[i] = s[i]) /\ \A i \in 1..l : u[n + i] = t[i]
  BY <1>1, ConcatAt
<1>3. SubSeq(u, 1, n) = s
  <2>1. PICK a \in Nat \ {0}, b \in Int : a = 1 /\ b = n /\ b <= Len(u)
    BY <1>2
  <2>2. PICK x : x = SubSeq(u, a, b)
    OBVIOUS
  <2>3. x \in Str /\ Len(x) = (IF a <= b THEN b - a + 1 ELSE 0) /\ \A i \in 1..(b - a + 1) : x[i] = u[a + i - 1]
    BY <2>1, <2>2, SubStr
  <2>4. (IF a <= b THEN b - a + 1 ELSE 0) = n /\ b - a + 1 = n /\ \A i \in 1..n : a + i - 1 = i
    BY <2>1
  <2>5. Len(x) = n /\ \A i \in 1..n : x[i] = s[i]
    BY <1>2, <2>3, <2>4
  <2>6. x = s
    BY <2>3, <2>5, StrEqual
  <2>7. QED BY <2>1, <2>2, <2>6
<1>4. SubSeq(u, n + 1, n + l) = t
  <2>1. PICK a \in Nat \ {0}, b \in Int : a = n + 1 /\ b = n + l /\ b <= Len(u)
    BY <1>2
  <2>2. PICK x : x = SubSeq(u, a, b)
    OBVIOUS
  <2>3. x \in Str /\ Len(x) = (IF a <= b THEN b - a + 1 ELSE 0) /\ \A i \in 1..(b - a + 1) : x[i] = u[a + i - 1]
    BY <2>1, <2>2, SubStr
  <2>4. (IF a <= b THEN b - a + 1 ELSE 0) = l /\ b - a + 1 = l /\ \A i \in 1..l : a + i - 1 = n + i
    BY <2>1
  <2>5. Len(x) = l /\ \A i \in 1..l : x[i] = t[i]
    BY <1>2, <2>3, <2>4, Zenon
  <2>6. x = t
    BY <2>3, <2>5, StrEqual
  <2>7. QED BY <2>1, <2>2, <2>6
<1>5. QED BY <1>1, <1>3, <1>4

\* What is before the first c.
LEMMA BeforeFirst ==
    ASSUME NEW s \in Str, NEW t \in Str, NEW c, Free(s, c), Len(t) > 0, t[1] = c
    PROVE  strchr(s \o t, 1, c) = Len(s) + 1 /\ SubSeq(s \o t, 1, Len(s)) = s
<1>1. PICK n \in Nat, l \in Nat : n = Len(s) /\ l = Len(t)
  BY DEF Str
<1>2. PICK u \in Str : u = s \o t
  BY ConcatAt
<1>3. Len(u) = n + l /\ (\A i \in 1..n : u[i] = s[i]) /\ \A i \in 1..l : u[n + i] = t[i]
  BY <1>1, <1>2, ConcatAt
<1>4. PICK p \in Nat \ {0}, x \in Nat : p = 1 /\ x = n + 1 /\ x \in p..Len(u)
  BY <1>1, <1>3
<1>5. u[x] = c
  BY <1>1, <1>3, <1>4
<1>6. \A i \in p..(x - 1) : u[i] # c
  BY <1>1, <1>3, <1>4 DEF Free
<1>7. strchr(u, p, c) = x
  BY <1>4, <1>5, <1>6, StrchrAt
<1>8. SubSeq(u, 1, n) = s
  BY <1>1, <1>2, PartsOf
<1>9. QED BY <1>1, <1>2, <1>4, <1>7, <1>8

LEMMA CopiedUpTo ==
    ASSUME NEW s \in Str, NEW t \in Str, NEW c, Free(s, c), Len(t) > 0, t[1] = c
    PROVE  strcpychr(s \o t, 1, c) = s
<1>1. PICK n \in Nat : n = Len(s)
  BY DEF Str
<1>2. strchr(s \o t, 1, c) = n + 1 /\ SubSeq(s \o t, 1, n) = s
  BY <1>1, BeforeFirst
<1>3. n + 1 - 1 = n
  OBVIOUS
<1>4. QED BY <1>2, <1>3 DEF strcpychr

\* A C string is what is before the first NUL.
LEMMA WholeString ==
    ASSUME NEW s \in Str, Free(s, NUL)
    PROVE  CString(s) = s
<1>1. PICK p \in Nat \ {0}, z \in Int : p = 1 /\ z = NUL
  BY DEF NUL
<1>2. \A i \in p..Len(s) : s[i] # z
  BY <1>1 DEF Free
<1>3. strchr(s, p, z) = 0
  BY <1>2, StrchrNot
<1>4. QED BY <1>1, <1>3 DEF CString

LEMMA TextFree ==
    ASSUME NEW s \in Seq(1..127)
    PROVE  s \in Str /\ Free(s, NUL) /\ \A i \in 1..Len(s) : s[i] \in 1..127
<1>1. \A i \in 1..Len(s) : s[i] \in 1..127
  BY ElementOfSeq
<1>2. \A i \in 1..Len(s) : s[i] # NUL
  <2> TAKE i \in 1..Len(s)
  <2>1. s[i] \in 1..127
    BY <1>1
  <2>2. \A x \in 1..127 : x # 0
    OBVIOUS
  <2>3. QED BY <2>1, <2>2 DEF NUL
<1>3. QED BY <1>1, <1>2, TextStr DEF Free

-----------------------------------------------------------------------------
(* Escapes, read back.                                                       *)

\* The two digits of a character give it back, in capital and in small letters.
LEMMA DigitIs ==
    ASSUME NEW n \in 0..15, NEW ten \in {65, 97}
    PROVE  Digit(n, ten) \in (48..57) \cup (65..70) \cup (97..102)
<1>1. CASE n < 10
  BY <1>1 DEF Digit
<1>2. CASE ~(n < 10)
  BY <1>2 DEF Digit
<1>3. QED BY <1>1, <1>2

LEMMA DigitBack ==
    ASSUME NEW n \in 0..15, NEW ten \in {65, 97}, NEW d, d = Digit(n, ten)
    PROVE  /\ Byte(Byte(IF d >= 65 THEN d - 55 ELSE d - 48) * 16) = 16 * n
           /\ Byte(IF d >= 65 THEN d - 55 ELSE d - 48) % 16 = n
<1>1. CASE n < 10
  <2>1. d = 48 + n
    BY <1>1 DEF Digit
  <2>2. (IF d >= 65 THEN d - 55 ELSE d - 48) = n
    BY <1>1, <2>1
  <2>3. n % 256 = n /\ (n * 16) % 256 = 16 * n /\ n % 16 = n
    BY <1>1, Z3
  <2>4. QED BY ONLY <2>2, <2>3 DEF Byte
<1>2. CASE ~(n < 10)
  <2>1. d = ten + n - 10
    BY <1>2 DEF Digit
  <2>2. (IF d >= 65 THEN d - 55 ELSE d - 48) = ten + n - 65
    BY <1>2, <2>1
  <2>3. CASE ten = 65
    <3>1. n % 256 = n /\ (n * 16) % 256 = 16 * n /\ n % 16 = n
      BY Z3
    <3>2. ten + n - 65 = n
      BY <2>3
    <3>3. QED BY ONLY <2>2, <3>1, <3>2 DEF Byte
  <2>4. CASE ten = 97
    <3>1. (n + 32) % 256 = n + 32 /\ ((n + 32) * 16) % 256 = 16 * n /\ (n + 32) % 16 = n
      BY Z3
    <3>2. ten + n - 65 = n + 32
      BY <2>4
    <3>3. QED BY ONLY <2>2, <3>1, <3>2 DEF Byte
  <2>5. QED BY <2>3, <2>4
<1>3. QED BY <1>1, <1>2

Written(s, p, c, ten) == At(s, p) = Digit(c \div 16, ten) /\ At(s, p + 1) = Digit(c % 16, ten)

LEMMA CharBack ==
    ASSUME NEW c \in 1..127, NEW ten \in {65, 97}, NEW s, NEW p, Written(s, p, c, ten)
    PROVE  url_decode_byte(s, p) = c
<1>1. PICK h \in 0..15, l \in 0..15 : h = c \div 16 /\ l = c % 16 /\ c = 16 * h + l
  <2>1. c \div 16 \in 0..15 /\ c % 16 \in 0..15 /\ c = 16 * (c \div 16) + (c % 16)
    BY Z3
  <2>2. QED BY <2>1
<1>2. PICK x, y : x = Digit(h, ten) /\ y = Digit(l, ten)
  OBVIOUS
<1>3. At(s, p) = x /\ At(s, p + 1) = y
  BY <1>1, <1>2 DEF Written
<1>4. Byte(Byte(IF x >= 65 THEN x - 55 ELSE x - 48) * 16) = 16 * h
  BY <1>2, DigitBack
<1>5. Byte(IF y >= 65 THEN y - 55 ELSE y - 48) % 16 = l
  BY <1>2, DigitBack
<1>6. url_decode_byte(s, p) =
        Byte(Byte(IF x >= 65 THEN x - 55 ELSE x - 48) * 16) + (Byte(IF y >= 65 THEN y - 55 ELSE y - 48) % 16)
  BY ONLY <1>3 DEF url_decode_byte
<1>7. QED BY <1>1, <1>4, <1>5, <1>6

\* The first character of what is left.
LEMMA FirstOff ==
    ASSUME NEW w \in Str, NEW n \in Nat, n = Len(w), NEW k \in 1..n
    PROVE  /\ SubSeq(w, k, n) = << w[k] >> \o SubSeq(w, k + 1, n)
           /\ w[k] \in Int /\ SubSeq(w, k + 1, n) \in Str
<1>0. k \in Int /\ 1 <= k /\ k <= n
  BY ONLY k \in 1..n, n \in Nat
<1>1. PICK a \in Nat \ {0}, b \in Nat \ {0}, m \in Int : a = k /\ b = k + 1 /\ m = n /\ m <= Len(w)
  <2>1. k \in Nat \ {0} /\ k + 1 \in Nat \ {0} /\ n \in Int /\ n <= n
    BY ONLY <1>0, n \in Nat
  <2>2. QED BY ONLY <2>1, n = Len(w)
<1>2. PICK x : x = SubSeq(w, a, m)
  OBVIOUS
<1>3. PICK y : y = SubSeq(w, b, m)
  OBVIOUS
<1>4. x \in Str /\ Len(x) = (IF a <= m THEN m - a + 1 ELSE 0) /\ \A i \in 1..(m - a + 1) : x[i] = w[a + i - 1]
  BY <1>1, <1>2, SubStr
<1>5. y \in Str /\ Len(y) = (IF b <= m THEN m - b + 1 ELSE 0) /\ \A i \in 1..(m - b + 1) : y[i] = w[b + i - 1]
  BY <1>1, <1>3, SubStr
<1>6. PICK l \in Nat : l = n - k
  <2>1. n - k \in Nat
    BY ONLY <1>0, n \in Nat
  <2>2. QED BY <2>1
<1>7. /\ (IF a <= m THEN m - a + 1 ELSE 0) = l + 1 /\ m - a + 1 = l + 1
      /\ (IF b <= m THEN m - b + 1 ELSE 0) = l /\ m - b + 1 = l
      /\ \A i \in 1..l : a + (i + 1) - 1 = b + i - 1 /\ i + 1 \in 1..(l + 1)
      /\ a + 1 - 1 = k /\ 1 \in 1..(l + 1)
  BY <1>1, <1>6
<1>8. Len(x) = l + 1 /\ Len(y) = l /\ x[1] = w[k] /\ \A i \in 1..l : x[i + 1] = y[i]
  BY <1>4, <1>5, <1>7
<1>9. w[k] \in Int
  BY ElementOfSeq DEF Str
<1>10. PICK c \in Int, u \in Str : c = w[k] /\ u = << c >> /\ Len(u) = 1 /\ u[1] = c
  <2>1. \A x_1 \in Int : << x_1 >> \in Str /\ Len(<< x_1 >>) = 1 /\ << x_1 >>[1] = x_1
    BY ONLY Tuples
  <2>2. QED BY ONLY <1>9, <2>1
<1>11. PICK v \in Str : v = u \o y
  BY <1>5, ConcatAt
<1>12. Len(v) = 1 + l /\ v[1] = c /\ \A i \in 1..l : v[1 + i] = y[i]
  <2>1. Len(v) = Len(u) + Len(y) /\ (\A i \in 1..Len(u) : v[i] = u[i]) /\ \A i \in 1..Len(y) : v[Len(u) + i] = y[i]
    <3>1. u \in Str /\ y \in Str
      BY <1>5, <1>10
    <3>2. /\ Len(u \o y) = Len(u) + Len(y)
          /\ \A i \in 1..Len(u) : (u \o y)[i] = u[i]
          /\ \A i \in 1..Len(y) : (u \o y)[Len(u) + i] = y[i]
      BY ONLY <3>1, ConcatAt
    <3>3. QED BY ONLY <1>11, <3>2
  <2>2. 1 \in 1..1
    OBVIOUS
  <2>3. QED BY ONLY <1>8, <1>10, <2>1, <2>2
<1>13. \A i \in 1..(l + 1) : x[i] = v[i]
  <2> TAKE i \in 1..(l + 1)
  <2>1. CASE i = 1
    BY <1>8, <1>10, <1>12, <2>1
  <2>2. CASE i # 1
    <3>1. PICK j \in 1..l : i = j + 1 /\ i = 1 + j
      <4>1. i - 1 \in 1..l /\ i = (i - 1) + 1 /\ i = 1 + (i - 1)
        BY <2>2
      <4>2. QED BY <4>1
    <3>2. QED BY <1>8, <1>12, <3>1
  <2>3. QED BY <2>1, <2>2
<1>14. x = v
  <2>1. Len(x) = Len(v) /\ \A i \in 1..Len(x) : x[i] = v[i]
    BY <1>8, <1>12, <1>13
  <2>2. QED BY <1>4, <1>11, <2>1, StrEqual
<1>15. QED BY <1>1, <1>2, <1>3, <1>5, <1>9, <1>10, <1>11, <1>14

LEMMA WholeSub ==
    ASSUME NEW w \in Str, NEW n \in Nat, n = Len(w)
    PROVE  SubSeq(w, 1, n) = w /\ SubSeq(w, n + 1, n) = << >>
<1>1. PICK a \in Nat \ {0}, b \in Nat \ {0}, m \in Int : a = 1 /\ b = n + 1 /\ m = n /\ m <= Len(w)
  <2>1. 1 \in Nat \ {0} /\ n + 1 \in Nat \ {0} /\ n \in Int /\ n <= n
    BY ONLY n \in Nat
  <2>2. QED BY ONLY <2>1, n = Len(w)
<1>2. PICK x : x = SubSeq(w, a, m)
  OBVIOUS
<1>3. PICK y : y = SubSeq(w, b, m)
  OBVIOUS
<1>4. x \in Str /\ Len(x) = (IF a <= m THEN m - a + 1 ELSE 0) /\ \A i \in 1..(m - a + 1) : x[i] = w[a + i - 1]
  BY <1>1, <1>2, SubStr
<1>5. y \in Str /\ Len(y) = (IF b <= m THEN m - b + 1 ELSE 0)
  BY <1>1, <1>3, SubStr
<1>6. /\ (IF a <= m THEN m - a + 1 ELSE 0) = n /\ m - a + 1 = n /\ \A i \in 1..n : a + i - 1 = i
      /\ (IF b <= m THEN m - b + 1 ELSE 0) = 0
  BY <1>1
<1>7. Len(x) = n /\ \A i \in 1..n : x[i] = w[i]
  BY <1>4, <1>6
<1>8. x = w
  BY <1>4, <1>7, StrEqual
<1>9. y = << >>
  BY <1>5, <1>6, NoStr
<1>10. QED BY <1>1, <1>2, <1>3, <1>8, <1>9

\* s holds the characters of w, from pos[k] on the k-th of them, escaped or as
\* it is.
CharAt(s, slen, escape, plus, w, pos, k) ==
    /\ pos[k] \in 1..slen
    /\ \/ /\ s[pos[k]] = escape /\ escape # NUL /\ ~(plus /\ escape = PLUS)
          /\ pos[k] + 2 <= slen /\ pos[k + 1] = pos[k] + 3
          /\ url_decode_byte(s, pos[k] + 1) = w[k]
       \/ /\ s[pos[k]] = w[k] /\ w[k] # escape /\ w[k] # NUL /\ ~(plus /\ w[k] = PLUS)
          /\ pos[k + 1] = pos[k] + 1
Reads(s, slen, escape, plus, w, pos, n) ==
    /\ s \in Str /\ slen \in 0..Len(s) /\ escape \in Int /\ plus \in BOOLEAN
    /\ w \in Str /\ n \in Nat /\ n = Len(w)
    /\ pos[1] = 1 /\ pos[n + 1] \in 1..(slen + 1)
    /\ \A k \in 1..n : CharAt(s, slen, escape, plus, w, pos, k)

LEMMA EscapeReads ==
    ASSUME NEW s, NEW slen, NEW escape, NEW plus, NEW w, NEW pos, NEW n, NEW short \in BOOLEAN, NEW R,
           Reads(s, slen, escape, plus, w, pos, n)
    PROVE  \A k \in 1..n :
             Escape(s, slen, escape, plus, short, pos[k], R) = << w[k] >> \o R[pos[k + 1]]
<1> TAKE k \in 1..n
<1>0. /\ s \in Str /\ slen \in 0..Len(s) /\ plus \in BOOLEAN
      /\ CharAt(s, slen, escape, plus, w, pos, k)
  BY DEF Reads
<1>1. PICK i, j : i \in 1..slen /\ i = pos[k] /\ j = pos[k + 1]
  BY <1>0 DEF CharAt
<1>2. slen \in Int /\ i \in Int /\ i <= slen /\ ~(i > slen)
  <2>1. PICK l \in Nat : l = Len(s)
    BY <1>0 DEF Str
  <2>2. QED BY <1>0, <1>1, <2>1
<1>3. CASE s[i] = escape /\ escape # NUL /\ ~(plus /\ escape = PLUS) /\ i + 2 <= slen /\ j = i + 3 /\ url_decode_byte(s, i + 1) = w[k]
  <2>1. s[i] # NUL /\ ~(short /\ i + 2 > slen) /\ ~(i <= slen /\ plus /\ s[i] = PLUS)
    BY <1>2, <1>3
  <2>2. Escape(s, slen, escape, plus, short, i, R) = << url_decode_byte(s, i + 1) >> \o R[i + 3]
    BY ONLY <1>2, <1>3, <2>1 DEF Escape
  <2>3. QED BY <1>1, <1>3, <2>2
<1>4. CASE s[i] = w[k] /\ w[k] # escape /\ w[k] # NUL /\ ~(plus /\ w[k] = PLUS) /\ j = i + 1
  <2>1. s[i] # escape /\ s[i] # NUL /\ ~(i <= slen /\ plus /\ s[i] = PLUS)
    BY <1>4
  <2>2. Escape(s, slen, escape, plus, short, i, R) = << s[i] >> \o R[i + 1]
    BY ONLY <1>2, <2>1 DEF Escape
  <2>3. QED BY <1>1, <1>4, <2>2
<1>5. QED BY <1>0, <1>1, <1>3, <1>4 DEF CharAt

\* u is w, and if end is not the last position, something more.
Begins(u, w, slen, end) == \E x \in Str : u = w \o x /\ (end = slen + 1 => x = << >>)

LEMMA UnescapeReads ==
    ASSUME NEW s, NEW slen, NEW escape, NEW plus, NEW w, NEW pos, NEW n,
           Reads(s, slen, escape, plus, w, pos, n), NEW short \in BOOLEAN
    PROVE  Begins(Unescape(s, slen, escape, plus, short), w, slen, pos[n + 1])
<1>0. /\ s \in Str /\ slen \in 0..Len(s) /\ escape \in Int /\ plus \in BOOLEAN
      /\ w \in Str /\ n \in Nat /\ n = Len(w)
      /\ pos[1] = 1 /\ pos[n + 1] \in 1..(slen + 1)
      /\ \A k \in 1..n : CharAt(s, slen, escape, plus, w, pos, k)
  BY DEF Reads
<1>1. PICK R : /\ R \in [1..(slen + 3) -> Str] /\ Unescapes(R, s, slen, escape, plus, short)
               /\ Unescape(s, slen, escape, plus, short) = R[1]
  BY <1>0, UnescapeIs
<1>2. PICK l \in Nat : l = slen
  <2>1. PICK m \in Nat : m = Len(s)
    BY <1>0 DEF Str
  <2>2. QED BY <1>0, <2>1
<1>3. \A i \in 1..(l + 3) : R[i] = Escape(s, slen, escape, plus, short, i, R)
  BY <1>1, <1>2 DEF Unescapes
<1>4. PICK x \in Str : x = R[pos[n + 1]]
  <2>1. pos[n + 1] \in 1..(slen + 3)
    BY <1>0, <1>2
  <2>2. QED BY <1>1, <2>1
<1>5. pos[n + 1] = slen + 1 => x = << >>
  <2> HAVE pos[n + 1] = slen + 1
  <2>1. l + 1 \in 1..(l + 3) /\ l + 1 > l
    BY <1>2
  <2>2. R[l + 1] = << >>
    <3>1. R[l + 1] = Escape(s, l, escape, plus, short, l + 1, R)
      BY <1>2, <1>3, <2>1
    <3>2. ~(l + 1 <= l)
      BY <1>2
    <3>3. QED BY ONLY <2>1, <3>1, <3>2 DEF Escape
  <2>3. QED BY <1>2, <1>4, <2>2
<1> DEFINE T == {m \in 0..n : R[pos[n + 1 - m]] = SubSeq(w, n + 1 - m, n) \o x}
<1>6. 0 \in T
  <2>1. SubSeq(w, n + 1, n) = << >>
    BY <1>0, WholeSub
  <2>2. << >> \o x = x
    BY <1>4, ConcatEmptySeq DEF Str
  <2>3. n + 1 - 0 = n + 1 /\ 0 \in 0..n
    BY <1>0
  <2>4. QED BY <1>4, <2>1, <2>2, <2>3
<1>7. ASSUME NEW m \in 0..(n - 1), m \in T PROVE m + 1 \in T
  <2>1. PICK k \in 1..n : k = n - m /\ n + 1 - (m + 1) = k /\ n + 1 - m = k + 1 /\ m + 1 \in 0..n
    <3>1. /\ n - m \in 1..n /\ n + 1 - (m + 1) = n - m /\ n + 1 - m = (n - m) + 1 /\ m + 1 \in 0..n
      BY <1>0
    <3>2. QED BY <3>1
  <2>2. R[pos[k + 1]] = SubSeq(w, k + 1, n) \o x
    BY <1>7, <2>1
  <2>3. CharAt(s, slen, escape, plus, w, pos, k)
    BY <1>0
  <2>4. PICK i : i = pos[k]
    OBVIOUS
  <2>5. i \in 1..(l + 3)
    BY <1>2, <2>3, <2>4 DEF CharAt
  <2>6. R[i] = << w[k] >> \o R[pos[k + 1]]
    <3>1. Escape(s, slen, escape, plus, short, pos[k], R) = << w[k] >> \o R[pos[k + 1]]
      <4>1. k \in 1..n
        BY ONLY <2>1
      <4>2. \A k_1 \in 1..n :
              Escape(s, slen, escape, plus, short, pos[k_1], R) = << w[k_1] >> \o R[pos[k_1 + 1]]
        BY EscapeReads
      <4>3. QED BY ONLY <4>1, <4>2
    <3>2. R[i] = Escape(s, slen, escape, plus, short, i, R)
      BY <1>3, <2>5
    <3>3. QED BY ONLY <2>4, <3>1, <3>2
  <2>7. SubSeq(w, k, n) = << w[k] >> \o SubSeq(w, k + 1, n)
    BY <1>0, FirstOff
  <2>8. R[pos[k]] = SubSeq(w, k, n) \o x
    <3>1. PICK one \in Str : one = << w[k] >>
      <4>1. PICK v \in Int : v = w[k]
        BY <1>0, ElementOfSeq DEF Str
      <4>2. << v >> \in Str
        BY Tuples
      <4>3. QED BY <4>1, <4>2
    <3>2. PICK more \in Str : more = SubSeq(w, k + 1, n)
      <4>1. PICK c \in Nat \ {0}, b \in Int : c = k + 1 /\ b = n /\ b <= Len(w)
        BY <1>0
      <4>2. SubSeq(w, c, b) \in Str
        BY <1>0, <4>1, SubStr
      <4>3. QED BY <4>1, <4>2
    <3>3. (one \o more) \o x = one \o (more \o x)
      BY ConcatAssociative DEF Str
    <3>4. QED BY ONLY <2>2, <2>4, <2>6, <2>7, <3>1, <3>2, <3>3
  <2>9. QED BY ONLY <2>1, <2>8
<1> HIDE DEF T
<1>8. \A m \in 0..n : m \in T
  BY <1>0, <1>6, <1>7, UpTo
<1>9. n \in T /\ n + 1 - n = 1
  BY <1>0, <1>8
<1>10. R[pos[1]] = SubSeq(w, 1, n) \o x
  BY ONLY <1>9 DEF T
<1>11. SubSeq(w, 1, n) = w
  BY <1>0, WholeSub
<1>12. R[1] = w \o x
  BY ONLY <1>0, <1>10, <1>11
<1>13. QED BY <1>1, <1>4, <1>5, <1>12 DEF Begins

\* e is the text name, escaped.
EscapedAs(e, name, escape, ten, n) ==
    /\ name \in Seq(1..127) /\ n \in Nat /\ n = Len(name) /\ escape \in Int /\ ten \in {65, 97}
    /\ e \in Str /\ Len(e) = 3 * n
    /\ \A i \in 1..n : /\ e[3 * (i - 1) + 1] = escape
                       /\ e[3 * (i - 1) + 2] = Digit(name[i] \div 16, ten)
                       /\ e[3 * (i - 1) + 3] = Digit(name[i] % 16, ten)

HasDigits(c, ten) ==
    /\ Digit(c \div 16, ten) \in (48..57) \cup (65..70) \cup (97..102)
    /\ Digit(c % 16, ten) \in (48..57) \cup (65..70) \cup (97..102)

LEMMA CharDigits ==
    ASSUME NEW c \in 1..127, NEW ten \in {65, 97}
    PROVE  HasDigits(c, ten)
<1>1. PICK h \in 0..15, l \in 0..15 : h = c \div 16 /\ l = c % 16
  <2>1. c \div 16 \in 0..15 /\ c % 16 \in 0..15
    BY Z3
  <2>2. QED BY <2>1
<1>2. /\ Digit(h, ten) \in (48..57) \cup (65..70) \cup (97..102)
      /\ Digit(l, ten) \in (48..57) \cup (65..70) \cup (97..102)
  BY DigitIs
<1>3. QED BY ONLY <1>1, <1>2 DEF HasDigits

LEMMA EscapedAt ==
    ASSUME NEW name \in Seq(1..127), NEW escape \in Int, NEW ten \in {65, 97}
    PROVE  EscapedAs(Escaped(name, escape, ten), name, escape, ten, Len(name))
<1>1. PICK n \in Nat : n = Len(name) /\ DOMAIN name = 1..n
  OBVIOUS
<1>2. \A i \in 1..n : name[i] \in 1..127
  BY <1>1, TextFree
<1>3. PICK s : s = [i \in 1..n |-> << escape, Digit(name[i] \div 16, ten), Digit(name[i] % 16, ten) >>]
  OBVIOUS
<1>4. ASSUME NEW i \in 1..n
      PROVE  /\ s[i] \in Str /\ Len(s[i]) = 3
             /\ s[i][1] = escape /\ s[i][2] = Digit(name[i] \div 16, ten) /\ s[i][3] = Digit(name[i] % 16, ten)
  <2>1. PICK c \in 1..127 : c = name[i]
    BY <1>2
  <2>2. PICK x \in Int, y \in Int : x = Digit(c \div 16, ten) /\ y = Digit(c % 16, ten)
    <3>1. \A d \in (48..57) \cup (65..70) \cup (97..102) : d \in Int
      OBVIOUS
    <3>2. /\ Digit(c \div 16, ten) \in (48..57) \cup (65..70) \cup (97..102)
          /\ Digit(c % 16, ten) \in (48..57) \cup (65..70) \cup (97..102)
      <4>1. HasDigits(c, ten)
        BY CharDigits
      <4>2. QED BY ONLY <4>1 DEF HasDigits
    <3>3. Digit(c \div 16, ten) \in Int /\ Digit(c % 16, ten) \in Int
      BY ONLY <3>1, <3>2
    <3>4. QED BY ONLY <3>3
  <2>3. PICK u : u = << escape, x, y >>
    OBVIOUS
  <2>4. u \in Str /\ Len(u) = 3 /\ u[1] = escape /\ u[2] = x /\ u[3] = y
    BY ONLY <2>3, Tuples, escape \in Int, x \in Int, y \in Int
  <2>5. s[i] = u
    BY <1>3, <2>1, <2>2, <2>3
  <2>6. QED BY ONLY <2>1, <2>2, <2>4, <2>5
<1>5. s \in [1..n -> Str]
  <2>1. s = [i \in 1..n |-> s[i]]
    BY <1>3
  <2>2. QED BY ONLY <1>4, <2>1
<1>6. InThree(s, n)
  BY <1>4, <1>5 DEF InThree
<1>7. PICK e : e = FlattenSeq(s)
  OBVIOUS
<1>8. e \in Str /\ Len(e) = 3 * n /\ \A i \in 1..n : \A k \in 1..3 : e[3 * (i - 1) + k] = s[i][k]
  BY <1>6, <1>7, FlattenThree
<1>9. \A i \in 1..n : /\ e[3 * (i - 1) + 1] = escape
                      /\ e[3 * (i - 1) + 2] = Digit(name[i] \div 16, ten)
                      /\ e[3 * (i - 1) + 3] = Digit(name[i] % 16, ten)
  <2> TAKE i \in 1..n
  <2>1. 1 \in 1..3 /\ 2 \in 1..3 /\ 3 \in 1..3
    OBVIOUS
  <2>2. e[3 * (i - 1) + 1] = s[i][1] /\ e[3 * (i - 1) + 2] = s[i][2] /\ e[3 * (i - 1) + 3] = s[i][3]
    BY <1>8, <2>1
  <2>3. QED BY <1>4, <2>2
<1>10. EscapedAs(e, name, escape, ten, n)
  BY <1>1, <1>8, <1>9 DEF EscapedAs
<1>11. Escaped(name, escape, ten) = e
  BY <1>1, <1>3, <1>7 DEF Escaped
<1>12. QED BY <1>1, <1>10, <1>11

LEMMA EscapedChars ==
    ASSUME NEW e, NEW name, NEW escape, NEW ten, NEW n, EscapedAs(e, name, escape, ten, n)
    PROVE  \A j \in 1..(3 * n) : e[j] = escape \/ e[j] \in (48..57) \cup (65..70) \cup (97..102)
<1>0. /\ name \in Seq(1..127) /\ n \in Nat /\ n = Len(name) /\ ten \in {65, 97}
      /\ \A i \in 1..n : /\ e[3 * (i - 1) + 1] = escape
                         /\ e[3 * (i - 1) + 2] = Digit(name[i] \div 16, ten)
                         /\ e[3 * (i - 1) + 3] = Digit(name[i] % 16, ten)
  BY DEF EscapedAs
<1> TAKE j \in 1..(3 * n)
<1>1. PICK i \in 1..n, k \in 1..3 : j = 3 * (i - 1) + k
  BY <1>0, ByThrees
<1>2. PICK c \in 1..127 : c = name[i]
  BY <1>0, TextFree
<1>3. /\ Digit(c \div 16, ten) \in (48..57) \cup (65..70) \cup (97..102)
      /\ Digit(c % 16, ten) \in (48..57) \cup (65..70) \cup (97..102)
  <2>1. ten \in {65, 97}
    BY <1>0
  <2>2. HasDigits(c, ten)
    BY <2>1, CharDigits
  <2>3. QED BY ONLY <2>2 DEF HasDigits
<1>4. k = 1 \/ k = 2 \/ k = 3
  OBVIOUS
<1>5. CASE k = 1
  <2>1. j = 3 * (i - 1) + 1
    BY <1>1, <1>5
  <2>2. QED BY <1>0, <2>1
<1>6. CASE k = 2
  <2>1. e[j] = Digit(c \div 16, ten)
    BY <1>0, <1>1, <1>2, <1>6
  <2>2. QED BY ONLY <1>3, <2>1
<1>7. CASE k = 3
  <2>1. e[j] = Digit(c % 16, ten)
    BY <1>0, <1>1, <1>2, <1>7
  <2>2. QED BY ONLY <1>3, <2>1
<1>8. QED BY <1>4, <1>5, <1>6, <1>7

\* An escaped character of the text.
LEMMA EscapeThere ==
    ASSUME NEW e, NEW name, NEW escape, NEW ten, NEW n, EscapedAs(e, name, escape, ten, n),
           NEW s \in Str, NEW slen \in 0..Len(s), 3 * n <= slen, \A i \in 1..(3 * n) : s[i] = e[i],
           NEW plus \in BOOLEAN, escape # NUL, ~(plus /\ escape = PLUS),
           NEW w, NEW pos, NEW k \in 1..n, w[k] = name[k],
           pos[k] = 3 * (k - 1) + 1, pos[k + 1] = 3 * (k - 1) + 4
    PROVE  CharAt(s, slen, escape, plus, w, pos, k)
<1>1. /\ name \in Seq(1..127) /\ n \in Nat /\ n = Len(name) /\ escape \in Int /\ ten \in {65, 97}
      /\ e[3 * (k - 1) + 1] = escape
      /\ e[3 * (k - 1) + 2] = Digit(name[k] \div 16, ten)
      /\ e[3 * (k - 1) + 3] = Digit(name[k] % 16, ten)
  BY DEF EscapedAs
<1>2. PICK z \in Nat : z = Len(s) /\ slen <= z /\ slen \in Nat
  BY DEF Str
<1>3. PICK p \in Nat : p = 3 * (k - 1) + 1 /\ pos[k] = p /\ pos[k + 1] = p + 3
  BY <1>1
<1>4. /\ p \in 1..(3 * n) /\ p + 1 \in 1..(3 * n) /\ p + 2 \in 1..(3 * n) /\ p + 2 <= slen /\ p \in 1..slen
      /\ p + 1 = 3 * (k - 1) + 2 /\ p + 2 = 3 * (k - 1) + 3 /\ p + 1 \in 1..z /\ p + 2 \in 1..z
  BY <1>1, <1>2, <1>3
<1>5. s[p] = escape /\ s[p + 1] = Digit(name[k] \div 16, ten) /\ s[p + 2] = Digit(name[k] % 16, ten)
  <2>1. s[p] = e[p] /\ s[p + 1] = e[p + 1] /\ s[p + 2] = e[p + 2]
    BY ONLY <1>4, \A i \in 1..(3 * n) : s[i] = e[i]
  <2>2. QED BY ONLY <1>1, <1>3, <1>4, <2>1
<1>6. PICK c \in 1..127 : c = name[k]
  BY <1>1, TextFree
<1>7. PICK q : q = p + 1 /\ q + 1 = p + 2
  OBVIOUS
<1>8. At(s, q) = Digit(c \div 16, ten) /\ At(s, q + 1) = Digit(c % 16, ten)
  <2>1. DOMAIN s = 1..z
    BY <1>2 DEF Str
  <2>2. q \in DOMAIN s /\ q + 1 \in DOMAIN s
    BY <1>4, <1>7, <2>1
  <2>3. s[q] = Digit(c \div 16, ten) /\ s[q + 1] = Digit(c % 16, ten)
    BY ONLY <1>5, <1>6, <1>7
  <2>4. QED BY ONLY <2>2, <2>3 DEF At
<1>9. url_decode_byte(s, q) = c
  <2>1. ten \in {65, 97}
    BY <1>1
  <2>2. Written(s, q, c, ten)
    BY ONLY <1>8 DEF Written
  <2>3. QED BY <2>1, <2>2, CharBack
<1>10. w[k] = c
  BY <1>6
<1>11. QED BY ONLY <1>3, <1>4, <1>5, <1>7, <1>9, <1>10, escape # NUL, ~(plus /\ escape = PLUS) DEF CharAt

\* The first m characters of s are those of e, the others up to slen those of t,
\* which the decoder leaves as they are.
Then(s, slen, m, e, t, escape, plus) ==
    /\ s \in Str /\ slen \in 0..Len(s) /\ plus \in BOOLEAN
    /\ escape # NUL /\ ~(plus /\ escape = PLUS)
    /\ slen = m + Len(t) /\ \A i \in 1..m : s[i] = e[i]
    /\ t \in Str /\ \A i \in 1..Len(t) : /\ s[m + i] = t[i]
                                         /\ t[i] # escape /\ t[i] # NUL /\ ~(plus /\ t[i] = PLUS)

LEMMA EscapesBack ==
    ASSUME NEW s, NEW slen, NEW name, NEW e, NEW t, NEW escape, NEW ten, NEW plus, NEW n,
           EscapedAs(e, name, escape, ten, n), Then(s, slen, 3 * n, e, t, escape, plus), NEW short \in BOOLEAN
    PROVE  Unescape(s, slen, escape, plus, short) = name \o t
<1>0. /\ name \in Seq(1..127) /\ n \in Nat /\ n = Len(name) /\ escape \in Int /\ ten \in {65, 97}
      /\ \A i \in 1..n : /\ e[3 * (i - 1) + 1] = escape
                         /\ e[3 * (i - 1) + 2] = Digit(name[i] \div 16, ten)
                         /\ e[3 * (i - 1) + 3] = Digit(name[i] % 16, ten)
  BY DEF EscapedAs
<1>1. /\ s \in Str /\ slen \in 0..Len(s) /\ plus \in BOOLEAN
      /\ escape # NUL /\ ~(plus /\ escape = PLUS)
      /\ slen = 3 * n + Len(t) /\ \A i \in 1..(3 * n) : s[i] = e[i]
      /\ t \in Str /\ \A i \in 1..Len(t) : /\ s[3 * n + i] = t[i]
                                           /\ t[i] # escape /\ t[i] # NUL /\ ~(plus /\ t[i] = PLUS)
  BY DEF Then
<1>2. PICK l \in Nat, z \in Nat : l = Len(t) /\ z = Len(s) /\ slen = 3 * n + l /\ slen <= z
  <2>1. PICK l \in Nat, z \in Nat : l = Len(t) /\ z = Len(s)
    BY <1>1 DEF Str
  <2>2. slen = 3 * n + Len(t) /\ slen \in 0..Len(s)
    BY ONLY <1>1
  <2>3. slen = 3 * n + l /\ slen \in 0..z
    BY ONLY <2>1, <2>2
  <2>4. slen <= z
    BY ONLY <2>1, <2>3
  <2>5. QED BY ONLY <2>1, <2>3, <2>4
<1>3. name \in Str
  BY <1>0, TextFree
<1>4. PICK w \in Str : w = name \o t
  BY <1>1, <1>3, ConcatAt
<1>5. Len(w) = n + l /\ (\A i \in 1..n : w[i] = name[i]) /\ \A i \in 1..l : w[n + i] = t[i]
  <2>1. Len(w) = Len(name) + Len(t) /\ (\A i \in 1..Len(name) : w[i] = name[i]) /\ \A i \in 1..Len(t) : w[Len(name) + i] = t[i]
    BY <1>1, <1>3, <1>4, ConcatAt
  <2>2. QED BY ONLY <1>0, <1>2, <2>1
<1>6. PICK N \in Nat : N = n + l
  BY <1>0
<1>7. PICK pos : pos = [k \in 1..(N + 1) |-> IF k <= n + 1 THEN 3 * (k - 1) + 1 ELSE 2 * n + k]
  OBVIOUS
<1>8. pos[1] = 1 /\ pos[N + 1] = slen + 1
  <2>1. 1 \in 1..(N + 1) /\ N + 1 \in 1..(N + 1) /\ 1 <= n + 1 /\ 3 * (1 - 1) + 1 = 1
    BY <1>0
  <2>2. (IF N + 1 <= n + 1 THEN 3 * (N + 1 - 1) + 1 ELSE 2 * n + (N + 1)) = slen + 1
    <3>1. n \in Nat /\ l \in Nat /\ N = n + l /\ slen = 3 * n + l
      BY ONLY <1>0, <1>2, <1>6
    <3>2. CASE N + 1 <= n + 1
      <4>1. l = 0 /\ 3 * (N + 1 - 1) + 1 = slen + 1
        BY ONLY <3>1, <3>2
      <4>2. QED BY <3>2, <4>1
    <3>3. CASE ~(N + 1 <= n + 1)
      <4>1. 2 * n + (N + 1) = slen + 1
        BY ONLY <3>1
      <4>2. QED BY <3>3, <4>1
    <3>4. QED BY <3>2, <3>3
  <2>3. QED BY ONLY <1>7, <2>1, <2>2
<1>9. ASSUME NEW k \in 1..N PROVE CharAt(s, slen, escape, plus, w, pos, k)
  <2>0. k \in 1..(N + 1) /\ k + 1 \in 1..(N + 1)
    OBVIOUS
  <2>1. CASE k <= n
    <3>1. k \in 1..n /\ w[k] = name[k]
      BY <1>0, <1>5, <2>1
    <3>2. pos[k] = 3 * (k - 1) + 1
      BY <1>0, <1>7, <2>0, <2>1
    <3>3. pos[k + 1] = 3 * (k - 1) + 4
      <4>1. k + 1 <= n + 1 /\ 3 * (k + 1 - 1) + 1 = 3 * (k - 1) + 4
        BY <1>0, <2>1
      <4>2. QED BY <1>7, <2>0, <4>1
    <3>4. 3 * n <= slen
      BY <1>0, <1>2
    <3>5. QED BY <1>1, <3>1, <3>2, <3>3, <3>4, EscapeThere
  <2>2. CASE ~(k <= n)
    <3>1. PICK i \in 1..l : k = n + i
      <4>1. k - n \in 1..l /\ k = n + (k - n)
        BY <1>0, <1>6, <2>2
      <4>2. QED BY <4>1
    <3>2. PICK p \in Nat : p = 3 * n + i
      BY <1>0
    <3>3. pos[k] = p
      <4>1. (IF k <= n + 1 THEN 3 * (k - 1) + 1 ELSE 2 * n + k) = p
        BY <1>0, <2>2, <3>1, <3>2
      <4>2. QED BY <1>7, <2>0, <4>1
    <3>4. pos[k + 1] = p + 1
      <4>1. (IF k + 1 <= n + 1 THEN 3 * (k + 1 - 1) + 1 ELSE 2 * n + (k + 1)) = p + 1
        BY <1>0, <2>2, <3>1, <3>2
      <4>2. QED BY <1>7, <2>0, <4>1
    <3>5. p \in 1..slen
      BY <1>0, <1>2, <3>2
    <3>6. s[p] = t[i] /\ t[i] # escape /\ t[i] # NUL /\ ~(plus /\ t[i] = PLUS)
      BY <1>1, <1>2, <3>2
    <3>7. w[k] = t[i]
      BY <1>5, <3>1
    <3>8. QED BY ONLY <3>3, <3>4, <3>5, <3>6, <3>7 DEF CharAt
  <2>3. QED BY <2>1, <2>2
<1>10. Reads(s, slen, escape, plus, w, pos, N)
  <2>1. pos[N + 1] \in 1..(slen + 1)
    <3>1. slen \in Nat
      BY <1>0, <1>2
    <3>2. QED BY <1>8, <3>1
  <2>2. QED BY <2>1, <1>0, <1>1, <1>4, <1>5, <1>6, <1>8, <1>9 DEF Reads
<1>11. Unescape(s, slen, escape, plus, short) = w
  <2>0. Begins(Unescape(s, slen, escape, plus, short), w, slen, pos[N + 1])
    BY <1>10, UnescapeReads
  <2>1. PICK x \in Str : Unescape(s, slen, escape, plus, short) = w \o x /\ (pos[N + 1] = slen + 1 => x = << >>)
    BY ONLY <2>0 DEF Begins
  <2>2. w \o << >> = w
    BY <1>4, ConcatEmptySeq DEF Str
  <2>3. QED BY <1>8, <2>1, <2>2
<1>12. QED BY <1>4, <1>11

\* Whatever follows it, an escaped text is the beginning of what is read.
Ahead(u, w) == \E x \in Str : u = w \o x

LEMMA EscapesBegin ==
    ASSUME NEW e, NEW name, NEW escape, NEW ten, NEW n, EscapedAs(e, name, escape, ten, n),
           NEW s \in Str, NEW slen \in 0..Len(s), 3 * n <= slen, \A i \in 1..(3 * n) : s[i] = e[i],
           NEW plus \in BOOLEAN, escape # NUL, ~(plus /\ escape = PLUS), NEW short \in BOOLEAN
    PROVE  Ahead(Unescape(s, slen, escape, plus, short), name)
<1>1. name \in Str /\ n \in Nat /\ n = Len(name) /\ escape \in Int
  BY TextFree DEF EscapedAs
<1>2. PICK pos : pos = [k \in 1..(n + 1) |-> 3 * (k - 1) + 1]
  OBVIOUS
<1>3. pos[1] = 1 /\ pos[n + 1] \in 1..(slen + 1)
  <2>1. 1 \in 1..(n + 1) /\ n + 1 \in 1..(n + 1) /\ 3 * (1 - 1) + 1 = 1 /\ 3 * (n + 1 - 1) + 1 = 3 * n + 1
    BY <1>1
  <2>2. pos[1] = 1 /\ pos[n + 1] = 3 * n + 1
    BY <1>1, <1>2, <2>1
  <2>3. slen \in Nat
    BY DEF Str
  <2>4. QED BY <1>1, <2>2, <2>3
<1>4. ASSUME NEW k \in 1..n PROVE CharAt(s, slen, escape, plus, name, pos, k)
  <2>1. k \in 1..(n + 1) /\ k + 1 \in 1..(n + 1) /\ 3 * (k + 1 - 1) + 1 = 3 * (k - 1) + 4
    BY <1>1
  <2>2. pos[k] = 3 * (k - 1) + 1 /\ pos[k + 1] = 3 * (k - 1) + 4
    BY <1>1, <1>2, <2>1
  <2>3. QED BY <2>2, EscapeThere
<1>5. Reads(s, slen, escape, plus, name, pos, n)
  BY <1>1, <1>3, <1>4 DEF Reads
<1>6. Begins(Unescape(s, slen, escape, plus, short), name, slen, pos[n + 1])
  BY <1>5, UnescapeReads
<1>7. QED BY ONLY <1>6 DEF Begins, Ahead

\* A text without escapes stays as it is.
LEMMA PlainBack ==
    ASSUME NEW t \in Str, NEW escape, NEW plus \in BOOLEAN, NEW short \in BOOLEAN, escape \in Int,
           escape # NUL, ~(plus /\ escape = PLUS),
           \A i \in 1..Len(t) : t[i] # escape /\ t[i] # NUL /\ ~(plus /\ t[i] = PLUS)
    PROVE  Unescape(t, Len(t), escape, plus, short) = t
<1>1. PICK name, e, n : name = << >> /\ e = << >> /\ n = 0
  OBVIOUS
<1>2. name \in Seq(1..127) /\ Len(name) = 0 /\ e \in Str /\ Len(e) = 0
  BY <1>1, SufEmpty DEF Str
<1>3. 1..n = {} /\ 3 * n = 0 /\ 1..(3 * n) = {} /\ n \in Nat
  BY <1>1
<1>4. EscapedAs(e, name, escape, 65, n)
  BY <1>1, <1>2, <1>3 DEF EscapedAs
<1>5. PICK l \in Nat : l = Len(t)
  BY DEF Str
<1>6. l \in 0..Len(t) /\ l = 3 * n + Len(t) /\ \A i \in 1..l : 3 * n + i = i
  BY <1>3, <1>5
<1>7. Then(t, l, 3 * n, e, t, escape, plus)
  BY <1>3, <1>5, <1>6 DEF Then
<1>8. Unescape(t, l, escape, plus, short) = name \o t
  BY <1>4, <1>7, EscapesBack
<1>9. name \o t = t
  BY <1>1, ConcatEmptySeq DEF Str
<1>10. QED BY <1>5, <1>8, <1>9

-----------------------------------------------------------------------------
(* Encoded words.                                                            *)

\* An encoded word, and what follows it, at their places.
WordIn(raw, letter, word, after, m) ==
    /\ raw \in Str /\ word \in Str /\ after \in Str /\ letter \in Int
    /\ m \in Nat /\ m = Len(word) /\ Len(raw) = m + 8 + Len(after)
    /\ raw[1] = EQUAL /\ raw[2] = QUESTION /\ raw[3] = 117 /\ raw[4] = QUESTION
    /\ raw[5] = letter /\ raw[6] = QUESTION
    /\ \A i \in 1..m : raw[6 + i] = word[i]
    /\ raw[m + 7] = QUESTION /\ raw[m + 8] = EQUAL
    /\ \A i \in 1..Len(after) : raw[m + 8 + i] = after[i]

LEMMA WordPlaces ==
    ASSUME NEW letter \in Int, NEW word \in Str, NEW after \in Str
    PROVE  WordIn(EncodedWord(letter, word) \o after, letter, word, after, Len(word))
<1>1. PICK m \in Nat, l \in Nat : m = Len(word) /\ l = Len(after)
  BY DEF Str
<1>2. PICK e \in Int, q \in Int : e = EQUAL /\ q = QUESTION
  BY DEF EQUAL, QUESTION
<1>3. PICK a : a = << e, q, 117, q, letter, q >>
  OBVIOUS
<1>4. a \in Str /\ Len(a) = 6 /\ a[1] = e /\ a[2] = q /\ a[3] = 117 /\ a[4] = q /\ a[5] = letter /\ a[6] = q
  <2>1. << e, q, 117, q, letter, q >> \in Seq(Int)
    OBVIOUS
  <2>2. QED BY <1>3, <2>1 DEF Str
<1>5. PICK b : b = << q, e >>
  OBVIOUS
<1>6. b \in Str /\ Len(b) = 2 /\ b[1] = q /\ b[2] = e
  BY ONLY <1>5, Tuples, q \in Int, e \in Int
<1>7. PICK c : c = a \o word
  OBVIOUS
<1>8. c \in Str /\ Len(c) = 6 + m /\ (\A i \in 1..6 : c[i] = a[i]) /\ \A i \in 1..m : c[6 + i] = word[i]
  <2>1. /\ a \o word \in Str /\ Len(a \o word) = Len(a) + Len(word)
        /\ (\A i \in 1..Len(a) : (a \o word)[i] = a[i])
        /\ \A i \in 1..Len(word) : (a \o word)[Len(a) + i] = word[i]
    <3>1. a \in Str /\ word \in Str
      BY <1>4
    <3>2. QED BY ONLY <3>1, ConcatAt
  <2>2. QED BY ONLY <1>1, <1>4, <1>7, <2>1
<1>9. PICK d : d = c \o b
  OBVIOUS
<1>10. d \in Str /\ Len(d) = m + 8 /\ (\A i \in 1..(6 + m) : d[i] = c[i]) /\ d[m + 7] = q /\ d[m + 8] = e
  <2>1. /\ c \o b \in Str /\ Len(c \o b) = Len(c) + Len(b)
        /\ (\A i \in 1..Len(c) : (c \o b)[i] = c[i])
        /\ \A i \in 1..Len(b) : (c \o b)[Len(c) + i] = b[i]
    BY <1>6, <1>8, ConcatAt
  <2>2. m + 7 = 6 + m + 1 /\ m + 8 = 6 + m + 2 /\ 1 \in 1..2 /\ 2 \in 1..2
    BY <1>1
  <2>3. QED BY ONLY <1>6, <1>8, <1>9, <2>1, <2>2
<1>11. PICK r : r = d \o after
  OBVIOUS
<1>12. /\ r \in Str /\ Len(r) = m + 8 + l /\ (\A i \in 1..(m + 8) : r[i] = d[i])
       /\ \A i \in 1..l : r[m + 8 + i] = after[i]
  <2>1. /\ d \o after \in Str /\ Len(d \o after) = Len(d) + Len(after)
        /\ (\A i \in 1..Len(d) : (d \o after)[i] = d[i])
        /\ \A i \in 1..Len(after) : (d \o after)[Len(d) + i] = after[i]
    BY <1>10, ConcatAt
  <2>2. QED BY ONLY <1>1, <1>10, <1>11, <2>1
<1>13. r[1] = e /\ r[2] = q /\ r[3] = 117 /\ r[4] = q /\ r[5] = letter /\ r[6] = q
  <2>1. \A i \in 1..6 : i \in 1..(6 + m) /\ i \in 1..(m + 8)
    BY <1>1
  <2>2. \A i \in 1..6 : r[i] = a[i]
    BY ONLY <1>8, <1>10, <1>12, <2>1
  <2>3. 1 \in 1..6 /\ 2 \in 1..6 /\ 3 \in 1..6 /\ 4 \in 1..6 /\ 5 \in 1..6 /\ 6 \in 1..6
    OBVIOUS
  <2>4. QED BY ONLY <1>4, <2>2, <2>3
<1>14. \A i \in 1..m : r[6 + i] = word[i]
  <2> TAKE i \in 1..m
  <2>1. PICK j : j = 6 + i /\ j \in 1..(6 + m) /\ j \in 1..(m + 8)
    BY <1>1
  <2>2. r[j] = c[j]
    BY ONLY <1>10, <1>12, <2>1
  <2>3. QED BY <1>8, <2>1, <2>2
<1>15. r[m + 7] = q /\ r[m + 8] = e
  <2>1. m + 7 \in 1..(m + 8) /\ m + 8 \in 1..(m + 8)
    BY <1>1
  <2>2. QED BY <1>10, <1>12, <2>1
<1>16. EncodedWord(letter, word) \o after = r
  BY <1>2, <1>3, <1>5, <1>7, <1>9, <1>11 DEF EncodedWord
<1>17. WordIn(r, letter, word, after, m)
  BY ONLY <1>1, <1>2, <1>12, <1>13, <1>14, <1>15, word \in Str, after \in Str, letter \in Int DEF WordIn
<1>18. QED BY <1>1, <1>16, <1>17

\* str_decode finds the word between the "?" and gives it to the decoder.
LEMMA StrDecodeWord ==
    ASSUME NEW raw, NEW letter, NEW word, NEW after, NEW m, WordIn(raw, letter, word, after, m),
           Free(word, QUESTION), letter \in {Letter_Q, Letter_B}
    PROVE  str_decode(raw) =
             IF letter = Letter_Q THEN quote_decode(SubSeq(raw, 7, Len(raw)), m) \o after
             ELSE base64_decode(raw, 7, m) \o after
<1>1. /\ raw \in Str /\ word \in Str /\ after \in Str
      /\ m \in Nat /\ m = Len(word) /\ Len(raw) = m + 8 + Len(after)
      /\ raw[1] = EQUAL /\ raw[3] = 117 /\ raw[4] = QUESTION /\ raw[5] = letter
      /\ \A i \in 1..m : raw[6 + i] = word[i]
      /\ raw[m + 7] = QUESTION /\ \A i \in 1..Len(after) : raw[m + 8 + i] = after[i]
  BY DEF WordIn
<1>2. PICK n \in Nat, l \in Nat : n = Len(raw) /\ l = Len(after) /\ n = m + 8 + l
  <2>1. PICK n \in Nat, l \in Nat : n = Len(raw) /\ l = Len(after)
    BY <1>1 DEF Str
  <2>2. QED BY ONLY <1>1, <2>1
<1>3. DOMAIN raw = 1..n /\ 1 \in 1..n /\ 4 \in 1..n /\ 5 \in 1..n
  <2>1. DOMAIN raw = 1..n
    BY <1>1, <1>2 DEF Str
  <2>2. QED BY <1>1, <1>2, <2>1
<1>4. At(raw, 1) = EQUAL /\ At(raw, 5) = letter
  BY <1>1, <1>3 DEF At
<1>5. strchr(raw, 3, QUESTION) = 4
  <2>1. PICK p, x : p \in Nat \ {0} /\ p = 3 /\ x = 4 /\ x \in p..Len(raw)
    <3>1. 4 \in 3..n
      BY <1>1, <1>2
    <3>2. QED BY <1>2, <3>1
  <2>2. \A i \in p..(x - 1) : raw[i] # QUESTION
    <3>1. \A i \in p..(x - 1) : i = 3
      BY <2>1
    <3>2. 117 # QUESTION
      BY DEF QUESTION
    <3>3. QED BY <1>1, <3>1, <3>2
  <2>3. raw[x] = QUESTION
    BY <1>1, <2>1
  <2>4. strchr(raw, p, QUESTION) = x
    BY <1>1, <2>1, <2>2, <2>3, StrchrAt
  <2>5. QED BY <2>1, <2>4
<1>6. strchr(raw, 7, QUESTION) = m + 7
  <2>1. PICK p, x : p \in Nat \ {0} /\ p = 7 /\ x = m + 7 /\ x \in p..Len(raw)
    <3>1. m + 7 \in 7..n
      BY <1>1, <1>2
    <3>2. QED BY <1>2, <3>1
  <2>2. \A i \in p..(x - 1) : raw[i] # QUESTION
    <3> TAKE i \in p..(x - 1)
    <3>1. PICK j \in 1..m : i = 6 + j
      <4>1. i - 6 \in 1..m /\ i = 6 + (i - 6)
        BY <1>1, <2>1
      <4>2. QED BY <4>1
    <3>2. word[j] # QUESTION
      BY <1>1 DEF Free
    <3>3. QED BY <1>1, <3>1, <3>2
  <2>3. raw[x] = QUESTION
    BY <1>1, <2>1
  <2>4. strchr(raw, p, QUESTION) = x
    BY <1>1, <2>1, <2>2, <2>3, StrchrAt
  <2>5. QED BY <2>1, <2>4
<1>7. SubSeq(raw, m + 9, n) = after
  <2>1. PICK a \in Nat \ {0}, b \in Int : a = m + 9 /\ b = n /\ b <= Len(raw)
    <3>1. m + 9 \in Nat \ {0} /\ n \in Int /\ n <= n
      BY <1>1
    <3>2. QED BY ONLY <1>2, <3>1
  <2>2. PICK x : x = SubSeq(raw, a, b)
    OBVIOUS
  <2>3. x \in Str /\ Len(x) = (IF a <= b THEN b - a + 1 ELSE 0) /\ \A i \in 1..(b - a + 1) : x[i] = raw[a + i - 1]
    BY <1>1, <2>1, <2>2, SubStr
  <2>4. (IF a <= b THEN b - a + 1 ELSE 0) = l /\ b - a + 1 = l /\ \A i \in 1..l : a + i - 1 = m + 8 + i
    BY <1>1, <1>2, <2>1
  <2>5. Len(x) = l /\ \A i \in 1..l : x[i] = after[i]
    <3>1. Len(x) = l /\ \A i \in 1..l : x[i] = raw[m + 8 + i]
      BY ONLY <2>3, <2>4
    <3>2. \A i \in 1..l : raw[m + 8 + i] = after[i]
      BY ONLY <1>1, <1>2
    <3>3. QED BY ONLY <3>1, <3>2
  <2>6. x = after
    BY <1>1, <1>2, <2>3, <2>5, StrEqual
  <2>7. QED BY <2>1, <2>2, <2>6
<1>8. /\ 4 + 1 = 5 /\ 4 + 3 = 7 /\ m + 7 + 2 = m + 9 /\ m + 7 - 4 - 3 = m /\ 4 # 0 /\ m + 7 # 0
  BY <1>1
<1> DEFINE start == IF At(raw, 1) = EQUAL THEN 3 ELSE 4
           p == strchr(raw, start, QUESTION)
           q == strchr(raw, p + 3, QUESTION)
<1>9. start = 3 /\ p = 4 /\ q = m + 7
  <2>1. start = 3
    BY <1>4
  <2>2. p = 4
    BY <1>5, <2>1
  <2>3. q = m + 7
    BY <1>6, <1>8, <2>2
  <2>4. QED BY <2>1, <2>2, <2>3
<1>10. str_decode(raw) =
         CASE ~(At(raw, 1) = EQUAL \/ At(raw, 2) = EQUAL) -> url_decode_replace(raw, Len(raw))
          [] (At(raw, 1) = EQUAL \/ At(raw, 2) = EQUAL) /\ p = 0 -> CRASH
          [] (At(raw, 1) = EQUAL \/ At(raw, 2) = EQUAL) /\ p # 0 /\ At(raw, p + 1) \notin {Letter_Q, Letter_B} -> raw
          [] (At(raw, 1) = EQUAL \/ At(raw, 2) = EQUAL) /\ p # 0 /\ At(raw, p + 1) = Letter_Q ->
               IF q = 0 THEN CRASH ELSE quote_decode(SubSeq(raw, p + 3, Len(raw)), q - p - 3) \o SubSeq(raw, q + 2, Len(raw))
          [] OTHER ->
               IF q = 0 THEN CRASH ELSE base64_decode(raw, p + 3, q - p - 3) \o SubSeq(raw, q + 2, Len(raw))
  BY DEF str_decode
<1> HIDE DEF p, q
<1>11. Letter_Q # Letter_B
  BY DEF Letter_Q, Letter_B
<1>12. CASE letter = Letter_Q
  <2>1. str_decode(raw) = IF q = 0 THEN CRASH ELSE quote_decode(SubSeq(raw, p + 3, Len(raw)), q - p - 3) \o SubSeq(raw, q + 2, Len(raw))
    BY <1>4, <1>8, <1>9, <1>10, <1>12
  <2>2. q - p - 3 = m /\ p + 3 = 7 /\ q + 2 = m + 9 /\ q # 0
    BY ONLY <1>1, <1>9
  <2>3. QED BY ONLY <1>2, <1>7, <1>12, <2>1, <2>2
<1>13. CASE letter = Letter_B
  <2>1. ~(letter = Letter_Q)
    BY <1>11, <1>13
  <2>2. str_decode(raw) = IF q = 0 THEN CRASH ELSE base64_decode(raw, p + 3, q - p - 3) \o SubSeq(raw, q + 2, Len(raw))
    BY <1>4, <1>8, <1>9, <1>10, <1>13, <2>1
  <2>3. q - p - 3 = m /\ p + 3 = 7 /\ q + 2 = m + 9 /\ q # 0
    BY ONLY <1>1, <1>9
  <2>4. QED BY ONLY <1>2, <1>7, <2>1, <2>2, <2>3
<1>14. QED BY <1>12, <1>13

-----------------------------------------------------------------------------
(* What a code does not hold.                                                *)

LEMMA AtFree ==
    ASSUME NEW s \in Str, NEW c, Free(s, c), c # NUL, NEW p
    PROVE  At(s, p) # c
<1>1. CASE p \in DOMAIN s
  <2>1. DOMAIN s = 1..Len(s)
    BY DEF Str
  <2>2. QED BY <1>1, <2>1 DEF At, Free
<1>2. CASE p \notin DOMAIN s
  BY <1>2 DEF At
<1>3. QED BY <1>1, <1>2

LEMMA ConcatFree ==
    ASSUME NEW s \in Str, NEW t \in Str, NEW c, Free(s, c), Free(t, c)
    PROVE  Free(s \o t, c)
<1>1. PICK n \in Nat, l \in Nat : n = Len(s) /\ l = Len(t)
  BY DEF Str
<1>2. PICK u : u = s \o t
  OBVIOUS
<1>3. Len(u) = n + l /\ (\A i \in 1..n : u[i] = s[i]) /\ \A i \in 1..l : u[n + i] = t[i]
  <2>1. /\ Len(s \o t) = Len(s) + Len(t)
        /\ \A i \in 1..Len(s) : (s \o t)[i] = s[i]
        /\ \A i \in 1..Len(t) : (s \o t)[Len(s) + i] = t[i]
    BY ConcatAt
  <2>2. QED BY ONLY <1>1, <1>2, <2>1
<1>4. ASSUME NEW i \in 1..(n + l) PROVE u[i] # c
  <2>1. CASE i \in 1..n
    BY <1>1, <1>3, <2>1 DEF Free
  <2>2. CASE i \notin 1..n
    <3>1. PICK j \in 1..l : i = n + j
      <4>1. i - n \in 1..l /\ i = n + (i - n)
        BY <2>2
      <4>2. QED BY <4>1
    <3>2. t[j] # c
      BY <1>1 DEF Free
    <3>3. QED BY <1>3, <3>1, <3>2
  <2>3. QED BY <2>1, <2>2
<1>5. QED BY <1>2, <1>3, <1>4 DEF Free

LEMMA WordFree ==
    ASSUME NEW raw, NEW letter, NEW word, NEW after, NEW m, WordIn(raw, letter, word, after, m),
           NEW c, c \notin {EQUAL, QUESTION, 117, letter}, Free(word, c), Free(after, c)
    PROVE  Free(raw, c)
<1>1. /\ m \in Nat /\ m = Len(word) /\ Len(raw) = m + 8 + Len(after) /\ after \in Str
      /\ raw[1] = EQUAL /\ raw[2] = QUESTION /\ raw[3] = 117 /\ raw[4] = QUESTION
      /\ raw[5] = letter /\ raw[6] = QUESTION
      /\ \A i \in 1..m : raw[6 + i] = word[i]
      /\ raw[m + 7] = QUESTION /\ raw[m + 8] = EQUAL
      /\ \A i \in 1..Len(after) : raw[m + 8 + i] = after[i]
  BY DEF WordIn
<1>2. PICK l \in Nat : l = Len(after)
  BY <1>1 DEF Str
<1>3. ASSUME NEW i \in 1..(m + 8 + l) PROVE raw[i] # c
  <2>1. CASE i \in 1..6
    <3>1. i = 1 \/ i = 2 \/ i = 3 \/ i = 4 \/ i = 5 \/ i = 6
      BY <2>1
    <3>2. QED BY <1>1, <3>1
  <2>2. CASE i \in 7..(m + 6)
    <3>1. PICK j \in 1..m : i = 6 + j
      <4>1. i - 6 \in 1..m /\ i = 6 + (i - 6)
        BY <1>1, <2>2
      <4>2. QED BY <4>1
    <3>2. word[j] # c
      BY <1>1 DEF Free
    <3>3. QED BY <1>1, <3>1, <3>2
  <2>3. CASE i = m + 7 \/ i = m + 8
    BY <1>1, <2>3
  <2>4. CASE i \in (m + 9)..(m + 8 + l)
    <3>1. PICK j \in 1..l : i = m + 8 + j
      <4>1. i - (m + 8) \in 1..l /\ i = m + 8 + (i - (m + 8))
        BY <1>1, <2>4
      <4>2. QED BY <4>1
    <3>2. after[j] # c
      BY <1>2 DEF Free
    <3>3. QED BY <1>1, <1>2, <3>1, <3>2
  <2>5. QED BY <1>1, <2>1, <2>2, <2>3, <2>4
<1>4. QED BY <1>1, <1>2, <1>3 DEF Free

\* The code of a text has neither "?" nor CR, an escaped text no "=" but its escapes.
LEMMA CodeFree ==
    ASSUME NEW str \in Seq(1..127), NEW e, Coded(e, str, 1)
    PROVE  Free(e, QUESTION) /\ Free(e, CR)
<1>1. PICK n \in Nat, l \in Nat : n = Len(str) /\ l = Len(e)
  BY DEF Coded, Str
<1>2. PICK m \in Nat, r \in 0..2 : n = 3 * m + r
  BY InThrees
<1>3. Len(str) = 3 * m + r
  BY <1>1, <1>2
<1>4. Len(e) = IF r = 0 THEN 4 * m ELSE 4 * m + 4
  BY <1>3, CodedLen
<1>5. ASSUME NEW i \in 1..l PROVE e[i] # QUESTION /\ e[i] # CR
  <2>1. PICK g \in Nat, k \in 0..3 : i = 4 * g + k + 1
    <3>1. (i - 1) \div 4 \in Nat /\ (i - 1) % 4 \in 0..3 /\ i = 4 * ((i - 1) \div 4) + ((i - 1) % 4) + 1
      BY Z3
    <3>2. QED BY <3>1
  <2>2. 4 * g < l
    BY <2>1
  <2>3. 1 + 3 * g <= n
    <3>1. CASE r = 0
      <4>1. g < m
        BY <1>1, <1>4, <2>2, <3>1
      <4>2. QED BY <1>2, <4>1
    <3>2. CASE r # 0
      <4>1. g <= m
        BY <1>1, <1>4, <2>2, <3>2
      <4>2. QED BY <1>2, <3>2, <4>1
    <3>3. QED BY <3>1, <3>2
  <2>4. e[4 * g + k + 1] = CodeChar(str, 1 + 3 * g, k)
    BY <1>1, <2>3 DEF Coded
  <2>5. PICK j : j = 1 + 3 * g
    OBVIOUS
  <2>6. CodeChar(str, j, k) \notin {QUESTION, CR}
    BY CodeCharIs
  <2>7. QED BY <2>1, <2>4, <2>5, <2>6
<1>6. QED BY <1>1, <1>5 DEF Free

LEMMA EscapedFree ==
    ASSUME NEW e, NEW name, NEW escape, NEW ten, NEW n, EscapedAs(e, name, escape, ten, n),
           NEW c, c # escape, c \notin (48..57) \cup (65..70) \cup (97..102)
    PROVE  Free(e, c)
<1>1. Len(e) = 3 * n
  BY DEF EscapedAs
<1>2. \A j \in 1..(3 * n) : e[j] = escape \/ e[j] \in (48..57) \cup (65..70) \cup (97..102)
  BY EscapedChars
<1>3. \A j \in 1..(3 * n) : e[j] # c
  BY ONLY <1>2, c # escape, c \notin (48..57) \cup (65..70) \cup (97..102)
<1>4. QED BY ONLY <1>1, <1>3 DEF Free

-----------------------------------------------------------------------------
(* Each way to write a field, read back.                                     *)

\* What is not written as it is: a sender that does not escape these characters
\* would not be understood.
PlainChars(t) == \A i \in 1..Len(t) : t[i] \notin {CR, PERCENT, PLUS, EQUAL}

LEMMA PlainFree ==
    ASSUME NEW t \in Seq(1..127), PlainChars(t)
    PROVE  /\ t \in Str /\ Free(t, NUL) /\ Free(t, CR) /\ Free(t, EQUAL)
           /\ \A i \in 1..Len(t) : t[i] # PERCENT /\ t[i] # NUL /\ t[i] # PLUS
<1>1. t \in Str /\ Free(t, NUL)
  BY TextFree
<1>2. QED BY <1>1 DEF PlainChars, Free

LEMMA Different ==
    /\ PERCENT \in Int /\ EQUAL \in Int /\ PERCENT # NUL /\ EQUAL # NUL /\ PERCENT # PLUS /\ EQUAL # PLUS
    /\ PERCENT # EQUAL /\ PERCENT # CR /\ EQUAL # CR /\ EQUAL # QUESTION /\ QUESTION # CR
    /\ Letter_Q \in Int /\ Letter_B \in Int /\ Letter_Q # Letter_B
    /\ CR \notin {EQUAL, QUESTION, 117, Letter_Q, Letter_B}
    /\ CR \notin (48..57) \cup (65..70) \cup (97..102)
    /\ EQUAL \notin (48..57) \cup (65..70) \cup (97..102)
    /\ QUESTION \notin (48..57) \cup (65..70) \cup (97..102)
BY DEF PERCENT, EQUAL, QUESTION, NUL, PLUS, CR, Letter_Q, Letter_B

\* A field without an encoded word is unescaped as a whole.
LEMMA StrDecodePlain ==
    ASSUME NEW raw \in Str, Free(raw, EQUAL)
    PROVE  str_decode(raw) = url_decode_replace(raw, Len(raw))
<1>1. At(raw, 1) # EQUAL /\ At(raw, 2) # EQUAL
  <2>1. EQUAL # NUL
    BY Different
  <2>2. QED BY <2>1, AtFree
<1>2. QED BY <1>1 DEF str_decode

LEMMA UrlBack ==
    ASSUME NEW name \in Seq(1..127), NEW after \in Seq(1..127), PlainChars(after),
           NEW u, u = Escaped(name, PERCENT, 65) \o after
    PROVE  /\ u \in Str /\ Free(u, CR)
           /\ url_decode(u, Len(u)) = name \o after
           /\ str_decode(u) = name \o after
<1>1. PICK e, n : e = Escaped(name, PERCENT, 65) /\ n = Len(name)
  OBVIOUS
<1>2. EscapedAs(e, name, PERCENT, 65, n)
  <2>1. PERCENT \in Int /\ 65 \in {65, 97}
    BY Different
  <2>2. QED BY <1>1, <2>1, EscapedAt
<1>3. e \in Str /\ Len(e) = 3 * n /\ n \in Nat
  BY <1>2 DEF EscapedAs
<1>4. /\ after \in Str /\ Free(after, CR) /\ Free(after, EQUAL)
      /\ \A i \in 1..Len(after) : after[i] # PERCENT /\ after[i] # NUL /\ after[i] # PLUS
  BY PlainFree
<1>5. Free(e, CR) /\ Free(e, EQUAL)
  <2>1. CR # PERCENT /\ EQUAL # PERCENT
    BY Different
  <2>2. CR \notin (48..57) \cup (65..70) \cup (97..102) /\ EQUAL \notin (48..57) \cup (65..70) \cup (97..102)
    BY Different
  <2>3. Free(e, CR)
    BY ONLY <1>2, <2>1, <2>2, EscapedFree
  <2>4. Free(e, EQUAL)
    BY ONLY <1>2, <2>1, <2>2, EscapedFree
  <2>5. QED BY <2>3, <2>4
<1>6. /\ u \in Str /\ Len(u) = 3 * n + Len(after) /\ (\A i \in 1..(3 * n) : u[i] = e[i])
      /\ \A i \in 1..Len(after) : u[3 * n + i] = after[i]
  <2>1. /\ e \o after \in Str /\ Len(e \o after) = Len(e) + Len(after)
        /\ \A i \in 1..Len(e) : (e \o after)[i] = e[i]
        /\ \A i \in 1..Len(after) : (e \o after)[Len(e) + i] = after[i]
    BY <1>3, <1>4, ConcatAt
  <2>2. QED BY ONLY <1>1, <1>3, <2>1, u = Escaped(name, PERCENT, 65) \o after
<1>7. Free(u, CR) /\ Free(u, EQUAL)
  <2>1. Free(e \o after, CR) /\ Free(e \o after, EQUAL)
    BY <1>3, <1>4, <1>5, ConcatFree
  <2>2. QED BY <1>1, <2>1
<1>8. PICK l \in Nat : l = Len(u)
  BY <1>6 DEF Str
<1>9. Then(u, l, 3 * n, e, after, PERCENT, TRUE)
  <2>1. l \in 0..Len(u)
    BY <1>8
  <2>2. PERCENT # NUL /\ PERCENT # PLUS
    BY Different
  <2>3. QED BY ONLY <1>4, <1>6, <1>8, <2>1, <2>2 DEF Then
<1>10. Unescape(u, l, PERCENT, TRUE, FALSE) = name \o after /\ Unescape(u, l, PERCENT, TRUE, TRUE) = name \o after
  <2>1. PICK yes \in BOOLEAN, no \in BOOLEAN : yes = TRUE /\ no = FALSE
    OBVIOUS
  <2>2. Then(u, l, 3 * n, e, after, PERCENT, yes)
    BY <1>9, <2>1
  <2>3. Unescape(u, l, PERCENT, yes, no) = name \o after
    BY <1>2, <2>2, EscapesBack
  <2>4. Unescape(u, l, PERCENT, yes, yes) = name \o after
    BY <1>2, <2>2, EscapesBack
  <2>5. QED BY ONLY <2>1, <2>3, <2>4
<1>11. url_decode(u, l) = name \o after /\ url_decode_replace(u, l) = name \o after
  BY <1>10 DEF url_decode, url_decode_replace
<1>12. str_decode(u) = url_decode_replace(u, l)
  BY <1>6, <1>7, <1>8, StrDecodePlain
<1>13. QED BY <1>6, <1>7, <1>8, <1>11, <1>12

LEMMA AsItIsBack ==
    ASSUME NEW name \in Seq(1..127), NEW after \in Seq(1..127), PlainChars(name), PlainChars(after),
           NEW u, u = name \o after
    PROVE  u \in Str /\ Free(u, CR) /\ str_decode(u) = name \o after
<1>1. /\ name \in Str /\ Free(name, NUL) /\ Free(name, CR) /\ Free(name, EQUAL)
      /\ \A i \in 1..Len(name) : name[i] # PERCENT /\ name[i] # NUL /\ name[i] # PLUS
  BY PlainFree
<1>2. /\ after \in Str /\ Free(after, NUL) /\ Free(after, CR) /\ Free(after, EQUAL)
      /\ \A i \in 1..Len(after) : after[i] # PERCENT /\ after[i] # NUL /\ after[i] # PLUS
  BY PlainFree
<1>3. Free(name, PERCENT) /\ Free(name, PLUS) /\ Free(after, PERCENT) /\ Free(after, PLUS)
  BY <1>1, <1>2 DEF Free
<1>4. u \in Str /\ Free(u, CR) /\ Free(u, EQUAL) /\ Free(u, NUL) /\ Free(u, PERCENT) /\ Free(u, PLUS)
  BY <1>1, <1>2, <1>3, ConcatFree, ConcatAt
<1>5. \A i \in 1..Len(u) : u[i] # PERCENT /\ u[i] # NUL /\ ~(TRUE /\ u[i] = PLUS)
  BY <1>4 DEF Free
<1>6. Unescape(u, Len(u), PERCENT, TRUE, TRUE) = u
  <2>1. PERCENT \in Int /\ PERCENT # NUL /\ ~(TRUE /\ PERCENT = PLUS)
    BY Different
  <2>2. QED BY <1>4, <1>5, <2>1, PlainBack
<1>7. str_decode(u) = url_decode_replace(u, Len(u))
  BY <1>4, StrDecodePlain
<1>8. QED BY <1>4, <1>6, <1>7 DEF url_decode_replace

LEMMA QuotedBack ==
    ASSUME NEW name \in Seq(1..127), NEW after \in Seq(1..127), PlainChars(after), NEW ten \in {65, 97},
           NEW u, u = EncodedWord(Letter_Q, Escaped(name, EQUAL, ten)) \o after
    PROVE  u \in Str /\ Free(u, CR) /\ str_decode(u) = name \o after
<1>1. PICK e, n, m : e = Escaped(name, EQUAL, ten) /\ n = Len(name) /\ m = Len(e)
  OBVIOUS
<1>2. EscapedAs(e, name, EQUAL, ten, n)
  <2>1. EQUAL \in Int
    BY Different
  <2>2. QED BY <1>1, <2>1, EscapedAt
<1>3. e \in Str /\ Len(e) = 3 * n /\ n \in Nat /\ m = 3 * n /\ m \in Nat
  BY <1>1, <1>2 DEF EscapedAs
<1>4. after \in Str /\ Free(after, CR)
  BY PlainFree
<1>5. Free(e, CR) /\ Free(e, QUESTION)
  <2>1. CR # EQUAL /\ QUESTION # EQUAL
    BY Different
  <2>2. CR \notin (48..57) \cup (65..70) \cup (97..102) /\ QUESTION \notin (48..57) \cup (65..70) \cup (97..102)
    BY Different
  <2>3. Free(e, CR)
    BY ONLY <1>2, <2>1, <2>2, EscapedFree
  <2>4. Free(e, QUESTION)
    BY ONLY <1>2, <2>1, <2>2, EscapedFree
  <2>5. QED BY <2>3, <2>4
<1>6. PICK letter \in Int : letter = Letter_Q
  BY Different
<1>7. u = EncodedWord(letter, e) \o after
  BY <1>1, <1>6
<1>8. WordIn(u, letter, e, after, m)
  BY <1>1, <1>3, <1>4, <1>7, WordPlaces
<1>9. Free(u, CR)
  <2>1. CR \notin {EQUAL, QUESTION, 117, letter}
    BY <1>6, Different
  <2>2. QED BY <1>4, <1>5, <1>8, <2>1, WordFree
<1>10. /\ u \in Str /\ Len(u) = m + 8 + Len(after)
       /\ \A i \in 1..m : u[6 + i] = e[i]
  BY <1>8 DEF WordIn
<1>11. str_decode(u) = quote_decode(SubSeq(u, 7, Len(u)), m) \o after
  <2>1. letter \in {Letter_Q, Letter_B}
    BY <1>6
  <2>2. str_decode(u) = IF letter = Letter_Q THEN quote_decode(SubSeq(u, 7, Len(u)), m) \o after
                        ELSE base64_decode(u, 7, m) \o after
    BY ONLY <1>5, <1>8, <2>1, StrDecodeWord
  <2>3. QED BY <1>6, <2>2
<1>12. PICK l \in Nat : l = Len(u) /\ m + 8 <= l
  <2>1. PICK l \in Nat, k \in Nat : l = Len(u) /\ k = Len(after)
    BY <1>4, <1>10 DEF Str
  <2>2. QED BY <1>3, <1>10, <2>1
<1>13. PICK s : s = SubSeq(u, 7, l)
  OBVIOUS
<1>14. s \in Str /\ Len(s) = l - 6 /\ \A i \in 1..m : s[i] = u[6 + i]
  <2>1. PICK a \in Nat \ {0}, b \in Int : a = 7 /\ b = l /\ b <= Len(u)
    <3>1. 7 \in Nat \ {0} /\ l \in Int /\ l <= l
      OBVIOUS
    <3>2. QED BY ONLY <1>12, <3>1, Zenon
  <2>2. /\ SubSeq(u, a, b) \in Str
        /\ Len(SubSeq(u, a, b)) = IF a <= b THEN b - a + 1 ELSE 0
        /\ \A i \in 1..(b - a + 1) : SubSeq(u, a, b)[i] = u[a + i - 1]
    BY ONLY <1>10, <2>1, SubStr
  <2>3. (IF a <= b THEN b - a + 1 ELSE 0) = l - 6 /\ \A i \in 1..m : i \in 1..(b - a + 1) /\ a + i - 1 = 6 + i
    BY <1>3, <1>12, <2>1
  <2>4. QED BY ONLY <1>13, <2>1, <2>2, <2>3
<1>15. PICK t : t = << >>
  OBVIOUS
<1>16. t \in Str /\ Len(t) = 0
  BY <1>15, SufEmpty DEF Str
<1>17. PICK no \in BOOLEAN : no = FALSE
  OBVIOUS
<1>18. Then(s, m, 3 * n, e, t, EQUAL, no)
  <2>1. m \in 0..Len(s) /\ m = 3 * n + Len(t) /\ 1..Len(t) = {}
    BY <1>3, <1>12, <1>14, <1>16
  <2>2. \A i \in 1..(3 * n) : s[i] = e[i]
    BY <1>3, <1>10, <1>14
  <2>3. EQUAL # NUL /\ ~(no /\ EQUAL = PLUS)
    BY <1>17, Different
  <2>4. QED BY <1>14, <1>16, <1>17, <2>1, <2>2, <2>3 DEF Then
<1>19. Unescape(s, m, EQUAL, no, no) = name \o t
  BY <1>2, <1>18, EscapesBack
<1>20. name \o t = name
  <2>1. name \in Str
    BY TextFree
  <2>2. QED BY <1>15, <2>1, ConcatEmptySeq DEF Str
<1>21. quote_decode(s, m) = name
  BY <1>17, <1>19, <1>20 DEF quote_decode
<1>22. QED BY <1>9, <1>10, <1>11, <1>12, <1>13, <1>21

\* Of a word with one "=" a zero ends the string.
LEMMA CodeBack ==
    ASSUME NEW name \in Seq(1..127), NEW after \in Seq(1..127), PlainChars(after),
           NEW u, u = EncodedWord(Letter_B, base64_encode(name)) \o after
    PROVE  /\ u \in Str /\ Free(u, CR)
           /\ str_decode(u) = (IF Len(name) % 3 = 2 THEN Append(name, NUL) ELSE name) \o after
<1>1. PICK e, m : e = base64_encode(name) /\ m = Len(e)
  OBVIOUS
<1>2. Coded(e, name, 1)
  BY <1>1, CodedIs
<1>3. e \in Str /\ m \in Nat
  BY <1>1, <1>2 DEF Coded, Str
<1>4. after \in Str /\ Free(after, CR) /\ Free(after, EQUAL)
  BY PlainFree
<1>5. Free(e, CR) /\ Free(e, QUESTION)
  BY <1>2, CodeFree
<1>6. PICK letter \in Int : letter = Letter_B
  BY Different
<1>7. u = EncodedWord(letter, e) \o after
  BY <1>1, <1>6
<1>8. WordIn(u, letter, e, after, m)
  BY <1>1, <1>3, <1>4, <1>7, WordPlaces
<1>9. Free(u, CR)
  <2>1. CR \notin {EQUAL, QUESTION, 117, letter}
    BY <1>6, Different
  <2>2. QED BY <1>4, <1>5, <1>8, <2>1, WordFree
<1>10. /\ u \in Str /\ Len(u) = m + 8 + Len(after)
       /\ \A i \in 1..m : u[6 + i] = e[i]
       /\ u[m + 7] = QUESTION /\ u[m + 8] = EQUAL
       /\ \A i \in 1..Len(after) : u[m + 8 + i] = after[i]
  BY <1>8 DEF WordIn
<1>11. str_decode(u) = base64_decode(u, 7, m) \o after
  <2>1. letter \in {Letter_Q, Letter_B} /\ letter # Letter_Q
    BY <1>6, Different
  <2>2. str_decode(u) = IF letter = Letter_Q THEN quote_decode(SubSeq(u, 7, Len(u)), m) \o after
                        ELSE base64_decode(u, 7, m) \o after
    BY <1>5, <1>8, <2>1, StrDecodeWord
  <2>3. QED BY <2>1, <2>2
<1>12. PICK l \in Nat, k \in Nat : l = Len(u) /\ k = Len(after) /\ l = m + 8 + k
  <2>1. PICK l \in Nat, k \in Nat : l = Len(u) /\ k = Len(after)
    BY <1>4, <1>10 DEF Str
  <2>2. QED BY <1>3, <1>10, <2>1
<1>13. DOMAIN u = 1..l
  BY <1>10, <1>12 DEF Str
<1>14. WordAt(u, 7, e)
  <2>1. \A i \in 1..m : At(u, 7 + i - 1) = e[i]
    <3> TAKE i \in 1..m
    <3>1. PICK j : j = 7 + i - 1 /\ j = 6 + i /\ j \in 1..l
      BY <1>3, <1>12
    <3>2. At(u, j) = e[i]
      BY <1>10, <1>13, <3>1 DEF At
    <3>3. QED BY <3>1, <3>2
  <2>2. At(u, 7 + m) = QUESTION /\ At(u, 7 + m + 1) = EQUAL
    <3>1. PICK a, b : a = m + 7 /\ b = m + 8 /\ a = 7 + m /\ b = 7 + m + 1 /\ a \in 1..l /\ b \in 1..l
      BY <1>3, <1>12
    <3>2. QED BY <1>10, <1>13, <3>1 DEF At
  <2>3. At(u, 7 + m + 2) # EQUAL
    <3>1. PICK j : j = 7 + m + 2
      OBVIOUS
    <3>2. CASE j \in 1..l
      <4>1. j = m + 8 + 1 /\ 1 \in 1..k
        BY <1>3, <1>12, <3>1, <3>2
      <4>2. u[j] = after[1] /\ after[1] # EQUAL
        BY <1>4, <1>10, <1>12, <4>1 DEF Free
      <4>3. QED BY <1>13, <3>1, <3>2, <4>2 DEF At
    <3>3. CASE j \notin 1..l
      <4>1. At(u, j) = NUL
        BY <1>13, <3>3 DEF At
      <4>2. QED BY <3>1, <4>1, Different
    <3>4. QED BY <3>2, <3>3
  <2>4. QED BY <1>1, <1>10, <2>1, <2>2, <2>3 DEF WordAt
<1>15. base64_decode(u, 7, m) = IF Len(name) % 3 = 2 THEN Append(name, NUL) ELSE name
  BY <1>1, <1>2, <1>14, Base64Back
<1>16. QED BY <1>9, <1>10, <1>11, <1>15

LEMMA CutAtZero ==
    ASSUME NEW s \in Str, NEW name \in Str, Free(name, NUL), NEW n \in Nat, n = Len(name),
           n + 1 <= Len(s), \A i \in 1..n : s[i] = name[i], s[n + 1] = NUL
    PROVE  CString(s) = name
<1>1. PICK p, x, z : p \in Nat \ {0} /\ p = 1 /\ x = n + 1 /\ z = NUL /\ x \in p..Len(s)
  <2>1. PICK l \in Nat : l = Len(s)
    BY DEF Str
  <2>2. 1 \in Nat \ {0} /\ n + 1 \in 1..l
    BY <2>1
  <2>3. QED BY ONLY <2>1, <2>2
<1>2. \A i \in p..(x - 1) : s[i] # z
  <2>1. \A i \in p..(x - 1) : i \in 1..n
    BY <1>1
  <2>2. \A i \in 1..n : s[i] # NUL
    BY DEF Free
  <2>3. QED BY <1>1, <2>1, <2>2
<1>3. strchr(s, p, z) = x
  BY <1>1, <1>2, StrchrAt
<1>4. SubSeq(s, 1, n) = name
  <2>1. n <= Len(s) /\ n <= Len(name)
    <3>1. PICK l \in Nat : l = Len(s) /\ n + 1 <= l
      BY DEF Str
    <3>2. n <= l /\ n <= n
      BY <3>1
    <3>3. QED BY ONLY <3>1, <3>2, n = Len(name)
  <2>2. SubSeq(s, 1, n) = SubSeq(name, 1, n)
    BY <2>1, SameStart
  <2>3. SubSeq(name, 1, n) = name
    BY WholeSub
  <2>4. QED BY <2>2, <2>3
<1>5. n + 1 - 1 = n /\ n + 1 # 0
  OBVIOUS
<1>6. strchr(s, 1, NUL) = n + 1
  BY ONLY <1>1, <1>3
<1>7. CString(s) = SubSeq(s, 1, n)
  BY ONLY <1>5, <1>6 DEF CString
<1>8. QED BY <1>4, <1>7

LEMMA TextsWhole ==
    ASSUME NEW name \in Seq(1..127), NEW after \in Seq(1..127)
    PROVE  /\ CString(name \o after) = name \o after
           /\ CString(Append(name, NUL) \o after) = name
<1>1. name \in Str /\ Free(name, NUL) /\ after \in Str /\ Free(after, NUL)
  BY TextFree
<1>2. CString(name \o after) = name \o after
  <2>1. name \o after \in Str /\ Free(name \o after, NUL)
    BY <1>1, ConcatAt, ConcatFree
  <2>2. QED BY <2>1, WholeString
<1>3. PICK n \in Nat, l \in Nat : n = Len(name) /\ l = Len(after)
  BY <1>1 DEF Str
<1>4. PICK a, z : a = Append(name, NUL) /\ z = NUL /\ z \in Int
  <2>1. NUL \in Int
    BY DEF NUL
  <2>2. QED BY <2>1
<1>5. a \in Str /\ Len(a) = n + 1 /\ (\A i \in 1..n : a[i] = name[i]) /\ a[n + 1] = z
  <2>1. /\ Append(name, z) \in Str /\ Len(Append(name, z)) = n + 1
        /\ \A i \in 1..n : Append(name, z)[i] = name[i]
        /\ Append(name, z)[n + 1] = z
    BY <1>1, <1>3, <1>4, OneMore
  <2>2. QED BY ONLY <1>4, <2>1
<1>6. PICK s : s = a \o after
  OBVIOUS
<1>7. s \in Str /\ Len(s) = n + 1 + l /\ \A i \in 1..(n + 1) : s[i] = a[i]
  <2>1. a \o after \in Str /\ Len(a \o after) = Len(a) + Len(after) /\ \A i \in 1..Len(a) : (a \o after)[i] = a[i]
    BY <1>1, <1>5, ConcatAt
  <2>2. QED BY ONLY <1>3, <1>5, <1>6, <2>1
<1>8. n + 1 <= Len(s) /\ (\A i \in 1..n : s[i] = name[i]) /\ s[n + 1] = NUL
  <2>1. n + 1 \in 1..(n + 1) /\ (\A i \in 1..n : i \in 1..(n + 1)) /\ n + 1 <= n + 1 + l
    OBVIOUS
  <2>2. QED BY ONLY <1>4, <1>5, <1>7, <2>1
<1>9. CString(s) = name
  BY <1>1, <1>3, <1>7, <1>8, CutAtZero
<1>10. QED BY <1>2, <1>4, <1>6, <1>9

\* A field reads as the sender wrote it, whatever the way.  What is written as it
\* is must not hold the characters that mean something else to the decoders.
Understood(way, name, after) ==
    PlainChars(after) /\ (way = "plain" => PlainChars(name))

Decodes(u, way, name, after) ==
    /\ u \in Str /\ Free(u, CR)
    /\ (IF way = "form" THEN url_decode(u, Len(u)) ELSE str_decode(u))
         = (IF way = "base64" /\ Len(name) % 3 = 2 THEN Append(name, NUL) ELSE name) \o after

LEMMA WayBack ==
    ASSUME NEW way \in Ways, NEW name \in Seq(1..127), NEW after \in Seq(1..127), Understood(way, name, after),
           NEW u, u = Raw(way, name) \o after
    PROVE  Decodes(u, way, name, after)
<1>0. PlainChars(after)
  BY DEF Understood
<1>1. CASE way = "plain"
  <2>1. Raw(way, name) = name /\ PlainChars(name)
    BY <1>1 DEF Raw, Understood
  <2>2. u \in Str /\ Free(u, CR) /\ str_decode(u) = name \o after
    BY <1>0, <2>1, AsItIsBack
  <2>3. QED BY <1>1, <2>2 DEF Decodes
<1>2. CASE way \in {"url", "form"}
  <2>1. Raw(way, name) = Escaped(name, PERCENT, 65)
    BY <1>2 DEF Raw
  <2>2. /\ u \in Str /\ Free(u, CR)
        /\ url_decode(u, Len(u)) = name \o after /\ str_decode(u) = name \o after
    BY <1>0, <2>1, UrlBack
  <2>3. QED BY <1>2, <2>2 DEF Decodes
<1>3. CASE way \in {"quoted", "QUOTED"}
  <2>1. PICK ten \in {65, 97} : Raw(way, name) = EncodedWord(Letter_Q, Escaped(name, EQUAL, ten))
    BY <1>3 DEF Raw
  <2>2. u \in Str /\ Free(u, CR) /\ str_decode(u) = name \o after
    <3>1. u = EncodedWord(Letter_Q, Escaped(name, EQUAL, ten)) \o after
      BY <2>1
    <3>2. QED BY <1>0, <3>1, QuotedBack
  <2>3. QED BY <1>3, <2>2 DEF Decodes
<1>4. CASE way = "base64"
  <2>1. Raw(way, name) = EncodedWord(Letter_B, base64_encode(name))
    BY <1>4 DEF Raw
  <2>2. /\ u \in Str /\ Free(u, CR)
        /\ str_decode(u) = (IF Len(name) % 3 = 2 THEN Append(name, NUL) ELSE name) \o after
    BY <1>0, <2>1, CodeBack
  <2>3. QED BY <1>4, <2>2 DEF Decodes
<1>5. QED BY <1>1, <1>2, <1>3, <1>4 DEF Ways

-----------------------------------------------------------------------------
(* The fields.                                                               *)

\* FieldWhole says it of one field.
FieldRight(way, name, after, str) ==
    str = IF way = "base64" /\ Len(name) % 3 = 2 THEN name ELSE name \o after

LEMMA FieldBack ==
    ASSUME NEW way \in Ways, NEW name \in Seq(1..127), NEW after \in Seq(1..127), Understood(way, name, after),
           NEW line, line = Raw(way, name) \o after \o <<CR, LF>>,
           NEW raw, raw = strcpychr(line, 1, CR),
           NEW str, str = IF way = "form" THEN url_decode(raw, Len(raw)) ELSE str_decode(raw)
    PROVE  FieldRight(way, name, after, CString(str))
<1>1. PICK u : u = Raw(way, name) \o after
  OBVIOUS
<1>2. /\ u \in Str /\ Free(u, CR)
      /\ (IF way = "form" THEN url_decode(u, Len(u)) ELSE str_decode(u))
           = (IF way = "base64" /\ Len(name) % 3 = 2 THEN Append(name, NUL) ELSE name) \o after
  <2>1. Decodes(u, way, name, after)
    BY <1>1, WayBack
  <2>2. QED BY <2>1 DEF Decodes
<1>3. PICK end : end = <<CR, LF>>
  OBVIOUS
<1>4. end \in Str /\ Len(end) > 0 /\ end[1] = CR
  <2>1. PICK x \in Int, y \in Int : x = CR /\ y = LF
    BY DEF CR, LF
  <2>2. << x, y >> \in Str /\ Len(<< x, y >>) = 2 /\ << x, y >>[1] = x
    BY Tuples
  <2>3. QED BY ONLY <1>3, <2>1, <2>2
<1>5. strcpychr(u \o end, 1, CR) = u
  BY <1>2, <1>4, CopiedUpTo
<1>6. raw = u
  BY <1>1, <1>3, <1>5
<1>7. str = (IF way = "base64" /\ Len(name) % 3 = 2 THEN Append(name, NUL) ELSE name) \o after
  BY <1>2, <1>6
<1>8. CString(name \o after) = name \o after /\ CString(Append(name, NUL) \o after) = name
  BY TextsWhole
<1>9. QED BY <1>7, <1>8 DEF FieldRight

FieldInv ==
    field # << >> /\ Understood(field.way, field.name, field.after)
      => FieldRight(field.way, field.name, field.after, field.str)

LEMMA FieldKept ==
    ASSUME FieldInv, [Next]_vars
    PROVE  FieldInv'
<1>1. CASE UNCHANGED field
  BY <1>1 DEF FieldInv
<1>2. ASSUME NEW way \in Ways, NEW name \in Names, NEW after \in Afters, Field(way, name, after)
      PROVE  FieldInv'
  <2>1. name \in Seq(1..127) /\ after \in Seq(1..127)
    BY TextsAssumption
  <2>2. PICK line : line = Raw(way, name) \o after \o <<CR, LF>>
    OBVIOUS
  <2>3. PICK raw : raw = strcpychr(line, 1, CR)
    OBVIOUS
  <2>4. PICK str : str = IF way = "form" THEN url_decode(raw, Len(raw)) ELSE str_decode(raw)
    OBVIOUS
  <2>5. field' = [way |-> way, name |-> name, after |-> after, str |-> CString(str)]
    BY <1>2, <2>2, <2>3, <2>4 DEF Field
  <2>6. field'.way = way /\ field'.name = name /\ field'.after = after /\ field'.str = CString(str)
    BY <2>5
  <2>7. Understood(way, name, after) => FieldRight(way, name, after, CString(str))
    BY <2>1, <2>2, <2>3, <2>4, FieldBack
  <2>8. QED BY <2>6, <2>7 DEF FieldInv
<1>3. CASE AutomatonNext /\ UNCHANGED <<pc, mailVars, seen>>
  BY <1>1, <1>3 DEF mailVars
<1>4. ASSUME NEW m \in Mails, StartContent(m) PROVE FieldInv'
  BY <1>1, <1>4 DEF StartContent
<1>5. ASSUME NEW n, Packet(n) PROVE FieldInv'
  BY <1>1, <1>5 DEF Packet
<1>6. CASE UNCHANGED vars
  BY <1>1, <1>6 DEF vars, mailVars
<1>7. QED BY <1>2, <1>3, <1>4, <1>5, <1>6 DEF Next

\* Every field that a sender can be understood with reads as it was written, in
\* whatever way and with whatever text (str_decode, url_decode, base64_decode).
THEOREM FieldsReadBack == Spec => []FieldInv
<1>1. Init => FieldInv
  BY DEF Init, FieldInv
<1>2. FieldInv /\ [Next]_vars => FieldInv'
  BY FieldKept
<1>3. QED BY <1>1, <1>2, PTL DEF Spec

FieldFrom == field # << >> => field.name \in Names /\ field.after \in Afters

LEMMA FieldComesFrom ==
    ASSUME FieldFrom, [Next]_vars
    PROVE  FieldFrom'
<1>1. CASE UNCHANGED field
  BY <1>1 DEF FieldFrom
<1>2. ASSUME NEW way \in Ways, NEW name \in Names, NEW after \in Afters, Field(way, name, after)
      PROVE  FieldFrom'
  <2>1. field'.name = name /\ field'.after = after
    BY <1>2 DEF Field
  <2>2. QED BY <2>1 DEF FieldFrom
<1>3. CASE AutomatonNext /\ UNCHANGED <<pc, mailVars, seen>>
  BY <1>1, <1>3 DEF mailVars
<1>4. ASSUME NEW m \in Mails, StartContent(m) PROVE FieldFrom'
  BY <1>1, <1>4 DEF StartContent
<1>5. ASSUME NEW n, Packet(n) PROVE FieldFrom'
  BY <1>1, <1>5 DEF Packet
<1>6. CASE UNCHANGED vars
  BY <1>1, <1>6 DEF vars, mailVars
<1>7. QED BY <1>2, <1>3, <1>4, <1>5, <1>6 DEF Next

\* If the names and what follows them hold nothing that has to be escaped, each
\* field reads as the sender wrote it (FieldWhole).
PlainFields == \A t \in Names \cup Afters : PlainChars(t)

THEOREM FieldsWhole == ASSUME PlainFields PROVE Spec => []FieldWhole
<1>1. Init => FieldInv /\ FieldFrom
  BY DEF Init, FieldInv, FieldFrom
<1>2. FieldInv /\ FieldFrom /\ [Next]_vars => FieldInv' /\ FieldFrom'
  BY FieldKept, FieldComesFrom
<1>3. FieldInv /\ FieldFrom => FieldWhole
  BY DEF FieldInv, FieldFrom, FieldWhole, FieldRight, Understood, PlainFields
<1>4. QED BY <1>1, <1>2, <1>3, PTL DEF Spec

-----------------------------------------------------------------------------
(* What is sent in base64, line by line.                                     *)

\* Where the pieces of a concatenation begin.
Places(s, n, start, S) ==
    /\ n \in Nat /\ s \in [1..n -> Str] /\ S \in Str
    /\ start \in [1..(n + 1) -> Nat] /\ start[1] = 0 /\ Len(S) = start[n + 1]
    /\ \A i \in 1..n : /\ start[i + 1] = start[i] + Len(s[i])
                       /\ \A k \in 1..Len(s[i]) : S[start[i] + k] = s[i][k]

LEMMA FlattenPlaces ==
    ASSUME NEW n \in Nat, NEW s, s \in [1..n -> Str]
    PROVE  \E start : Places(s, n, start, FlattenSeq(s))
<1>1. CASE n = 0
  <2>1. s \in Seq(Str) /\ DOMAIN s = 1..0
    <3>1. s \in [1..0 -> Str]
      BY <1>1
    <3>2. QED BY <3>1
  <2>2. Len(s) = 0 /\ s = << >>
    BY <2>1, LenProperties
  <2>3. FlattenSeq(s) = << >>
    BY <2>2 DEF FlattenSeq
  <2>4. << >> \in Str /\ Len(<< >>) = 0
    BY SufEmpty DEF Str
  <2>5. PICK start \in [1..1 -> Nat] : start[1] = 0
    <3>1. [i \in 1..1 |-> 0] \in [1..1 -> Nat] /\ [i \in 1..1 |-> 0][1] = 0
      OBVIOUS
    <3>2. QED BY <3>1
  <2>6. n + 1 = 1 /\ 1..n = {}
    BY <1>1
  <2>7. Places(s, n, start, FlattenSeq(s))
    BY <2>3, <2>4, <2>5, <2>6 DEF Places
  <2>8. QED BY <2>7
<1>2. CASE n # 0
  <2>1. PICK g : Flattens(g, s, n)
    BY <1>2, FlattenIs
  <2>2. /\ g \in [1..n -> Str] /\ g[1] = s[1] /\ FlattenSeq(s) = g[n]
        /\ \A i \in 2..n : g[i] = g[i - 1] \o s[i]
    BY <2>1 DEF Flattens
  <2>3. PICK start : start = [i \in 1..(n + 1) |-> IF i = 1 THEN 0 ELSE Len(g[i - 1])]
    OBVIOUS
  <2>4. \A i \in 1..n : start[i + 1] = Len(g[i]) /\ start[i + 1] \in Nat
    <3> TAKE i \in 1..n
    <3>1. i + 1 \in 1..(n + 1) /\ i + 1 # 1 /\ i + 1 - 1 = i
      OBVIOUS
    <3>2. Len(g[i]) \in Nat
      BY <2>2 DEF Str
    <3>3. QED BY <2>3, <3>1, <3>2
  <2>5. start[1] = 0 /\ start \in [1..(n + 1) -> Nat]
    <3>1. start[1] = 0
      BY <2>3
    <3>2. \A i \in 1..(n + 1) : start[i] \in Nat
      <4> TAKE i \in 1..(n + 1)
      <4>1. CASE i = 1
        BY <3>1, <4>1
      <4>2. CASE i # 1
        <5>1. PICK j \in 1..n : i = j + 1
          <6>1. i - 1 \in 1..n /\ i = (i - 1) + 1
            BY <4>2
          <6>2. QED BY <6>1
        <5>2. QED BY <2>4, <5>1
      <4>3. QED BY <4>1, <4>2
    <3>3. QED BY <2>3, <3>1, <3>2
  <2> DEFINE Holds(j) == \A i \in 1..j : /\ start[i + 1] = start[i] + Len(s[i])
                                         /\ start[i + 1] <= start[j + 1]
                                         /\ \A k \in 1..Len(s[i]) : g[j][start[i] + k] = s[i][k]
             T == {j \in 0..n : j = 0 \/ Holds(j)}
  <2>6. 0 \in T
    BY <1>2
  <2>7. ASSUME NEW m \in 0..(n - 1), m \in T PROVE m + 1 \in T
    <3>1. PICK j \in 1..n : j = m + 1
      OBVIOUS
    <3>2. CASE m = 0
      <4>1. j = 1 /\ 1..j = {1}
        BY <3>1, <3>2
      <4>2. start[2] = Len(s[1]) /\ start[1] = 0 /\ g[1] = s[1] /\ Len(s[1]) \in Nat
        <5>1. 1 \in 1..n /\ 1 + 1 = 2
          BY <3>1, <4>1
        <5>2. QED BY <2>2, <2>4, <2>5, <5>1 DEF Str
      <4>3. start[1 + 1] = start[1] + Len(s[1]) /\ start[1 + 1] <= start[1 + 1]
            /\ \A k \in 1..Len(s[1]) : g[1][start[1] + k] = s[1][k]
        <5>1. \A k \in 1..Len(s[1]) : start[1] + k = k
          BY <4>2
        <5>2. QED BY <4>2, <5>1
      <4>4. Holds(j)
        BY <4>1, <4>3
      <4> HIDE DEF Holds
      <4>5. QED BY <3>1, <4>4
    <3>3. CASE m # 0
      <4>1. Holds(m) /\ m \in 1..n
        <5>1. m \in 1..n
          BY <3>3
        <5>2. Holds(m)
          BY ONLY <2>7, <3>3
        <5>3. QED BY ONLY <5>1, <5>2
      <4>2. PICK u \in Str, v \in Str : u = g[m] /\ v = s[j]
        BY <2>2, <3>1, <4>1
      <4>3. g[j] = u \o v
        <5>1. j \in 2..n /\ j - 1 = m
          BY <3>1, <3>3
        <5>2. QED BY <2>2, <4>2, <5>1
      <4>4. PICK a \in Nat, b \in Nat : a = Len(u) /\ b = Len(v)
        BY DEF Str
      <4>5. /\ Len(u \o v) = a + b
            /\ \A i \in 1..a : (u \o v)[i] = u[i]
            /\ \A i \in 1..b : (u \o v)[a + i] = v[i]
        BY <4>4, ConcatAt
      <4>6. start[m + 1] = a /\ start[j + 1] = a + b /\ start[j] = a
        BY <2>4, <3>1, <4>1, <4>2, <4>3, <4>4, <4>5
      <4>7. ASSUME NEW i \in 1..j
            PROVE  /\ start[i + 1] = start[i] + Len(s[i])
                   /\ start[i + 1] <= start[j + 1]
                   /\ \A k \in 1..Len(s[i]) : g[j][start[i] + k] = s[i][k]
        <5>1. CASE i = j
          <6>1. start[j] \in Nat /\ start[j + 1] \in Nat /\ start[j + 1] = start[j] + Len(s[j])
                /\ start[j + 1] <= start[j + 1]
            BY <4>2, <4>4, <4>6
          <6>2. \A k \in 1..Len(s[j]) : g[j][start[j] + k] = s[j][k]
            BY ONLY <4>2, <4>3, <4>4, <4>5, <4>6
          <6>3. QED BY ONLY <5>1, <6>1, <6>2
        <5>2. CASE i # j
          <6>1. i \in 1..m /\ i \in 1..n /\ i \in 1..(n + 1)
            BY <3>1, <5>2
          <6>2. /\ start[i + 1] = start[i] + Len(s[i]) /\ start[i + 1] <= a
                /\ \A k \in 1..Len(s[i]) : u[start[i] + k] = s[i][k]
            BY <4>1, <4>2, <4>6, <6>1
          <6>3. PICK c \in Nat, d \in Nat : c = start[i] /\ d = Len(s[i])
            <7>1. start[i] \in Nat
              BY <2>5, <6>1
            <7>2. s[i] \in Str
              BY <6>1
            <7>3. Len(s[i]) \in Nat
              BY <7>2 DEF Str
            <7>4. QED BY ONLY <7>1, <7>3
          <6>4. c + d <= a /\ c + d <= a + b
            BY <6>2, <6>3
          <6>5. \A k \in 1..d : c + k \in 1..a
            BY <6>4
          <6>6. \A k \in 1..d : (u \o v)[c + k] = u[c + k]
            BY <4>5, <6>5
          <6>7. QED BY <4>3, <4>6, <6>2, <6>3, <6>4, <6>6
        <5>3. QED BY <5>1, <5>2
      <4>8. Holds(j)
        BY <4>7
      <4> HIDE DEF Holds
      <4>9. QED BY <3>1, <4>8
    <3>4. QED BY <3>2, <3>3
  <2> HIDE DEF T
  <2>8. n \in T
    <3>1. \A k \in 0..n : k \in T
      BY <2>6, <2>7, UpTo
    <3>2. QED BY <3>1
  <2>9. Holds(n)
    BY <1>2, <2>8 DEF T
  <2>10. \A i \in 1..n : /\ start[i + 1] = start[i] + Len(s[i])
                         /\ \A k \in 1..Len(s[i]) : FlattenSeq(s)[start[i] + k] = s[i][k]
    BY <2>2, <2>9
  <2>11. FlattenSeq(s) \in Str /\ Len(FlattenSeq(s)) = start[n + 1]
    <3>1. n \in 1..n
      BY <1>2
    <3>2. QED BY <2>2, <2>4, <3>1
  <2> HIDE DEF Holds
  <2>12. Places(s, n, start, FlattenSeq(s))
    BY <2>5, <2>10, <2>11 DEF Places
  <2>13. QED BY <2>12
<1>3. QED BY <1>1, <1>2

\* How a character of base64 is sent: with the end of the line behind it, if it is
\* the last of a line.
Piece(e, i) == IF i % LineLen = 0 /\ i < Len(e) THEN <<e[i], CR, LF>> ELSE <<e[i]>>

LEMMA PieceIs ==
    ASSUME NEW e \in Str, NEW i \in 1..Len(e), NEW x, x = Piece(e, i)
    PROVE  /\ x \in Str /\ x[1] = e[i]
           /\ \/ Len(x) = 1
              \/ Len(x) = 3 /\ x[2] = CR /\ x[3] = LF /\ i < Len(e) /\ i % LineLen = 0
<1>1. PICK c \in Int, d \in Int, f \in Int : c = e[i] /\ d = CR /\ f = LF
  <2>1. e[i] \in Int
    BY ElementOfSeq DEF Str
  <2>2. QED BY <2>1 DEF CR, LF
<1>2. /\ << c >> \in Str /\ Len(<< c >>) = 1 /\ << c >>[1] = c
      /\ << c, d, f >> \in Str /\ Len(<< c, d, f >>) = 3
      /\ << c, d, f >>[1] = c /\ << c, d, f >>[2] = d /\ << c, d, f >>[3] = f
  BY Tuples
<1>3. CASE i % LineLen = 0 /\ i < Len(e)
  <2>1. x = << c, d, f >>
    BY <1>1, <1>3 DEF Piece
  <2>2. QED BY ONLY <1>1, <1>2, <1>3, <2>1
<1>4. CASE ~(i % LineLen = 0 /\ i < Len(e))
  <2>1. x = << c >>
    BY <1>1, <1>4 DEF Piece
  <2>2. QED BY ONLY <1>1, <1>2, <2>1
<1>5. QED BY <1>3, <1>4

\* No line ends inside of a group.
LEMMA NoLineEnd ==
    ASSUME NEW h \in Nat, NEW k \in 1..3
    PROVE  (4 * h + k) % LineLen # 0
<1>1. PICK q \in Nat : LineLen = 4 * q /\ q > 0
  <2>1. LineLen \in Nat \ {0} /\ LineLen % 4 = 0
    BY LineAssumption
  <2>2. LineLen = 4 * (LineLen \div 4) /\ LineLen \div 4 \in Nat /\ LineLen \div 4 > 0
    BY <2>1, Z3
  <2>3. QED BY <2>2
<1>2. PICK n \in Nat : n = 4 * h + k
  OBVIOUS
<1>3. SUFFICES ASSUME n % (4 * q) = 0 PROVE FALSE
  BY <1>1, <1>2
<1>4. PICK l \in Nat : l = 4 * q /\ l > 0
  BY <1>1
<1>5. n = l * (n \div l) + (n % l) /\ n \div l \in Int
  BY <1>4, Z3
<1>6. PICK t \in Int : n = (4 * q) * t
  BY <1>3, <1>4, <1>5
<1>7. PICK w \in Int : w = q * t
  OBVIOUS
<1>8. n = 4 * w
  <2>1. (4 * q) * t = 4 * (q * t)
    BY Z3
  <2>2. QED BY <1>6, <1>7, <2>1
<1>9. QED BY <1>2, <1>8

\* Where the groups of a text begin in what is sent: each follows the one before,
\* or the end of a line behind it.
Follows(S, first, h, G) ==
    \/ first[h] = first[h - 1] + 4
    \/ /\ h < G /\ first[h] = first[h - 1] + 6
       /\ S[first[h - 1] + 4] = CR /\ S[first[h - 1] + 5] = LF
Lined(S, str, first, G) ==
    /\ S \in Str /\ str \in Seq(1..127) /\ G \in Nat
    /\ 3 * G - 3 < Len(str) /\ Len(str) <= 3 * G
    /\ first \in [0..G -> Nat] /\ first[0] = 1 /\ first[G] = Len(S) + 1
    /\ \A h \in 1..G : Follows(S, first, h, G)
    /\ \A h \in 0..(G - 1) : \A k \in 0..3 : S[first[h] + k] = CodeChar(str, 3 * h + 1, k)

\* The four pieces of a group.
FourAt(S, start, e, h, G) ==
    /\ \A k \in 0..3 : S[start[4 * h + 1] + 1 + k] = e[4 * h + k + 1]
    /\ \/ start[4 * h + 5] = start[4 * h + 1] + 4
       \/ /\ h + 1 < G /\ start[4 * h + 5] = start[4 * h + 1] + 6
          /\ S[start[4 * h + 1] + 5] = CR /\ S[start[4 * h + 1] + 6] = LF

LEMMA FourPieces ==
    ASSUME NEW e \in Str, NEW G \in Nat, Len(e) = 4 * G, NEW s, NEW start, NEW S, Places(s, 4 * G, start, S),
           \A i \in 1..(4 * G) : s[i] = Piece(e, i), NEW h \in 0..(G - 1)
    PROVE  FourAt(S, start, e, h, G)
<1>1. /\ start \in [1..(4 * G + 1) -> Nat]
      /\ \A i \in 1..(4 * G) : /\ start[i + 1] = start[i] + Len(s[i])
                               /\ \A k \in 1..Len(s[i]) : S[start[i] + k] = s[i][k]
  BY DEF Places
<1>2. PICK b \in Nat : b = 4 * h + 1 /\ b \in 1..(4 * G) /\ b + 1 \in 1..(4 * G) /\ b + 2 \in 1..(4 * G)
                       /\ b + 3 \in 1..(4 * G) /\ b \in 1..(4 * G + 1)
  <2>1. /\ 4 * h + 1 \in 1..(4 * G) /\ 4 * h + 1 + 1 \in 1..(4 * G) /\ 4 * h + 1 + 2 \in 1..(4 * G)
        /\ 4 * h + 1 + 3 \in 1..(4 * G) /\ 4 * h + 1 \in Nat /\ 4 * h + 1 \in 1..(4 * G + 1)
    OBVIOUS
  <2>2. QED BY <2>1
<1>3. PICK a \in Nat : a = start[b]
  BY <1>1, <1>2
<1>4. ASSUME NEW i \in 1..(4 * G)
      PROVE  /\ s[i][1] = e[i]
             /\ \/ Len(s[i]) = 1
                \/ Len(s[i]) = 3 /\ s[i][2] = CR /\ s[i][3] = LF /\ i < 4 * G /\ i % LineLen = 0
  <2>1. s[i] = Piece(e, i) /\ i \in 1..Len(e)
    OBVIOUS
  <2>2. QED BY <2>1, PieceIs
<1>5. Len(s[b]) = 1 /\ Len(s[b + 1]) = 1 /\ Len(s[b + 2]) = 1
  <2>1. b % LineLen # 0 /\ (b + 1) % LineLen # 0 /\ (b + 2) % LineLen # 0
    <3>1. (4 * h + 1) % LineLen # 0 /\ (4 * h + 2) % LineLen # 0 /\ (4 * h + 3) % LineLen # 0
      BY NoLineEnd
    <3>2. b = 4 * h + 1 /\ b + 1 = 4 * h + 2 /\ b + 2 = 4 * h + 3
      BY <1>2
    <3>3. QED BY <3>1, <3>2
  <2>2. QED BY <1>2, <1>4, <2>1
<1>6. start[b + 1] = a + 1 /\ start[b + 2] = a + 2 /\ start[b + 3] = a + 3
  <2>1. start[b + 1] = a + 1
    BY <1>1, <1>2, <1>3, <1>5
  <2>2. start[b + 2] = a + 2
    <3>1. b + 1 + 1 = b + 2
      BY <1>2
    <3>2. start[b + 1 + 1] = start[b + 1] + Len(s[b + 1])
      BY <1>1, <1>2
    <3>3. QED BY <1>5, <2>1, <3>1, <3>2
  <2>3. start[b + 3] = a + 3
    <3>1. b + 2 + 1 = b + 3
      BY <1>2
    <3>2. start[b + 2 + 1] = start[b + 2] + Len(s[b + 2])
      BY <1>1, <1>2
    <3>3. QED BY <1>5, <2>2, <3>1, <3>2
  <2>4. QED BY <2>1, <2>2, <2>3
<1>7. start[b + 4] = a + 3 + Len(s[b + 3])
  <2>1. b + 3 + 1 = b + 4
    BY <1>2
  <2>2. start[b + 3 + 1] = start[b + 3] + Len(s[b + 3])
    BY <1>1, <1>2
  <2>3. QED BY <1>6, <2>1, <2>2
<1>8. /\ S[a + 1] = e[b] /\ S[a + 2] = e[b + 1] /\ S[a + 3] = e[b + 2] /\ S[a + 4] = e[b + 3]
  <2>1. S[a + 1] = e[b]
    <3>1. S[start[b] + 1] = s[b][1] /\ s[b][1] = e[b]
      <4>1. 1 \in 1..Len(s[b])
        BY <1>5
      <4>2. QED BY ONLY <1>1, <1>2, <1>4, <4>1
    <3>2. QED BY <1>3, <3>1
  <2>2. S[a + 2] = e[b + 1]
    <3>1. S[start[b + 1] + 1] = s[b + 1][1] /\ s[b + 1][1] = e[b + 1]
      <4>1. 1 \in 1..Len(s[b + 1])
        BY <1>5
      <4>2. QED BY ONLY <1>1, <1>2, <1>4, <4>1
    <3>2. QED BY <1>6, <3>1
  <2>3. S[a + 3] = e[b + 2]
    <3>1. S[start[b + 2] + 1] = s[b + 2][1] /\ s[b + 2][1] = e[b + 2]
      <4>1. 1 \in 1..Len(s[b + 2])
        BY <1>5
      <4>2. QED BY ONLY <1>1, <1>2, <1>4, <4>1
    <3>2. QED BY <1>6, <3>1
  <2>4. S[a + 4] = e[b + 3]
    <3>1. S[start[b + 3] + 1] = s[b + 3][1] /\ s[b + 3][1] = e[b + 3]
      <4>1. 1 \in 1..Len(s[b + 3])
        BY <1>2, <1>4
      <4>2. QED BY <1>1, <1>2, <1>4, <4>1
    <3>2. QED BY <1>6, <3>1
  <2>5. QED BY <2>1, <2>2, <2>3, <2>4
<1>9. \/ start[b + 4] = a + 4
      \/ /\ h + 1 < G /\ start[b + 4] = a + 6 /\ S[a + 5] = CR /\ S[a + 6] = LF
  <2>1. CASE Len(s[b + 3]) = 1
    BY <1>7, <2>1
  <2>2. CASE Len(s[b + 3]) # 1
    <3>1. Len(s[b + 3]) = 3 /\ s[b + 3][2] = CR /\ s[b + 3][3] = LF /\ b + 3 < 4 * G
      BY <1>2, <1>4, <2>2
    <3>2. S[start[b + 3] + 2] = CR /\ S[start[b + 3] + 3] = LF
      <4>1. 2 \in 1..3 /\ 3 \in 1..3
        OBVIOUS
      <4>2. QED BY ONLY <1>1, <1>2, <3>1, <4>1
    <3>3. S[a + 5] = CR /\ S[a + 6] = LF
      BY <1>6, <3>2
    <3>4. h + 1 < G /\ start[b + 4] = a + 6
      BY <1>2, <1>7, <3>1
    <3>5. QED BY <3>3, <3>4
  <2>3. QED BY <2>1, <2>2
<1>10. \A k \in 0..3 : S[start[4 * h + 1] + 1 + k] = e[4 * h + k + 1]
  <2> TAKE k \in 0..3
  <2>1. k = 0 \/ k = 1 \/ k = 2 \/ k = 3
    OBVIOUS
  <2>2. a + 1 + 0 = a + 1 /\ a + 1 + 1 = a + 2 /\ a + 1 + 2 = a + 3 /\ a + 1 + 3 = a + 4
    OBVIOUS
  <2>3. 4 * h + 0 + 1 = b /\ 4 * h + 1 + 1 = b + 1 /\ 4 * h + 2 + 1 = b + 2 /\ 4 * h + 3 + 1 = b + 3
    BY <1>2
  <2>4. start[4 * h + 1] = a
    BY <1>2, <1>3
  <2>5. QED BY ONLY <1>8, <2>1, <2>2, <2>3, <2>4
<1>11. start[4 * h + 1] = a /\ 4 * h + 5 = b + 4
  BY <1>2, <1>3
<1>12. QED BY <1>9, <1>10, <1>11 DEF FourAt

\* What is sent of a text in base64.
LEMMA LinesAt ==
    ASSUME NEW str \in Seq(1..127), NEW S, S = Lines(base64_encode(str))
    PROVE  \E first, G : Lined(S, str, first, G)
<1>1. PICK e \in Str : e = base64_encode(str) /\ Coded(e, str, 1)
  BY CodedIs DEF Coded
<1>2. PICK n \in Nat : n = Len(str)
  OBVIOUS
<1>3. PICK m \in Nat, r \in 0..2 : n = 3 * m + r
  BY InThrees
<1>4. PICK G \in Nat : /\ G = IF r = 0 THEN m ELSE m + 1
                       /\ 3 * G - 3 < n /\ n <= 3 * G /\ \A h \in 0..(G - 1) : 1 + 3 * h <= n
  <2>1. CASE r = 0
    <3>1. 3 * m - 3 < n /\ n <= 3 * m /\ \A h \in 0..(m - 1) : 1 + 3 * h <= n
      BY <1>3, <2>1
    <3>2. QED BY <2>1, <3>1
  <2>2. CASE r # 0
    <3>1. 3 * (m + 1) - 3 < n /\ n <= 3 * (m + 1) /\ \A h \in 0..(m + 1 - 1) : 1 + 3 * h <= n
      BY <1>3, <2>2
    <3>2. QED BY <2>2, <3>1
  <2>3. QED BY <2>1, <2>2
<1>5. Len(e) = 4 * G
  <2>1. Len(e) = IF r = 0 THEN 4 * m ELSE 4 * m + 4
    BY <1>1, <1>2, <1>3, CodedLen
  <2>2. QED BY <1>4, <2>1
<1>6. PICK s : s = [i \in DOMAIN e |-> Piece(e, i)]
  OBVIOUS
<1>7. S = FlattenSeq(s)
  BY <1>1, <1>6 DEF Lines, Piece
<1>8. s \in [1..(4 * G) -> Str] /\ \A i \in 1..(4 * G) : s[i] = Piece(e, i)
  <2>1. DOMAIN e = 1..(4 * G)
    BY <1>5 DEF Str
  <2>2. \A i \in 1..(4 * G) : Piece(e, i) \in Str
    <3> TAKE i \in 1..(4 * G)
    <3>1. i \in 1..Len(e)
      BY <1>5
    <3>2. \A x : x = Piece(e, i) => x \in Str
      BY <3>1, PieceIs
    <3>3. QED BY <3>2
  <2>3. QED BY <1>6, <2>1, <2>2
<1>9. PICK start : Places(s, 4 * G, start, S)
  <2>1. 4 * G \in Nat
    OBVIOUS
  <2>2. \E start : Places(s, 4 * G, start, FlattenSeq(s))
    BY ONLY <1>8, <2>1, FlattenPlaces
  <2>3. QED BY <1>7, <2>2
<1>10. /\ S \in Str /\ start \in [1..(4 * G + 1) -> Nat] /\ start[1] = 0 /\ Len(S) = start[4 * G + 1]
  BY <1>9 DEF Places
<1>11. \A h \in 0..(G - 1) : FourAt(S, start, e, h, G)
  <2>1. \A i \in 1..(4 * G) : s[i] = Piece(e, i)
    BY ONLY <1>8
  <2> TAKE h \in 0..(G - 1)
  <2>2. e \in Str /\ G \in Nat
    OBVIOUS
  <2>3. QED BY <1>5, <1>9, <2>1, <2>2, FourPieces
<1>12. PICK first : first = [h \in 0..G |-> start[4 * h + 1] + 1]
  OBVIOUS
<1>13. \A h \in 0..G : first[h] = start[4 * h + 1] + 1 /\ start[4 * h + 1] \in Nat
  <2> TAKE h \in 0..G
  <2>1. 4 * h + 1 \in 1..(4 * G + 1)
    OBVIOUS
  <2>2. QED BY <1>10, <1>12, <2>1
<1>14. first \in [0..G -> Nat] /\ first[0] = 1 /\ first[G] = Len(S) + 1
  <2>1. 4 * 0 + 1 = 1 /\ 0 \in 0..G /\ G \in 0..G
    OBVIOUS
  <2>2. first[0] = 1 /\ first[G] = Len(S) + 1
    BY <1>10, <1>13, <2>1
  <2>3. \A h \in 0..G : first[h] \in Nat
    BY <1>13
  <2>4. QED BY <1>12, <2>2, <2>3
<1>15. ASSUME NEW h \in 1..G PROVE Follows(S, first, h, G)
  <2>1. PICK j \in 0..(G - 1) : j = h - 1 /\ h = j + 1
    <3>1. h - 1 \in 0..(G - 1) /\ h = (h - 1) + 1
      OBVIOUS
    <3>2. QED BY <3>1
  <2>2. 4 * h + 1 = 4 * j + 5 /\ j \in 0..G
    BY <2>1
  <2>3. PICK a \in Nat, b \in Nat : a = start[4 * j + 1] /\ b = start[4 * j + 5]
    <3>1. start[4 * j + 1] \in Nat /\ start[4 * h + 1] \in Nat
      <4>1. h \in 0..G
        OBVIOUS
      <4>2. QED BY ONLY <1>13, <2>2, <4>1
    <3>2. QED BY <2>2, <3>1
  <2>4. first[h] = b + 1 /\ first[j] = a + 1
    <3>1. h \in 0..G
      OBVIOUS
    <3>2. first[h] = start[4 * h + 1] + 1 /\ first[j] = start[4 * j + 1] + 1
      BY ONLY <1>13, <2>2, <3>1
    <3>3. QED BY ONLY <2>2, <2>3, <3>2
  <2>5. b = a + 4 \/ (h < G /\ b = a + 6 /\ S[a + 5] = CR /\ S[a + 6] = LF)
    BY <1>11, <2>1, <2>3 DEF FourAt
  <2>6. a + 1 + 4 = a + 5 /\ a + 1 + 5 = a + 6 /\ a + 4 + 1 = a + 1 + 4 /\ a + 6 + 1 = a + 1 + 6
    OBVIOUS
  <2>7. QED BY ONLY <2>1, <2>4, <2>5, <2>6 DEF Follows
<1>16. ASSUME NEW h \in 0..(G - 1), NEW k \in 0..3
       PROVE  S[first[h] + k] = CodeChar(str, 3 * h + 1, k)
  <2>1. S[start[4 * h + 1] + 1 + k] = e[4 * h + k + 1]
    BY <1>11 DEF FourAt
  <2>2. first[h] = start[4 * h + 1] + 1
    BY <1>13
  <2>3. 1 + 3 * h <= Len(str) /\ h \in Nat
    BY <1>2, <1>4
  <2>4. e[4 * h + k + 1] = CodeChar(str, 1 + 3 * h, k)
    BY <1>1, <2>3 DEF Coded
  <2>5. 1 + 3 * h = 3 * h + 1
    OBVIOUS
  <2>6. QED BY ONLY <2>1, <2>2, <2>4, <2>5
<1>17. Lined(S, str, first, G)
  BY <1>2, <1>4, <1>10, <1>14, <1>15, <1>16 DEF Lined
<1>18. QED BY <1>17

LEMMA LinedFacts ==
    ASSUME NEW S, NEW str, NEW first, NEW G, Lined(S, str, first, G)
    PROVE  /\ S \in Str /\ str \in Seq(1..127) /\ G \in Nat /\ Len(S) \in Nat /\ Len(str) \in Nat
           /\ first \in [0..G -> Nat]
BY DEF Lined, Str

\* Each group has its place in front of the end.
LEMMA FirstGrows ==
    ASSUME NEW S, NEW str, NEW first, NEW G, Lined(S, str, first, G)
    PROVE  /\ \A h \in 0..G : first[h] >= 4 * h + 1
           /\ \A h \in 0..G : first[h] <= Len(S) + 1
           /\ \A h \in 0..(G - 1) : first[h] + 4 <= Len(S) + 1
           /\ G > 0 => first[G - 1] + 4 = Len(S) + 1
<1> G \in Nat
  BY LinedFacts
<1>1. /\ first \in [0..G -> Nat] /\ first[0] = 1 /\ first[G] = Len(S) + 1
      /\ \A h \in 1..G : first[h] = first[h - 1] + 4 \/ (h < G /\ first[h] = first[h - 1] + 6)
  BY DEF Lined, Follows
<1>2. \A h \in 0..G : first[h] >= 4 * h + 1
  <2> DEFINE T == {h \in 0..G : first[h] >= 4 * h + 1}
  <2>1. 0 \in T
    BY <1>1
  <2>2. ASSUME NEW h \in 0..(G - 1), h \in T PROVE h + 1 \in T
    <3>1. h + 1 \in 1..G /\ h + 1 - 1 = h
      OBVIOUS
    <3>2. first[h + 1] >= first[h] + 4 /\ first[h] \in Nat /\ first[h] >= 4 * h + 1 /\ first[h + 1] \in Nat
      BY <1>1, <2>2, <3>1
    <3>3. QED BY <3>1, <3>2
  <2> HIDE DEF T
  <2>3. \A h \in 0..G : h \in T
    BY <2>1, <2>2, UpTo
  <2>4. QED BY <2>3 DEF T
<1>3. \A h \in 0..G : first[G - h] <= first[G]
  <2> DEFINE T == {h \in 0..G : first[G - h] <= first[G]}
  <2>1. 0 \in T
    <3>1. G - 0 = G /\ first[G] \in Nat
      BY <1>1
    <3>2. QED BY <3>1
  <2>2. ASSUME NEW h \in 0..(G - 1), h \in T PROVE h + 1 \in T
    <3>1. PICK j \in 1..G : j = G - h /\ j - 1 = G - (h + 1) /\ j - 1 \in 0..G
      <4>1. G - h \in 1..G /\ G - h - 1 = G - (h + 1) /\ G - h - 1 \in 0..G
        OBVIOUS
      <4>2. QED BY <4>1
    <3>2. first[j] >= first[j - 1] + 4 /\ first[j - 1] \in Nat /\ first[j] \in Nat /\ first[G] \in Nat
      <4>1. first[j - 1] \in Nat /\ first[j] \in Nat /\ first[G] \in Nat
        <5>1. j \in 0..G /\ G \in 0..G
          BY <3>1
        <5>2. QED BY ONLY <1>1, <3>1, <5>1
      <4>2. first[j] = first[j - 1] + 4 \/ first[j] = first[j - 1] + 6
        BY <1>1, <3>1
      <4>3. QED BY <4>1, <4>2
    <3>3. first[j] <= first[G]
      BY <2>2, <3>1
    <3>4. first[j - 1] <= first[G]
      BY <3>2, <3>3
    <3>5. QED BY <3>1, <3>4
  <2> HIDE DEF T
  <2>3. \A h \in 0..G : h \in T
    BY <2>1, <2>2, UpTo
  <2>4. QED BY <2>3 DEF T
<1>4. \A h \in 0..G : first[h] <= Len(S) + 1
  <2> TAKE h \in 0..G
  <2>1. PICK j \in 0..G : G - j = h
    <3>1. G - h \in 0..G /\ G - (G - h) = h
      OBVIOUS
    <3>2. QED BY <3>1
  <2>2. QED BY <1>1, <1>3, <2>1
<1>5. \A h \in 0..(G - 1) : first[h] + 4 <= Len(S) + 1
  <2> TAKE h \in 0..(G - 1)
  <2>1. h + 1 \in 1..G /\ h + 1 \in 0..G /\ h + 1 - 1 = h
    OBVIOUS
  <2>2. first[h + 1] >= first[h] + 4 /\ first[h] \in Nat /\ first[h + 1] \in Nat
    <3>1. first[h] \in Nat /\ first[h + 1] \in Nat
      <4>1. h \in 0..G
        OBVIOUS
      <4>2. QED BY ONLY <1>1, <2>1, <4>1
    <3>2. first[h + 1] = first[h] + 4 \/ first[h + 1] = first[h] + 6
      BY ONLY <1>1, <2>1
    <3>3. QED BY <3>1, <3>2
  <2>3. first[h + 1] <= Len(S) + 1
    BY <1>4, <2>1
  <2>4. Len(S) \in Nat
    BY LinedFacts
  <2>5. QED BY <2>2, <2>3, <2>4
<1>6. G > 0 => first[G - 1] + 4 = Len(S) + 1
  <2> HAVE G > 0
  <2>1. G \in 1..G /\ ~(G < G)
    OBVIOUS
  <2>2. first[G] = first[G - 1] + 4
    BY <1>1, <2>1
  <2>3. QED BY <1>1, <2>2
<1>7. QED BY <1>2, <1>4, <1>5, <1>6

\* The only "=" of a text that leaves two bytes is the last character.
LEMMA OneEqual ==
    ASSUME NEW S, NEW str, NEW first, NEW G, Lined(S, str, first, G), Len(str) % 3 = 2
    PROVE  \A j \in 1..Len(S) : S[j] = EQUAL => j = Len(S)
<1> G \in Nat
  BY LinedFacts
<1>1. /\ first \in [0..G -> Nat] /\ first[0] = 1
      /\ \A h \in 1..G : Follows(S, first, h, G)
      /\ \A h \in 0..(G - 1) : \A k \in 0..3 : S[first[h] + k] = CodeChar(str, 3 * h + 1, k)
  BY DEF Lined
<1>2. PICK n \in Nat : n = Len(str) /\ 3 * G - 3 < n /\ n <= 3 * G /\ G > 0 /\ n = 3 * G - 1
  <2>1. PICK n \in Nat : n = Len(str) /\ 3 * G - 3 < n /\ n <= 3 * G
    BY LinedFacts DEF Lined
  <2>2. PICK m \in Nat, r \in 0..2 : n = 3 * m + r /\ r = n % 3
    BY InThrees
  <2>3. r = 2
    BY <2>1, <2>2
  <2>4. QED BY <2>1, <2>2, <2>3
<1>3. \A j : \A k : CodeChar(str, j, k) = EQUAL <=> (k = 2 /\ j = n) \/ (k = 3 /\ j + 1 >= n)
  <2>1. str \in Seq(1..127)
    BY LinedFacts
  <2>2. ASSUME NEW j, NEW k PROVE CodeChar(str, j, k) = EQUAL <=> (k = 2 /\ j = n) \/ (k = 3 /\ j + 1 >= n)
    <3>1. CodeChar(str, j, k) = EQUAL <=> (k = 2 /\ j = Len(str)) \/ (k = 3 /\ j + 1 >= Len(str))
      BY ONLY <2>1, CodeCharIs
    <3>2. QED BY ONLY <1>2, <3>1
  <2>3. QED BY <2>2
<1>4. CR # EQUAL /\ LF # EQUAL
  BY DEF CR, LF, EQUAL
<1> DEFINE T == {h \in 0..(G - 1) : \A j \in 1..(first[h] - 1) : S[j] # EQUAL}
<1>5. 0 \in T
  <2>1. 1..(first[0] - 1) = {} /\ 0 \in 0..(G - 1)
    BY <1>1, <1>2
  <2>2. QED BY <2>1
<1>6. ASSUME NEW h \in 0..(G - 2), h \in T PROVE h + 1 \in T
  <2>1. h \in 0..G /\ h + 1 \in 1..G /\ h + 1 - 1 = h /\ h + 1 \in 0..(G - 1) /\ h \in 0..(G - 1) /\ h + 1 \in 0..G
    BY <1>2
  <2>2. PICK a \in Nat, b \in Nat : a = first[h] /\ b = first[h + 1]
    BY <1>1, <2>1
  <2>3. b = a + 4 \/ (b = a + 6 /\ S[a + 4] = CR /\ S[a + 5] = LF)
    <3>1. Follows(S, first, h + 1, G)
      BY ONLY <1>1, <2>1
    <3>2. QED BY ONLY <2>1, <2>2, <3>1 DEF Follows
  <2>4. \A k \in 0..3 : S[a + k] # EQUAL
    <3> TAKE k \in 0..3
    <3>1. S[a + k] = CodeChar(str, 3 * h + 1, k)
      BY <1>1, <2>1, <2>2
    <3>2. ~(3 * h + 1 = n) /\ ~(3 * h + 1 + 1 >= n)
      BY <1>2, <2>1
    <3>3. QED BY <1>3, <3>1, <3>2
  <2>5. \A j \in 1..(b - 1) : S[j] # EQUAL
    <3> TAKE j \in 1..(b - 1)
    <3>1. CASE j <= a - 1
      <4>1. j \in 1..(first[h] - 1)
        BY <2>2, <3>1
      <4>2. QED BY <1>6, <4>1
    <3>2. CASE j \in a..(a + 3)
      <4>1. PICK k \in 0..3 : j = a + k
        <5>1. j - a \in 0..3 /\ j = a + (j - a)
          BY <3>2
        <5>2. QED BY <5>1
      <4>2. QED BY <2>4, <4>1
    <3>3. CASE j > a + 3
      <4>1. b = a + 6 /\ S[a + 4] = CR /\ S[a + 5] = LF
        BY <2>3, <3>3
      <4>2. j = a + 4 \/ j = a + 5
        BY <3>3, <4>1
      <4>3. QED BY <1>4, <4>1, <4>2
    <3>4. QED BY <3>1, <3>2, <3>3
  <2>6. QED BY <2>1, <2>2, <2>5
<1> HIDE DEF T
<1>7. PICK g \in Nat : g = G - 1
  BY <1>2
<1>8. g \in T
  <2>1. \A h \in 0..(g - 1) : h \in T => h + 1 \in T
    BY <1>6, <1>7
  <2>2. \A h \in 0..g : h \in T
    BY ONLY <1>5, <2>1, UpTo, g \in Nat
  <2>3. QED BY <1>7, <2>2
<1>9. PICK a \in Nat : a = first[g] /\ a + 4 = Len(S) + 1
  <2>1. first[G - 1] + 4 = Len(S) + 1
    BY <1>2, FirstGrows
  <2>2. g \in 0..G
    BY <1>7
  <2>3. QED BY <1>1, <1>7, <2>1, <2>2
<1>10. TAKE j \in 1..Len(S)
<1>11. HAVE S[j] = EQUAL
<1>12. ~(j <= a - 1)
  <2>1. j <= a - 1 => j \in 1..(first[g] - 1)
    BY <1>9
  <2>2. QED BY <1>8, <1>11, <2>1 DEF T
<1>13. PICK k \in 0..3 : j = a + k
  <2>1. Len(S) \in Nat
    BY LinedFacts
  <2>2. j - a \in 0..3 /\ j = a + (j - a)
    BY <1>9, <1>12, <2>1
  <2>3. QED BY <2>2
<1>14. S[j] = CodeChar(str, 3 * g + 1, k)
  <2>1. g \in 0..(G - 1)
    BY <1>7
  <2>2. QED BY <1>1, <1>9, <1>13, <2>1
<1>15. k = 3
  <2>1. 3 * g + 1 # n
    BY <1>2, <1>7
  <2>2. QED BY <1>3, <1>11, <1>14, <2>1
<1>16. QED BY <1>9, <1>13, <1>15

\* Where the decoder can be behind h groups: at the next one, or at the end of a
\* line before it.
Place(first, G, h, r) ==
    h \in 0..G /\ (r = first[h] \/ (h > 0 /\ r = first[h - 1] + 4))

LEMMA PlaceKinds ==
    ASSUME NEW S, NEW str, NEW first, NEW G, Lined(S, str, first, G), NEW h, NEW r, Place(first, G, h, r)
    PROVE  /\ h \in 0..G /\ r \in Nat
           /\ \/ r = first[h]
              \/ h \in 1..(G - 1) /\ first[h] = r + 2 /\ S[r] = CR /\ S[r + 1] = LF
<1> G \in Nat
  BY LinedFacts
<1>1. /\ first \in [0..G -> Nat] /\ \A x \in 1..G : Follows(S, first, x, G)
  BY DEF Lined
<1>2. h \in 0..G
  BY DEF Place
<1>3. CASE r = first[h]
  BY <1>1, <1>2, <1>3
<1>4. CASE r # first[h]
  <2>1. h > 0 /\ r = first[h - 1] + 4
    BY <1>4 DEF Place
  <2>2. h \in 1..G /\ h - 1 \in 0..G
    BY <1>2, <2>1
  <2>3. PICK a \in Nat : a = first[h - 1]
    BY <1>1, <2>2
  <2>4. h < G /\ first[h] = a + 6 /\ S[a + 4] = CR /\ S[a + 5] = LF
    BY <1>1, <1>4, <2>1, <2>2, <2>3 DEF Follows
  <2>5. r = a + 4 /\ a + 6 = r + 2 /\ a + 5 = r + 1 /\ r \in Nat
    BY <2>1, <2>3
  <2>6. h \in 1..(G - 1)
    BY <2>2, <2>4
  <2>7. QED BY <1>2, <2>4, <2>5, <2>6
<1>5. QED BY <1>3, <1>4

\* W begins with S; behind it there is no "=".
Followed(W, S) ==
    /\ W \in Str /\ S \in Str /\ Len(S) <= Len(W) /\ \A i \in 1..Len(S) : W[i] = S[i]
    /\ \A i \in 1..Len(W) : i > Len(S) => W[i] # EQUAL

\* The first zlen characters of F are those of W behind the place u.
Window(F, zlen, W, u) ==
    /\ F \in Str /\ W \in Str /\ zlen \in Nat /\ zlen <= Len(F)
    /\ u \in Nat /\ u + zlen <= Len(W) /\ \A i \in 1..zlen : F[i] = W[u + i]

\* They are of S, and of at most three characters behind it.
Sees(F, zlen, W, S, u) == Window(F, zlen, W, u) /\ Followed(W, S) /\ u + zlen <= Len(S) + 3

LEMMA SeesAt ==
    ASSUME NEW F, NEW zlen, NEW W, NEW u, Window(F, zlen, W, u), NEW i \in 1..zlen
    PROVE  At(F, i) = W[u + i] /\ At(F, i) = F[i]
<1>1. F \in Str /\ zlen \in Nat /\ zlen <= Len(F) /\ F[i] = W[u + i]
  BY DEF Window
<1>2. PICK l \in Nat : l = Len(F)
  BY <1>1 DEF Str
<1>3. i \in DOMAIN F
  <2>1. DOMAIN F = 1..l
    BY <1>1, <1>2 DEF Str
  <2>2. QED BY <1>1, <1>2, <2>1
<1>4. QED BY <1>1, <1>3 DEF At

LEMMA SeesText ==
    ASSUME NEW F, NEW zlen, NEW W, NEW S, NEW u, Sees(F, zlen, W, S, u),
           NEW i \in 1..zlen, u + i <= Len(S)
    PROVE  At(F, i) = S[u + i]
<1>1. Window(F, zlen, W, u) /\ Followed(W, S) /\ u \in Nat /\ zlen \in Nat
  BY DEF Sees, Window
<1>2. At(F, i) = W[u + i]
  BY <1>1, SeesAt
<1>3. PICK j \in 1..Len(S) : j = u + i
  <2>1. Len(S) \in Nat
    BY <1>1 DEF Followed, Str
  <2>2. u + i \in 1..Len(S)
    BY <1>1, <2>1
  <2>3. QED BY <2>2
<1>4. W[j] = S[j]
  BY <1>1 DEF Followed
<1>5. QED BY <1>2, <1>3, <1>4

LEMMA GroupThere ==
    ASSUME NEW S, NEW str, NEW first, NEW G, Lined(S, str, first, G),
           NEW F, NEW zlen, NEW u, NEW W, Sees(F, zlen, W, S, u),
           NEW h \in 0..(G - 1), NEW i \in Nat \ {0}, u + i = first[h], i + 3 <= zlen
    PROVE  \A k \in 0..3 : At(F, i + k) = CodeChar(str, 3 * h + 1, k)
<1> TAKE k \in 0..3
<1>1. u \in Nat /\ zlen \in Nat
  BY DEF Sees, Window
<1>2. PICK j \in 1..zlen : j = i + k /\ u + j = first[h] + k
  <2>1. i + k \in 1..zlen /\ u + (i + k) = first[h] + k
    BY <1>1
  <2>2. QED BY <2>1
<1>3. At(F, i + k) = S[u + (i + k)]
  <2>1. first[h] + 4 <= Len(S) + 1
    BY FirstGrows
  <2>2. u + j <= Len(S)
    <3>1. Len(S) \in Nat
      BY LinedFacts
    <3>2. QED BY <1>1, <1>2, <2>1, <3>1
  <2>3. At(F, j) = S[u + j]
    BY <2>2, SeesText
  <2>4. QED BY <1>2, <2>3
<1>4. S[first[h] + k] = CodeChar(str, 3 * h + 1, k)
  BY DEF Lined
<1>5. QED BY <1>2, <1>3, <1>4

\* At the end of a line there is no "=" to be seen.
LEMMA LineEndThere ==
    ASSUME NEW S, NEW str, NEW first, NEW G, Lined(S, str, first, G),
           NEW F, NEW zlen, NEW u, NEW W, Sees(F, zlen, W, S, u),
           NEW h \in 1..(G - 1), NEW i \in Nat \ {0}, u + i + 2 = first[h], S[u + i] = CR, S[u + i + 1] = LF,
           i + 3 <= zlen
    PROVE  At(F, i) = CR /\ F[i] = CR /\ base64_equal_sign(F, i) = 0
<1>1. u \in Nat /\ zlen \in Nat /\ Window(F, zlen, W, u)
  BY DEF Sees, Window
<1>2. str \in Seq(1..127) /\ G \in Nat
  BY LinedFacts
<1>0. \A k \in 0..3 : At(F, i + k) = S[u + (i + k)]
  <2> TAKE k \in 0..3
  <2>1. PICK j \in 1..zlen : j = i + k
    <3>1. i + k \in 1..zlen
      BY <1>1
    <3>2. QED BY <3>1
  <2>2. first[h] + 4 <= Len(S) + 1 /\ Len(S) \in Nat
    <3>1. h \in 0..(G - 1)
      BY <1>2
    <3>2. QED BY <3>1, FirstGrows, LinedFacts
  <2>3. u + j <= Len(S)
    BY <1>1, <2>1, <2>2
  <2>4. At(F, j) = S[u + j]
    BY <2>3, SeesText
  <2>5. QED BY <2>1, <2>4
<1>3. At(F, i) = CR /\ F[i] = CR
  <2>1. i \in 1..zlen
    BY <1>1
  <2>2. At(F, i + 0) = S[u + (i + 0)] /\ i + 0 = i
    BY <1>0
  <2>3. At(F, i) = F[i]
    BY <1>1, <2>1, SeesAt
  <2>4. QED BY <2>2, <2>3
<1>4. At(F, i + 1) = LF
  <2>1. u + (i + 1) = u + i + 1
    BY <1>1
  <2>2. At(F, i + 1) = S[u + (i + 1)]
    BY <1>0
  <2>3. QED BY <2>1, <2>2
<1>5. h \in 0..(G - 1)
  BY <1>2
<1>6. S[first[h] + 0] = CodeChar(str, 3 * h + 1, 0) /\ S[first[h] + 1] = CodeChar(str, 3 * h + 1, 1)
  BY <1>5 DEF Lined
<1>7. At(F, i + 2) = CodeChar(str, 3 * h + 1, 0)
  <2>1. u + (i + 2) = first[h] + 0
    BY <1>1
  <2>2. At(F, i + 2) = S[u + (i + 2)]
    BY <1>0
  <2>3. QED BY <1>6, <2>1, <2>2
<1>8. At(F, i + 3) = CodeChar(str, 3 * h + 1, 1)
  <2>1. u + (i + 3) = first[h] + 1
    BY <1>1
  <2>2. At(F, i + 3) = S[u + (i + 3)]
    BY <1>0
  <2>3. QED BY <1>6, <2>1, <2>2
<1>9. \A j : CodeChar(str, j, 0) # EQUAL /\ CodeChar(str, j, 1) # EQUAL
  BY <1>2, CodeCharIs
<1>10. CR # EQUAL /\ LF # EQUAL
  BY DEF CR, LF, EQUAL
<1>11. \A k \in 0..3 : At(F, i + k) # EQUAL
  <2> TAKE k \in 0..3
  <2>1. k = 0 \/ k = 1 \/ k = 2 \/ k = 3
    OBVIOUS
  <2>2. i + 0 = i
    OBVIOUS
  <2>3. QED BY ONLY <1>3, <1>4, <1>7, <1>8, <1>9, <1>10, <2>1, <2>2
<1>12. QED BY <1>3, <1>11, EqualSigns

-----------------------------------------------------------------------------
(* The loop over the groups of a packet, at its groups.                      *)

\* x are the characters of s behind a, up to b.
SubIs(s, a, b, x) ==
    /\ s \in Str /\ a \in Nat /\ b \in Nat /\ a <= b /\ b <= Len(s)
    /\ x \in Str /\ Len(x) = b - a /\ \A i \in 1..(b - a) : x[i] = s[a + i]

LEMMA SubFacts ==
    ASSUME NEW s \in Str, NEW a \in Nat, NEW b \in Nat, a <= b, b <= Len(s)
    PROVE  /\ SubIs(s, a, b, SubSeq(s, a + 1, b))
           /\ \A x : SubIs(s, a, b, x) => x = SubSeq(s, a + 1, b)
<1>1. PICK c \in Nat \ {0}, d \in Int : c = a + 1 /\ d = b /\ d <= Len(s)
  OBVIOUS
<1>2. PICK y : y = SubSeq(s, c, d)
  OBVIOUS
<1>3. y \in Str /\ Len(y) = (IF c <= d THEN d - c + 1 ELSE 0) /\ \A i \in 1..(d - c + 1) : y[i] = s[c + i - 1]
  BY <1>1, <1>2, SubStr
<1>4. /\ (IF c <= d THEN d - c + 1 ELSE 0) = b - a /\ d - c + 1 = b - a
      /\ \A i \in 1..(b - a) : c + i - 1 = a + i
  BY <1>1
<1>5. Len(y) = b - a /\ \A i \in 1..(b - a) : y[i] = s[a + i]
  BY ONLY <1>3, <1>4
<1>6. SubIs(s, a, b, y)
  BY <1>3, <1>5 DEF SubIs
<1>7. \A x : SubIs(s, a, b, x) => x = y
  <2> TAKE x
  <2> HAVE SubIs(s, a, b, x)
  <2>1. x \in Str /\ Len(x) = b - a /\ \A i \in 1..(b - a) : x[i] = s[a + i]
    BY DEF SubIs
  <2>2. y \in Str /\ Len(x) = Len(y) /\ \A i \in 1..Len(x) : x[i] = y[i]
    BY <1>3, <1>5, <2>1
  <2>3. QED BY <2>1, <2>2, StrEqual
<1>8. QED BY <1>1, <1>2, <1>6, <1>7

LEMMA SubOnly ==
    ASSUME NEW s, NEW a, NEW b, NEW x, SubIs(s, a, b, x)
    PROVE  x = SubSeq(s, a + 1, b)
<1>1. s \in Str /\ a \in Nat /\ b \in Nat /\ a <= b /\ b <= Len(s)
  BY DEF SubIs
<1>2. QED BY <1>1, SubFacts

LEMMA SubJoin ==
    ASSUME NEW s, NEW a, NEW b, NEW c, NEW x, NEW y, SubIs(s, a, b, x), SubIs(s, b, c, y)
    PROVE  SubIs(s, a, c, x \o y)
<1>1. /\ s \in Str /\ a \in Nat /\ b \in Nat /\ c \in Nat /\ a <= b /\ b <= c /\ c <= Len(s)
      /\ x \in Str /\ Len(x) = b - a /\ (\A i \in 1..(b - a) : x[i] = s[a + i])
      /\ y \in Str /\ Len(y) = c - b /\ \A i \in 1..(c - b) : y[i] = s[b + i]
  BY DEF SubIs
<1>2. PICK k \in Nat, l \in Nat : k = b - a /\ l = c - b /\ k + l = c - a
  <2>1. b - a \in Nat /\ c - b \in Nat /\ (b - a) + (c - b) = c - a
    BY <1>1
  <2>2. QED BY <2>1
<1>3. PICK z : z = x \o y
  OBVIOUS
<1>4. /\ z \in Str /\ Len(z) = Len(x) + Len(y) /\ (\A i \in 1..Len(x) : z[i] = x[i])
      /\ \A i \in 1..Len(y) : z[Len(x) + i] = y[i]
  <2>1. x \in Str /\ y \in Str
    BY <1>1
  <2>2. /\ x \o y \in Str /\ Len(x \o y) = Len(x) + Len(y) /\ (\A i \in 1..Len(x) : (x \o y)[i] = x[i])
        /\ \A i \in 1..Len(y) : (x \o y)[Len(x) + i] = y[i]
    BY ONLY <2>1, ConcatAt
  <2>3. QED BY ONLY <1>3, <2>2
<1>5. Len(z) = k + l /\ (\A i \in 1..k : z[i] = s[a + i]) /\ \A i \in 1..l : z[k + i] = s[b + i]
  BY ONLY <1>1, <1>2, <1>4
<1>6. \A i \in 1..(k + l) : z[i] = s[a + i]
  <2> TAKE i \in 1..(k + l)
  <2>1. CASE i <= k
    BY <1>5, <2>1
  <2>2. CASE i > k
    <3>1. PICK j \in 1..l : i = k + j
      <4>1. i - k \in 1..l /\ i = k + (i - k)
        BY <2>2
      <4>2. QED BY <4>1
    <3>2. a + i = b + j
      BY <1>1, <1>2, <3>1
    <3>3. QED BY <1>5, <3>1, <3>2
  <2>3. QED BY <2>1, <2>2
<1>7. a <= c /\ Len(z) = c - a /\ \A i \in 1..(c - a) : z[i] = s[a + i]
  BY <1>1, <1>2, <1>5, <1>6
<1>8. SubIs(s, a, c, z)
  BY <1>1, <1>4, <1>7 DEF SubIs
<1>9. QED BY <1>3, <1>8

\* A group, and the groups behind it.
LEMMA ThreeIs ==
    ASSUME NEW str \in Seq(1..127), NEW h \in Nat, 3 * h + 3 <= Len(str)
    PROVE  SubIs(str, 3 * h, 3 * h + 3, << str[3 * h + 1], str[3 * h + 2], str[3 * h + 3] >>)
<1>1. str \in Str
  BY TextStr
<1>2. PICK a \in Nat : a = 3 * h /\ a + 3 <= Len(str)
  OBVIOUS
<1>3. PICK p \in Int, q \in Int, r \in Int : p = str[a + 1] /\ q = str[a + 2] /\ r = str[a + 3]
  <2>1. a + 1 \in 1..Len(str) /\ a + 2 \in 1..Len(str) /\ a + 3 \in 1..Len(str)
    BY <1>2
  <2>2. str[a + 1] \in Int /\ str[a + 2] \in Int /\ str[a + 3] \in Int
    BY <1>1, <2>1, ElementOfSeq DEF Str
  <2>3. QED BY <2>2
<1>4. PICK t : t = << p, q, r >>
  OBVIOUS
<1>5. t \in Str /\ Len(t) = 3 /\ t[1] = p /\ t[2] = q /\ t[3] = r
  BY <1>4, Tuples
<1>6. \A i \in 1..3 : t[i] = str[a + i]
  <2> TAKE i \in 1..3
  <2>1. i = 1 \/ i = 2 \/ i = 3
    OBVIOUS
  <2>2. QED BY ONLY <1>3, <1>5, <2>1
<1>7. a + 3 - a = 3 /\ a + 3 \in Nat /\ a <= a + 3
  OBVIOUS
<1>8. SubIs(str, a, a + 3, t)
  BY <1>1, <1>2, <1>5, <1>6, <1>7 DEF SubIs
<1>9. QED BY <1>2, <1>3, <1>4, <1>8

LEMMA NoneIs ==
    ASSUME NEW s \in Str, NEW a \in Nat, a <= Len(s)
    PROVE  SubIs(s, a, a, << >>)
<1>1. << >> \in Str /\ Len(<< >>) = 0
  BY SufEmpty DEF Str
<1>2. a - a = 0 /\ a <= a /\ 1..(a - a) = {}
  OBVIOUS
<1>3. QED BY <1>1, <1>2 DEF SubIs

\* How much of a text x groups are.
Upto(str, x) == IF 3 * x <= Len(str) THEN 3 * x ELSE Len(str)

\* Where the loop ends that begins behind h groups, and what it has decoded.
Ended(F, zlen, str, first, G, u, h, c) ==
    \E x \in h..G : \E r :
      /\ Place(first, G, x, r) /\ c \in Progress(zlen) /\ u + c.at = r
      /\ SubIs(str, Upto(str, h), Upto(str, x), c.out)
      /\ zlen + 1 - c.at < 4 \/ base64_equal_sign(F, c.at) # 0

\* So it is for each place of the loop behind i.
EndsBehind(F, zlen, str, first, G, u, i, C) ==
    \A j \in (i + 1)..(zlen + 1) : \A h : \A r :
      Place(first, G, h, r) /\ u + j = r => Ended(F, zlen, str, first, G, u, h, C[j])

LEMMA LoopStep ==
    ASSUME NEW S, NEW str, NEW first, NEW G, Lined(S, str, first, G),
           NEW F, NEW zlen, NEW u, NEW W, Sees(F, zlen, W, S, u),
           NEW i \in 1..(zlen + 1), NEW C, EndsBehind(F, zlen, str, first, G, u, i, C),
           NEW h, NEW r, Place(first, G, h, r), u + i = r
    PROVE  Ended(F, zlen, str, first, G, u, h, Stream1(F, zlen, i, C))
<1>1. u \in Nat /\ zlen \in Nat /\ F \in Str /\ Window(F, zlen, W, u) /\ u + zlen <= Len(S) + 3
  BY DEF Sees, Window
<1>2. str \in Seq(1..127) /\ G \in Nat /\ str \in Str /\ first \in [0..G -> Nat]
  BY LinedFacts, TextStr
<1>3. h \in 0..G /\ (r = first[h] \/ (h \in 1..(G - 1) /\ first[h] = r + 2 /\ S[r] = CR /\ S[r + 1] = LF))
  BY PlaceKinds
<1>4. PICK d : d = Stream1(F, zlen, i, C)
  OBVIOUS
<1>5. CASE zlen + 1 - i < 4 \/ base64_equal_sign(F, i) # 0
  <2>1. d = [at |-> i, out |-> << >>]
    BY <1>4, <1>5 DEF Stream1
  <2>2. d.at = i /\ d.out = << >> /\ d \in Progress(zlen)
    <3>1. << >> \in Str
      BY SufEmpty DEF Str
    <3>2. QED BY <2>1, <3>1 DEF Progress
  <2>3. SubIs(str, Upto(str, h), Upto(str, h), << >>) /\ h \in h..G
    <3>1. Upto(str, h) \in Nat /\ Upto(str, h) <= Len(str) /\ h \in h..G
      BY <1>2, <1>3 DEF Upto
    <3>2. QED BY <1>2, <3>1, NoneIs
  <2>4. Ended(F, zlen, str, first, G, u, h, d)
    BY <1>5, <2>2, <2>3 DEF Ended
  <2>5. QED BY <1>4, <2>4, Zenon
<1>6. CASE ~(zlen + 1 - i < 4 \/ base64_equal_sign(F, i) # 0)
  <2>1. i \in Nat \ {0} /\ i + 3 <= zlen /\ base64_equal_sign(F, i) = 0
    BY <1>1, <1>6
  <2>2. CASE r # first[h]
    <3>1. h \in 1..(G - 1) /\ first[h] = r + 2 /\ S[r] = CR /\ S[r + 1] = LF
      BY <1>3, <2>2
    <3>2. u + i + 2 = first[h] /\ S[u + i] = CR /\ S[u + i + 1] = LF
      BY <3>1
    <3>3. F[i] = CR
      BY <2>1, <3>1, <3>2, LineEndThere
    <3>4. d = C[i + 2]
      BY <1>4, <1>6, <3>3 DEF Stream1
    <3>5. i + 2 \in (i + 1)..(zlen + 1) /\ u + (i + 2) = first[h]
      BY <1>1, <2>1, <3>2
    <3>6. Place(first, G, h, first[h])
      BY <1>3 DEF Place
    <3>7. Ended(F, zlen, str, first, G, u, h, C[i + 2])
      BY <3>5, <3>6 DEF EndsBehind
    <3>8. QED BY <1>4, <3>4, <3>7
  <2>3. CASE r = first[h]
    <3>1. h \in 0..(G - 1)
      <4>1. u + i <= Len(S)
        <5>1. Len(S) \in Nat
          BY LinedFacts
        <5>2. QED BY <1>1, <2>1, <5>1
      <4>2. h = G => r = Len(S) + 1
        BY <2>3 DEF Lined
      <4>3. Len(S) \in Nat
        BY LinedFacts
      <4>4. h # G
        BY <1>1, <2>1, <4>1, <4>2, <4>3
      <4>5. QED BY <1>2, <1>3, <4>4
    <3>2. u + i = first[h] /\ h \in Nat
      BY <2>3, <3>1
    <3>3. \A k \in 0..3 : At(F, i + k) = CodeChar(str, 3 * h + 1, k)
      BY <2>1, <3>1, <3>2, GroupThere
    <3>4. PICK j \in Nat : j = 3 * h + 1
      BY <3>2
    <3>5. PICK n \in Nat : n = Len(str) /\ 3 * G - 3 < n
      BY <1>2 DEF Lined
    <3>6. j \in 1..Len(str)
      <4>1. h <= G - 1 /\ G \in Nat
        BY <1>2, <3>1
      <4>2. j <= n /\ j >= 1
        BY <3>2, <3>4, <3>5, <4>1
      <4>3. QED BY <3>4, <3>5, <4>2
    <3>7. F[i] # CR
      <4>1. At(F, i + 0) = CodeChar(str, j, 0) /\ i + 0 = i
        BY <2>1, <3>3, <3>4
      <4>2. CodeChar(str, j, 0) # CR
        BY <1>2, CodeCharIs
      <4>3. At(F, i) = F[i]
        <5>1. i \in 1..zlen
          BY <1>1, <2>1
        <5>2. QED BY <1>1, <5>1, SeesAt
      <4>4. QED BY <4>1, <4>2, <4>3
    <3>8. /\ j + 2 <= n => Group(F, i) = << str[j], str[j + 1], str[j + 2] >>
          /\ j + 1 = n => base64_equal_sign(F, i) = 1
          /\ j = n => base64_equal_sign(F, i) = 2
      <4>1. \A k \in 0..3 : At(F, i + k) = CodeChar(str, j, k)
        BY <3>3, <3>4
      <4>2. GroupSays(str, j, F, i)
        BY <1>2, <3>6, <4>1, GroupOf
      <4>3. QED BY ONLY <3>5, <4>2 DEF GroupSays
    <3>9. j + 2 <= n
      BY <2>1, <3>5, <3>6, <3>8
    <3>10. PICK t : t = << str[3 * h + 1], str[3 * h + 2], str[3 * h + 3] >>
      OBVIOUS
    <3>11. Group(F, i) = t
      <4>1. j + 1 = 3 * h + 2 /\ j + 2 = 3 * h + 3
        BY <3>2, <3>4
      <4>2. QED BY <3>4, <3>8, <3>9, <3>10, <4>1
    <3>12. d = [C[i + 4] EXCEPT !.out = t \o C[i + 4].out]
      BY <1>4, <1>6, <3>7, <3>11 DEF Stream1
    <3>13. Ended(F, zlen, str, first, G, u, h + 1, C[i + 4])
      <4>1. i + 4 \in (i + 1)..(zlen + 1) /\ u + (i + 4) = first[h] + 4
        BY <1>1, <2>1, <3>2
      <4>2. Place(first, G, h + 1, first[h] + 4)
        <5>1. h + 1 \in 0..G /\ h + 1 > 0 /\ h + 1 - 1 = h
          BY <1>2, <3>1
        <5>2. QED BY <5>1 DEF Place
      <4>3. QED BY <4>1, <4>2 DEF EndsBehind
    <3>14. PICK c : c = C[i + 4]
      OBVIOUS
    <3>15. PICK x, q : /\ x \in (h + 1)..G /\ Place(first, G, x, q) /\ c \in Progress(zlen) /\ u + c.at = q
                       /\ SubIs(str, Upto(str, h + 1), Upto(str, x), c.out)
                       /\ zlen + 1 - c.at < 4 \/ base64_equal_sign(F, c.at) # 0
      BY <3>13, <3>14 DEF Ended
    <3>16. x \in h..G
      BY <3>1, <3>15
    <3>17. SubIs(str, Upto(str, h), Upto(str, x), t \o c.out)
      <4>1. 3 * h + 3 <= Len(str) /\ Upto(str, h) = 3 * h /\ Upto(str, h + 1) = 3 * h + 3
        BY <3>2, <3>4, <3>5, <3>9 DEF Upto
      <4>2. SubIs(str, 3 * h, 3 * h + 3, t)
        BY <1>2, <3>2, <3>10, <4>1, ThreeIs
      <4>3. SubIs(str, 3 * h + 3, Upto(str, x), c.out)
        BY <3>15, <4>1
      <4>4. SubIs(str, 3 * h, Upto(str, x), t \o c.out)
        BY ONLY <4>2, <4>3, SubJoin
      <4>5. QED BY <4>1, <4>4
    <3>18. PICK D : D = [c EXCEPT !.out = t \o c.out]
      OBVIOUS
    <3>19. D.at = c.at /\ D.out = t \o c.out /\ D \in Progress(zlen)
      <4>1. t \in Str
        BY <1>1, <3>11, GroupIs
      <4>2. PICK y \in Str : y = t \o c.out
        <5>1. c.out \in Str
          BY <3>15 DEF Progress
        <5>2. QED BY <4>1, <5>1, ConcatAt
      <4>3. D = [c EXCEPT !.out = y]
        BY <3>18, <4>2
      <4>4. QED BY <3>15, <4>2, <4>3 DEF Progress
    <3>20. d = D
      BY <3>12, <3>14, <3>18
    <3>21. Ended(F, zlen, str, first, G, u, h, D)
      BY <3>15, <3>16, <3>17, <3>19 DEF Ended
    <3>22. QED BY <1>4, <3>20, <3>21
  <2>4. QED BY <2>2, <2>3
<1>7. QED BY <1>5, <1>6

\* The loop of base64_decode_stream, from a place between two groups on.
LEMMA LoopEnds ==
    ASSUME NEW S, NEW str, NEW first, NEW G, Lined(S, str, first, G),
           NEW F, NEW zlen, NEW u, NEW W, Sees(F, zlen, W, S, u),
           NEW h, NEW r, Place(first, G, h, r), u + 1 = r
    PROVE  Ended(F, zlen, str, first, G, u, h, StreamLoop(F, zlen))
<1>1. F \in Str /\ zlen \in Nat
  BY DEF Sees, Window
<1>2. PICK C : /\ C \in [1..(zlen + 1) -> Progress(zlen)] /\ Streams(C, F, zlen)
               /\ StreamLoop(F, zlen) = C[1]
  BY <1>1, StreamLoopIs
<1>3. PICK m \in Nat : m = zlen + 1
  BY <1>1
<1> DEFINE T == {k \in 0..m : EndsBehind(F, zlen, str, first, G, u, m - k, C)}
<1>4. 0 \in T
  <2>1. (m - 0 + 1)..(zlen + 1) = {} /\ 0 \in 0..m
    BY <1>3
  <2>2. QED BY <2>1 DEF EndsBehind
<1>5. ASSUME NEW k \in 0..(m - 1), k \in T PROVE k + 1 \in T
  <2>1. PICK i \in 1..(zlen + 1) : i = m - k /\ m - (k + 1) = i - 1 /\ k + 1 \in 0..m
    <3>1. m - k \in 1..(zlen + 1) /\ m - (k + 1) = m - k - 1 /\ k + 1 \in 0..m
      BY <1>3
    <3>2. QED BY <3>1
  <2>2. EndsBehind(F, zlen, str, first, G, u, i, C)
    BY <1>5, <2>1
  <2>3. C[i] = Stream1(F, zlen, i, C)
    BY <1>2 DEF Streams
  <2>4. ASSUME NEW j \in (i - 1 + 1)..(zlen + 1), NEW x, NEW q, Place(first, G, x, q), u + j = q
        PROVE  Ended(F, zlen, str, first, G, u, x, C[j])
    <3>1. CASE j = i
      <4>1. u + i = q
        BY <2>4, <3>1
      <4>2. Ended(F, zlen, str, first, G, u, x, Stream1(F, zlen, i, C))
        BY <2>2, <2>4, <4>1, LoopStep
      <4>3. QED BY <2>3, <3>1, <4>2
    <3>2. CASE j # i
      <4>1. j \in (i + 1)..(zlen + 1)
        BY <1>1, <3>2
      <4>2. QED BY <2>2, <2>4, <4>1 DEF EndsBehind
    <3>3. QED BY <3>1, <3>2
  <2>5. EndsBehind(F, zlen, str, first, G, u, i - 1, C)
    BY <2>4 DEF EndsBehind
  <2>6. QED BY <2>1, <2>5
<1> HIDE DEF T
<1>6. m \in T
  <2>1. \A k \in 0..m : k \in T
    BY <1>4, <1>5, UpTo
  <2>2. QED BY <2>1
<1>7. EndsBehind(F, zlen, str, first, G, u, 0, C)
  <2>1. m - m = 0
    OBVIOUS
  <2>2. QED BY <1>6, <2>1 DEF T
<1>8. 1 \in (0 + 1)..(zlen + 1)
  BY <1>1
<1>9. QED BY <1>2, <1>7, <1>8 DEF EndsBehind

\* The two blocks behind the loop.
LEMMA PadTwo ==
    ASSUME NEW data \in Str, NEW q, base64_equal_sign(data, q) = 2
    PROVE  Padding(data, q, FALSE).out = << Group(data, q)[1] >> /\ Padding(data, q, FALSE).groups = 1
<1>1. PICK c \in Int : c = Group(data, q)[1]
  BY GroupIs
<1>2. Append(<< >>, c) = << c >>
  BY AppendTuples
<1>3. 2 # 1
  OBVIOUS
<1>4. QED BY <1>1, <1>2, <1>3 DEF Padding

LEMMA PadOne ==
    ASSUME NEW data \in Str, NEW q, base64_equal_sign(data, q) = 1, base64_equal_sign(data, q + 3) # 2
    PROVE  /\ Padding(data, q, FALSE).out = << Group(data, q)[1], Group(data, q)[2] >>
           /\ Padding(data, q, FALSE).groups = 1
BY FirstTwo DEF Padding

LEMMA PadBoth ==
    ASSUME NEW data \in Str, NEW q, base64_equal_sign(data, q) = 1, base64_equal_sign(data, q + 3) = 2
    PROVE  Padding(data, q, FALSE).groups = 2
BY DEF Padding

LEMMA CharIs ==
    ASSUME NEW s \in Str, NEW a \in Nat, a + 1 <= Len(s), NEW c, c = s[a + 1]
    PROVE  SubIs(s, a, a + 1, << c >>)
<1>1. c \in Int
  <2>1. a + 1 \in 1..Len(s)
    BY DEF Str
  <2>2. QED BY <2>1, ElementOfSeq DEF Str
<1>2. << c >> \in Str /\ Len(<< c >>) = 1 /\ << c >>[1] = c
  BY <1>1, Tuples
<1>3. a + 1 - a = 1 /\ a <= a + 1 /\ a + 1 \in Nat
  OBVIOUS
<1>4. \A i \in 1..1 : << c >>[i] = s[a + i]
  BY <1>2
<1>5. QED BY <1>2, <1>3, <1>4 DEF SubIs

LEMMA TwoCharsAre ==
    ASSUME NEW s \in Str, NEW a \in Nat, a + 2 <= Len(s), NEW c, NEW d, c = s[a + 1], d = s[a + 2]
    PROVE  SubIs(s, a, a + 2, << c, d >>)
<1>1. c \in Int /\ d \in Int
  <2>1. a + 1 \in 1..Len(s) /\ a + 2 \in 1..Len(s)
    BY DEF Str
  <2>2. QED BY <2>1, ElementOfSeq DEF Str
<1>2. << c, d >> \in Str /\ Len(<< c, d >>) = 2 /\ << c, d >>[1] = c /\ << c, d >>[2] = d
  BY <1>1, Tuples
<1>3. a + 2 - a = 2 /\ a <= a + 2 /\ a + 2 \in Nat /\ a \in Nat /\ a + 2 <= Len(s) /\ s \in Str
  OBVIOUS
<1>4. \A i \in 1..2 : << c, d >>[i] = s[a + i]
  <2> TAKE i \in 1..2
  <2>1. i = 1 \/ i = 2
    OBVIOUS
  <2>2. QED BY ONLY <1>2, <2>1, c = s[a + 1], d = s[a + 2]
<1>5. PICK b \in Nat, t \in Str : b = a + 2 /\ t = << c, d >>
  BY <1>2, <1>3
<1>6. b - a = 2 /\ a <= b /\ b <= Len(s) /\ Len(t) = 2
  BY <1>2, <1>3, <1>5
<1>7. \A i \in 1..2 : t[i] = s[a + i]
  BY <1>4, <1>5
<1>8. SubIs(s, a, b, t)
  BY <1>3, <1>6, <1>7 DEF SubIs
<1>9. QED BY <1>5, <1>8

\* What base64_decode_stream makes of the characters behind u, where the text is
\* decoded up to g groups: some more groups, and at most three characters that
\* wait.  If old bytes of the buffer hold an "=", it may count one group too many.
Outcome(F, zlen, str, first, G, u, g, D) ==
    \/ \E x \in g..G : \E r :
         /\ Place(first, G, x, r) /\ D.clen \in 0..3 /\ D.clen <= zlen /\ u + 1 + zlen - D.clen = r
         /\ SubIs(str, Upto(str, g), Upto(str, x), D.out)
    \/ D.clen < 0 /\ Len(str) % 3 = 2 /\ u + 4 < first[G] /\ \E i \in (zlen + 1)..Len(F) : F[i] = EQUAL

\* The loop stops in front of four characters only if they are the last ones.
LEMMA LastGroup ==
    ASSUME NEW S, NEW str, NEW first, NEW G, Lined(S, str, first, G),
           NEW F, NEW zlen, NEW u, NEW W, Sees(F, zlen, W, S, u),
           NEW x, NEW r, Place(first, G, x, r), NEW a \in 1..(zlen + 1), u + a = r,
           zlen + 1 - a >= 4, base64_equal_sign(F, a) # 0
    PROVE  /\ x = G - 1 /\ G > 0 /\ r + 4 = Len(S) + 1 /\ r = first[x]
           /\ \/ /\ Len(str) = 3 * x + 1 /\ base64_equal_sign(F, a) = 2
                 /\ Group(F, a)[1] = str[3 * x + 1]
              \/ /\ Len(str) = 3 * x + 2 /\ base64_equal_sign(F, a) = 1
                 /\ Group(F, a)[1] = str[3 * x + 1] /\ Group(F, a)[2] = str[3 * x + 2]
<1>1. u \in Nat /\ zlen \in Nat /\ F \in Str /\ u + zlen <= Len(S) + 3
  BY DEF Sees, Window
<1>2. str \in Seq(1..127) /\ G \in Nat /\ str \in Str /\ first \in [0..G -> Nat] /\ Len(S) \in Nat
  BY LinedFacts, TextStr
<1>3. x \in 0..G /\ (r = first[x] \/ (x \in 1..(G - 1) /\ first[x] = r + 2 /\ S[r] = CR /\ S[r + 1] = LF))
  BY PlaceKinds
<1>4. a \in Nat \ {0} /\ a + 3 <= zlen
  BY <1>1
<1>5. r = first[x]
  <2>1. SUFFICES ASSUME r # first[x] PROVE FALSE
    OBVIOUS
  <2>2. x \in 1..(G - 1) /\ u + a + 2 = first[x] /\ S[u + a] = CR /\ S[u + a + 1] = LF
    BY <1>3, <2>1
  <2>3. base64_equal_sign(F, a) = 0
    BY <1>4, <2>2, LineEndThere
  <2>4. QED BY <2>3
<1>6. x \in 0..(G - 1)
  <2>1. x = G => r = Len(S) + 1
    BY <1>5 DEF Lined
  <2>2. r <= Len(S)
    BY <1>1, <1>2, <1>4
  <2>3. x # G
    BY <1>2, <2>1, <2>2
  <2>4. QED BY <1>2, <1>3, <2>3
<1>7. PICK j \in Nat, n \in Nat : j = 3 * x + 1 /\ n = Len(str) /\ 3 * G - 3 < n /\ n <= 3 * G
  <2>1. 3 * x + 1 \in Nat /\ Len(str) \in Nat /\ 3 * G - 3 < Len(str) /\ Len(str) <= 3 * G
    BY <1>2, <1>6 DEF Lined
  <2>2. QED BY <2>1
<1>8. j \in 1..Len(str)
  BY <1>2, <1>6, <1>7
<1>9. \A k \in 0..3 : At(F, a + k) = CodeChar(str, j, k)
  <2>1. u + a = first[x]
    BY <1>5
  <2>2. \A k \in 0..3 : At(F, a + k) = CodeChar(str, 3 * x + 1, k)
    BY <1>4, <1>6, <2>1, GroupThere
  <2>3. QED BY <1>7, <2>2
<1>10. /\ j + 2 <= n => base64_equal_sign(F, a) = 0
       /\ j + 1 = n => /\ base64_equal_sign(F, a) = 1
                       /\ Group(F, a)[1] = str[j] /\ Group(F, a)[2] = str[j + 1]
       /\ j = n => base64_equal_sign(F, a) = 2 /\ Group(F, a)[1] = str[j]
  <2>1. GroupSays(str, j, F, a)
    BY <1>2, <1>8, <1>9, GroupOf
  <2>2. QED BY ONLY <1>7, <2>1 DEF GroupSays
<1>11. j + 1 = n \/ j = n
  BY <1>7, <1>8, <1>10
<1>12. x = G - 1 /\ G > 0
  BY <1>2, <1>6, <1>7, <1>11
<1>13. r + 4 = Len(S) + 1
  <2>1. first[G - 1] + 4 = Len(S) + 1
    BY <1>12, FirstGrows
  <2>2. QED BY <1>5, <1>12, <2>1
<1>14. j + 1 = 3 * x + 2
  BY <1>6, <1>7
<1>15. QED BY <1>5, <1>7, <1>10, <1>11, <1>12, <1>13, <1>14

LEMMA StreamOutcome ==
    ASSUME NEW S, NEW str, NEW first, NEW G, Lined(S, str, first, G),
           NEW F, NEW zlen, NEW u, NEW W, Sees(F, zlen, W, S, u),
           NEW g, NEW r, Place(first, G, g, r), u + 1 = r,
           NEW D, D = base64_decode_stream(F, zlen)
    PROVE  Outcome(F, zlen, str, first, G, u, g, D)
<1>1. /\ u \in Nat /\ zlen \in Nat /\ F \in Str /\ zlen <= Len(F) /\ u + zlen <= Len(S) + 3
      /\ Followed(W, S) /\ u + zlen <= Len(W) /\ \A i \in 1..zlen : F[i] = W[u + i]
  BY DEF Sees, Window
<1>2. str \in Str /\ G \in Nat /\ first \in [0..G -> Nat] /\ Len(S) \in Nat /\ g \in 0..G
  BY LinedFacts, TextStr DEF Place
<1>3. PICK loop : loop = StreamLoop(F, zlen)
  OBVIOUS
<1>4. PICK x, q : /\ x \in g..G /\ Place(first, G, x, q) /\ loop \in Progress(zlen) /\ u + loop.at = q
                  /\ SubIs(str, Upto(str, g), Upto(str, x), loop.out)
                  /\ zlen + 1 - loop.at < 4 \/ base64_equal_sign(F, loop.at) # 0
  BY <1>3, LoopEnds DEF Ended
<1>5. PICK a \in 1..(zlen + 1) : a = loop.at
  BY <1>4 DEF Progress
<1>6. PICK left \in Nat : left = zlen + 1 - a /\ left <= zlen
  <2>1. zlen + 1 - a \in Nat /\ zlen + 1 - a <= zlen
    BY <1>1
  <2>2. QED BY <2>1
<1>7. CASE left < 4
  <2>1. D = [out |-> loop.out, clen |-> left]
    BY <1>3, <1>5, <1>6, <1>7 DEF base64_decode_stream
  <2>2. D.out = loop.out /\ D.clen = left /\ left \in 0..3 /\ u + 1 + zlen - left = q
    <3>1. left \in 0..3
      BY <1>7
    <3>2. u + 1 + zlen - left = q
      <4>1. u + a = q
        BY <1>4, <1>5
      <4>2. left = zlen + 1 - a /\ u \in Nat /\ zlen \in Nat /\ a \in Nat
        BY <1>1, <1>5, <1>6
      <4>3. QED BY ONLY <4>1, <4>2
    <3>3. D.out = loop.out /\ D.clen = left
      BY ONLY <2>1
    <3>4. QED BY <3>1, <3>2, <3>3
  <2>3. QED BY <1>4, <1>6, <2>2 DEF Outcome
<1>8. CASE ~(left < 4)
  <2>1. zlen + 1 - a >= 4 /\ base64_equal_sign(F, a) # 0 /\ u + a = q
    BY <1>4, <1>5, <1>6, <1>8
  <2>2. /\ x = G - 1 /\ G > 0 /\ q + 4 = Len(S) + 1 /\ q = first[x]
        /\ \/ /\ Len(str) = 3 * x + 1 /\ base64_equal_sign(F, a) = 2
              /\ Group(F, a)[1] = str[3 * x + 1]
           \/ /\ Len(str) = 3 * x + 2 /\ base64_equal_sign(F, a) = 1
              /\ Group(F, a)[1] = str[3 * x + 1] /\ Group(F, a)[2] = str[3 * x + 2]
    BY <1>4, <2>1, LastGroup
  <2>3. PICK pad : pad = Padding(F, a, FALSE)
    OBVIOUS
  <2>4. D = [out |-> loop.out \o pad.out, clen |-> left - 4 * pad.groups]
    BY <1>3, <1>5, <1>6, <1>8, <2>3 DEF base64_decode_stream
  <2>5. D.out = loop.out \o pad.out /\ D.clen = left - 4 * pad.groups
    BY ONLY <2>4
  <2>0. left \in 4..7 /\ u + zlen + 1 - left = q
    <3>1. PICK n \in Nat, b \in Nat : n = Len(S) /\ b = a
      BY <1>1, <1>2
    <3>2. u + b + 4 = n + 1 /\ u + zlen <= n + 3 /\ left = zlen + 1 - b /\ u \in Nat /\ zlen \in Nat /\ ~(left < 4)
      BY <1>1, <1>6, <1>8, <2>1, <2>2, <3>1
    <3>3. left \in 4..7 /\ u + zlen + 1 - left = u + b
      BY ONLY <3>2, n \in Nat, b \in Nat, left \in Nat
    <3>4. QED BY <2>1, <3>1, <3>3
  <2>6. PICK y \in Nat : y = x + 1 /\ y \in g..G /\ y = G /\ x \in Nat
    <3>1. x + 1 \in g..G /\ x + 1 \in Nat /\ x + 1 = G /\ x \in Nat
      BY <1>2, <1>4, <2>2
    <3>2. QED BY <3>1
  <2>7. Place(first, G, y, q + 4) /\ u + 1 + zlen - (left - 4) = q + 4
    <3>1. y \in 0..G /\ y > 0 /\ y - 1 = x
      BY <1>2, <2>6
    <3>2. u + 1 + zlen - (left - 4) = q + 4
      BY <1>1, <2>0
    <3>3. QED BY <2>2, <3>1, <3>2 DEF Place
  <2>8. Upto(str, y) = Len(str) /\ Upto(str, x) = 3 * x
    <3>1. Len(str) = 3 * x + 1 \/ Len(str) = 3 * x + 2
      BY <2>2
    <3>2. ~(3 * y <= Len(str)) /\ 3 * x <= Len(str)
      BY <2>6, <3>1
    <3>3. QED BY <3>2 DEF Upto
  <2>9. pad.groups = 1 /\ SubIs(str, 3 * x, Len(str), pad.out) => Outcome(F, zlen, str, first, G, u, g, D)
    <3>1. HAVE pad.groups = 1 /\ SubIs(str, 3 * x, Len(str), pad.out)
    <3>2. D.clen = left - 4
      BY <2>0, <2>5, <3>1
    <3>3. SubIs(str, Upto(str, g), Upto(str, x), loop.out) /\ SubIs(str, Upto(str, x), Upto(str, y), pad.out)
      BY <1>4, <2>8, <3>1
    <3>4. SubIs(str, Upto(str, g), Upto(str, y), loop.out \o pad.out)
      BY ONLY <3>3, SubJoin
    <3>5. D.clen \in 0..3 /\ D.clen <= zlen /\ u + 1 + zlen - D.clen = q + 4
      BY <1>1, <1>6, <2>0, <2>7, <3>2
    <3>6. QED BY <2>5, <2>6, <2>7, <3>4, <3>5 DEF Outcome
  <2>10. CASE base64_equal_sign(F, a) = 2
    <3>1. Len(str) = 3 * x + 1 /\ Group(F, a)[1] = str[3 * x + 1]
      BY <2>2, <2>10
    <3>2. pad.out = << Group(F, a)[1] >> /\ pad.groups = 1
      BY <1>1, <2>3, <2>10, PadTwo
    <3>3. PICK m \in Nat : m = 3 * x /\ m + 1 <= Len(str) /\ m + 1 = Len(str)
      BY <1>2, <2>6, <3>1
    <3>4. SubIs(str, m, m + 1, << Group(F, a)[1] >>)
      BY <1>2, <3>1, <3>3, CharIs
    <3>5. QED BY <2>9, <3>2, <3>3, <3>4
  <2>11. CASE base64_equal_sign(F, a) = 1
    <3>1. Len(str) = 3 * x + 2 /\ Group(F, a)[1] = str[3 * x + 1] /\ Group(F, a)[2] = str[3 * x + 2]
      BY <2>2, <2>11
    <3>2. PICK m \in Nat : m = 3 * x /\ m + 2 <= Len(str) /\ m + 2 = Len(str)
      BY <1>2, <2>6, <3>1
    <3>3. CASE base64_equal_sign(F, a + 3) # 2
      <4>1. pad.out = << Group(F, a)[1], Group(F, a)[2] >> /\ pad.groups = 1
        BY <1>1, <2>3, <2>11, <3>3, PadOne
      <4>2. SubIs(str, m, m + 2, << Group(F, a)[1], Group(F, a)[2] >>)
        BY <1>2, <3>1, <3>2, TwoCharsAre
      <4>3. QED BY <2>9, <3>2, <4>1, <4>2
    <3>4. CASE base64_equal_sign(F, a + 3) = 2
      <4>1. pad.groups = 2
        BY <1>1, <2>3, <2>11, <3>4, PadBoth
      <4>2. D.clen < 0
        BY <2>0, <2>5, <4>1
      <4>3. Len(str) % 3 = 2
        <5>1. PICK n \in Nat : n = Len(str) /\ n = 3 * x + 2
          BY <2>6, <3>1
        <5>2. PICK k \in Nat, e \in 0..2 : n = 3 * k + e /\ e = n % 3
          BY InThrees
        <5>3. e = 2
          BY <2>6, <5>1, <5>2
        <5>4. QED BY <5>1, <5>2, <5>3
      <4>4. PICK i \in 0..3, j \in 0..3 : i # j /\ \A k \in 0..3 : At(F, a + 3 + k) = EQUAL <=> k \in {i, j}
        BY <3>4, EqualSigns
      <4>5. PICK k \in 1..3 : At(F, a + 3 + k) = EQUAL
        <5>1. CASE i # 0
          <6>1. i \in 1..3 /\ i \in {i, j}
            BY <5>1
          <6>2. QED BY <4>4, <6>1
        <5>2. CASE i = 0
          <6>1. j \in 1..3 /\ j \in {i, j}
            BY <4>4, <5>2
          <6>2. QED BY <4>4, <6>1
        <5>3. QED BY <5>1, <5>2
      <4>6. PICK w \in Nat : w = a + 3 + k /\ w >= zlen + 1
        <5>1. PICK w \in Nat : w = a + 3 + k /\ u + w = Len(S) + k
          <6>1. a + 3 + k \in Nat /\ u + (a + 3 + k) = Len(S) + k
            <7>1. PICK n \in Nat, b \in Nat : n = Len(S) /\ b = a
              BY <1>1, <1>2
            <7>2. u + b + 4 = n + 1
              BY <2>1, <2>2, <7>1
            <7>3. b + 3 + k \in Nat /\ u + (b + 3 + k) = n + k
              BY ONLY <1>1, <7>2, n \in Nat, b \in Nat, k \in 1..3
            <7>4. QED BY <7>1, <7>3
          <6>2. QED BY <6>1
        <5>2. ASSUME w <= zlen PROVE FALSE
          <6>1. w \in 1..zlen
            BY <5>1, <5>2
          <6>2. At(F, w) = W[u + w]
            <7>1. Window(F, zlen, W, u)
              BY DEF Sees
            <7>2. QED BY <6>1, <7>1, SeesAt
          <6>3. PICK v : v = u + w
            OBVIOUS
          <6>4. v \in 1..Len(W) /\ v > Len(S)
            <7>1. Len(W) \in Nat
              BY <1>1 DEF Followed, Str
            <7>2. QED BY <1>1, <1>2, <5>1, <5>2, <6>3, <7>1
          <6>5. W[v] # EQUAL
            BY <1>1, <6>4 DEF Followed
          <6>6. QED BY <4>5, <5>1, <6>2, <6>3, <6>5
        <5>3. QED BY <1>1, <5>1, <5>2
      <4>7. w \in DOMAIN F /\ F[w] = EQUAL
        <5>1. NUL # EQUAL
          BY DEF NUL, EQUAL
        <5>2. QED BY <4>5, <4>6, <5>1 DEF At
      <4>8. w \in (zlen + 1)..Len(F)
        <5>1. PICK l \in Nat : l = Len(F) /\ DOMAIN F = 1..l
          BY <1>1 DEF Str
        <5>2. QED BY <1>1, <4>6, <4>7, <5>1
      <4>9. u + 4 < first[G]
        <5>1. first[G] = Len(S) + 1
          BY DEF Lined
        <5>2. PICK b \in Nat : b = a /\ b > 0
          BY <1>1
        <5>3. u + b + 4 = first[G]
          BY <2>1, <2>2, <5>1, <5>2
        <5>4. QED BY ONLY <1>1, <5>2, <5>3
      <4>10. QED BY <4>2, <4>3, <4>7, <4>8, <4>9 DEF Outcome
    <3>5. QED BY <3>3, <3>4
  <2>12. QED BY <2>2, <2>10, <2>11
<1>9. QED BY <1>7, <1>8

\* The code of a text is longer than the text.
LEMMA PlaceGrows ==
    ASSUME NEW S, NEW str, NEW first, NEW G, Lined(S, str, first, G), NEW x, NEW r, Place(first, G, x, r)
    PROVE  r >= 4 * x + 1
<1>1. G \in Nat /\ first \in [0..G -> Nat] /\ \A h \in 0..G : first[h] >= 4 * h + 1
  BY LinedFacts, FirstGrows
<1>2. x \in 0..G /\ (r = first[x] \/ (x > 0 /\ r = first[x - 1] + 4))
  BY DEF Place
<1>3. CASE r = first[x]
  BY <1>1, <1>2, <1>3
<1>4. CASE x > 0 /\ r = first[x - 1] + 4
  <2>1. x - 1 \in 0..G
    BY <1>1, <1>2, <1>4
  <2>2. PICK f \in Nat : f = first[x - 1] /\ f >= 4 * (x - 1) + 1
    BY <1>1, <2>1
  <2>3. QED BY <1>1, <1>2, <1>4, <2>2
<1>5. QED BY <1>2, <1>3, <1>4

LEMMA ShortText ==
    ASSUME NEW S, NEW str, NEW first, NEW G, Lined(S, str, first, G), NEW x, NEW r, Place(first, G, x, r),
           NEW m \in Nat, r <= m + 1
    PROVE  Upto(str, x) <= m /\ (m > 0 => Upto(str, x) < m)
<1>1. x \in Nat /\ r \in Nat
  <2>1. x \in 0..G /\ r \in Nat /\ G \in Nat
    BY PlaceKinds, LinedFacts
  <2>2. QED BY <2>1
<1>2. r >= 4 * x + 1
  BY PlaceGrows
<1>3. PICK n \in Nat : n = Len(str)
  BY LinedFacts
<1>4. Upto(str, x) <= 3 * x /\ Upto(str, x) \in Nat
  BY <1>1, <1>3 DEF Upto
<1>5. QED BY <1>1, <1>2, <1>4

-----------------------------------------------------------------------------
(* A packet of a text in base64. *)

\* memcpy(buf + dlen, p, tmplen).
LEMMA FilledFrom ==
    ASSUME Waits, NEW raw \in Str, NEW f, f = Filled(raw)
    PROVE  /\ f \in Str /\ dlen + Len(raw) <= Len(f)
           /\ \A i \in 1..dlen : f[i] = buf[i]
           /\ \A i \in 1..Len(raw) : f[dlen + i] = raw[i]
           /\ \A i \in 1..Len(f) : i > dlen + Len(raw) => i \in 1..Len(buf) /\ f[i] = buf[i]
<1>1. f \in Str /\ dlen + Len(raw) <= Len(f)
  BY FilledIs
<1>2. PICK b \in Nat, n \in Nat, l \in Nat : b = Len(buf) /\ n = Len(raw) /\ l = dlen /\ l <= b
  BY DEF Waits, Str
<1>3. PICK k \in Nat : k = Max({b, l + n}) /\ k = (IF b >= l + n THEN b ELSE l + n)
  <2>1. PICK c \in Int : c = l + n
    OBVIOUS
  <2>2. Max({b, c}) = IF b >= c THEN b ELSE c
    BY MaxOf
  <2>3. QED BY <2>1, <2>2
<1>4. f = [i \in 1..k |-> IF i \in l + 1 .. l + n THEN raw[i - l] ELSE buf[i]]
  BY <1>2, <1>3 DEF Filled
<1>5. k >= b /\ k >= l + n
  BY <1>3
<1>6. \A i \in 1..l : f[i] = buf[i]
  <2> TAKE i \in 1..l
  <2>1. i \in 1..k /\ i \notin l + 1 .. l + n
    BY <1>5
  <2>2. QED BY <1>4, <2>1
<1>7. \A i \in 1..n : f[l + i] = raw[i]
  <2> TAKE i \in 1..n
  <2>1. l + i \in 1..k /\ l + i \in l + 1 .. l + n /\ l + i - l = i
    BY <1>5
  <2>2. QED BY <1>4, <2>1
<1>8. Len(f) = k
  BY <1>1, <1>4 DEF Str
<1>9. \A i \in 1..k : i > l + n => i \in 1..b /\ f[i] = buf[i]
  <2> TAKE i \in 1..k
  <2> HAVE i > l + n
  <2>1. i \notin l + 1 .. l + n /\ i \in 1..b
    BY <1>3
  <2>2. QED BY <1>4, <2>1
<1>10. QED BY ONLY <1>1, <1>2, <1>6, <1>7, <1>8, <1>9

\* memmove(buf, buf + zlen - dlen, dlen).
MovedTo(w, f, zlen, left) ==
    /\ w \in Str /\ Len(w) = Len(f) /\ \A i \in 1..left : w[i] = f[i + zlen - left]
    /\ \A i \in 1..Len(w) : \E j \in 1..Len(f) : w[i] = f[j]

LEMMA MovedFrom ==
    ASSUME NEW f \in Str, NEW zlen \in Nat, zlen <= Len(f), NEW left \in Nat, left <= zlen,
           NEW w, w = MovedUp(f, zlen, left)
    PROVE  MovedTo(w, f, zlen, left)
<1>1. w \in Str /\ Len(w) = Len(f)
  BY MovedUpIs
<1>2. PICK n \in Nat : n = Len(f) /\ DOMAIN f = 1..n
  BY DEF Str
<1>3. w = [i \in 1..n |-> IF i <= left THEN f[i + zlen - left] ELSE f[i]]
  BY <1>2 DEF MovedUp
<1>4. \A i \in 1..left : w[i] = f[i + zlen - left]
  <2> TAKE i \in 1..left
  <2>1. i \in 1..n /\ i <= left
    BY <1>2
  <2>2. QED BY <1>3, <2>1
<1>5. \A i \in 1..n : \E j \in 1..n : w[i] = f[j]
  <2> TAKE i \in 1..n
  <2>1. CASE i <= left
    <3>1. i + zlen - left \in 1..n
      BY <1>2, <2>1
    <3>2. QED BY <1>3, <2>1, <3>1
  <2>2. CASE ~(i <= left)
    BY <1>3, <2>2
  <2>3. QED BY <2>1, <2>2
<1>6. QED BY <1>1, <1>2, <1>4, <1>5 DEF MovedTo

Has(b, c) == \E i \in 1..Len(b) : b[i] = c

\* A piece of what is sent.
PieceAt(raw, S, a, m) == raw \in Str /\ Len(raw) = m /\ \A i \in 1..m : raw[i] = S[a + i]

LEMMA PieceOf ==
    ASSUME NEW S \in Str, NEW a \in Nat, NEW m \in Nat, a + m <= Len(S), NEW raw, raw = SubSeq(S, a + 1, a + m)
    PROVE  PieceAt(raw, S, a, m)
<1>1. PICK b \in Nat : b = a + m /\ a <= b /\ b <= Len(S) /\ b - a = m
  OBVIOUS
<1>2. SubIs(S, a, b, SubSeq(S, a + 1, b))
  BY <1>1, SubFacts
<1>3. SubIs(S, a, b, raw)
  BY <1>1, <1>2
<1>4. QED BY <1>1, <1>3 DEF SubIs, PieceAt

\* At sent characters, the last left of them wait, and the rest are g groups.
AtGroup(W, first, G, g, came, left, waits) ==
    /\ came \in Nat /\ came <= Len(W) /\ left \in 0..3 /\ left <= came
    /\ Place(first, G, g, came + 1 - left)
    /\ \A i \in 1..left : waits[i] = W[came - left + i]

\* What becomes of it with the packet of the next m characters.
Taken(W, str, first, G, g, came, waits, raw, text, left, next) ==
    /\ \E x : AtGroup(W, first, G, x, came, left, next) /\ SubIs(str, Upto(str, g), Upto(str, x), text)
    /\ \A c : Has(next, c) => Has(waits, c) \/ Has(raw, c)

LEMMA WindowIs ==
    ASSUME Waits, NEW W \in Str, NEW first, NEW G, NEW g,
           AtGroup(W, first, G, g, sent, dlen, buf),
           NEW m \in Nat, sent + m <= Len(W), NEW raw, raw = SubSeq(W, sent + 1, sent + m),
           NEW f, f = Filled(raw)
    PROVE  Window(f, dlen + m, W, sent - dlen)
<1>1. PICK s \in Nat, l \in Nat : s = sent /\ l = dlen /\ l <= s /\ s + m <= Len(W)
  BY DEF AtGroup, Waits
<1>2. \A i \in 1..l : buf[i] = W[s - l + i]
  BY <1>1 DEF AtGroup
<1>4. raw \in Str /\ Len(raw) = m /\ \A i \in 1..m : raw[i] = W[s + i]
  <2>1. raw = SubSeq(W, s + 1, s + m) /\ m \in Nat
    BY <1>1
  <2>2. s + m <= Len(W) /\ s \in Nat
    BY <1>1
  <2>3. PieceAt(raw, W, s, m)
    BY <2>1, <2>2, PieceOf
  <2>4. QED BY ONLY <2>3 DEF PieceAt
<1>5. /\ f \in Str /\ dlen + Len(raw) <= Len(f) /\ (\A i \in 1..dlen : f[i] = buf[i])
      /\ \A i \in 1..Len(raw) : f[dlen + i] = raw[i]
  BY <1>4, FilledFrom
<1>6. f \in Str /\ l + m <= Len(f) /\ (\A i \in 1..l : f[i] = buf[i]) /\ \A i \in 1..m : f[l + i] = raw[i]
  BY ONLY <1>1, <1>4, <1>5
<1>7. PICK u \in Nat : u = s - l /\ u + l = s /\ u + (l + m) <= Len(W)
  <2>1. s - l \in Nat /\ s - l + l = s /\ Len(W) \in Nat
    BY <1>1 DEF Str
  <2>2. QED BY <1>1, <2>1
<1>8. \A i \in 1..(l + m) : f[i] = W[u + i]
  <2> TAKE i \in 1..(l + m)
  <2>1. CASE i <= l
    BY <1>2, <1>6, <1>7, <2>1
  <2>2. CASE i > l
    <3>1. PICK j \in 1..m : i = l + j
      <4>1. i - l \in 1..m /\ i = l + (i - l)
        BY <2>2
      <4>2. QED BY <4>1
    <3>2. s + j = u + i
      BY <1>7, <3>1
    <3>3. QED BY <1>4, <1>6, <3>1, <3>2
  <2>3. QED BY <2>1, <2>2
<1>9. Window(f, l + m, W, u)
  BY <1>6, <1>7, <1>8 DEF Window
<1>10. QED BY <1>1, <1>4, <1>7, <1>9

\* What waits comes from what waited, or from the packet.
LEMMA WaitsFrom ==
    ASSUME Waits, NEW raw \in Str, NEW left \in Nat, left <= dlen + Len(raw),
           NEW w, w = MovedUp(Filled(raw), dlen + Len(raw), left)
    PROVE  \A c : Has(w, c) => Has(buf, c) \/ Has(raw, c)
<1> TAKE c
<1> HAVE Has(w, c)
<1>0. PICK f : f = Filled(raw)
  OBVIOUS
<1>1. PICK l \in Nat, m \in Nat, z \in Nat :
        l = dlen /\ m = Len(raw) /\ z = l + m /\ z = dlen + Len(raw) /\ l <= Len(buf)
  <2>1. dlen \in Nat /\ Len(raw) \in Nat /\ dlen <= Len(buf)
    BY DEF Waits, Str
  <2>2. dlen + Len(raw) \in Nat
    BY <2>1
  <2>3. QED BY <2>1, <2>2
<1>2. /\ f \in Str /\ z <= Len(f) /\ (\A i \in 1..l : f[i] = buf[i]) /\ (\A i \in 1..m : f[l + i] = raw[i])
      /\ \A i \in 1..Len(f) : i > z => i \in 1..Len(buf) /\ f[i] = buf[i]
  BY <1>0, <1>1, FilledFrom
<1>3. MovedTo(w, f, z, left)
  BY <1>0, <1>1, <1>2, MovedFrom
<1>4. PICK j \in 1..Len(f) : f[j] = c
  BY <1>3 DEF MovedTo, Has
<1>5. CASE j > z
  BY <1>2, <1>4, <1>5 DEF Has
<1>6. CASE j <= l
  <2>1. Len(f) \in Nat /\ Len(buf) \in Nat
    BY <1>2 DEF Waits, Str
  <2>2. j \in 1..l /\ j \in 1..Len(buf)
    BY <1>1, <1>6, <2>1
  <2>3. QED BY <1>2, <1>4, <2>2 DEF Has
<1>7. CASE j > l /\ j <= z
  <2>1. PICK i \in 1..m : j = l + i
    <3>1. j - l \in 1..m /\ j = l + (j - l)
      BY <1>1, <1>7
    <3>2. QED BY <3>1
  <2>2. raw[i] = c
    BY <1>2, <1>4, <2>1
  <2>3. QED BY <1>1, <2>1, <2>2 DEF Has
<1>8. Len(f) \in Nat
  BY <1>2 DEF Str
<1>9. QED BY <1>1, <1>5, <1>6, <1>7, <1>8

LEMMA CodePacket ==
    ASSUME Waits, NEW W, NEW S, Followed(W, S),
           NEW str, NEW first, NEW G, Lined(S, str, first, G), NEW g,
           AtGroup(W, first, G, g, sent, dlen, buf),
           NEW m \in Nat, sent + m <= Len(W), sent + m <= Len(S) + 3,
           NEW raw, raw = SubSeq(W, sent + 1, sent + m),
           NEW D, D = base64_decode_stream(Filled(raw), dlen + m)
    PROVE  \/ D.clen < 0 /\ Len(str) % 3 = 2 /\ Has(buf, EQUAL) /\ sent < Len(S)
           \/ D.clen >= 0 /\ Taken(W, str, first, G, g, sent + m, buf, raw, D.out, D.clen,
                                   MovedUp(Filled(raw), dlen + m, D.clen))
<1>1. PICK f : f = Filled(raw)
  OBVIOUS
<1>2. PICK s \in Nat, l \in Nat : s = sent /\ l = dlen /\ l <= s
  BY DEF AtGroup, Waits
<1>3. Window(f, l + m, W, s - l) /\ Len(raw) = m /\ raw \in Str
  <2>1. m \in Nat /\ W \in Str
    BY DEF Followed
  <2>2. Window(f, dlen + m, W, sent - dlen)
    BY <1>1, <2>1, WindowIs
  <2>3. s + m <= Len(W) /\ raw = SubSeq(W, s + 1, s + m)
    BY <1>2
  <2>4. PieceAt(raw, W, s, m)
    BY <2>1, <2>3, PieceOf
  <2>5. QED BY ONLY <1>2, <2>2, <2>4 DEF PieceAt
<1>4. PICK z \in Nat, u \in Nat : z = l + m /\ u = s - l
  BY <1>2
<1>5. Window(f, z, W, u)
  BY <1>3, <1>4
<1>0. Sees(f, z, W, S, u)
  <2>1. u + z = s + m
    BY <1>2, <1>4
  <2>2. s + m <= Len(S) + 3
    BY <1>2
  <2>3. QED BY <1>5, <2>1, <2>2 DEF Sees
<1>6. Place(first, G, g, u + 1)
  <2>1. sent + 1 - dlen = u + 1
    BY <1>2, <1>4
  <2>2. QED BY <2>1 DEF AtGroup
<1>7. Outcome(f, z, str, first, G, u, g, D)
  <2>1. D = base64_decode_stream(f, z)
    BY <1>1, <1>2, <1>4
  <2>2. QED BY <1>0, <1>6, <2>1, StreamOutcome
<1>8. f \in Str /\ z <= Len(f) /\ (\A i \in 1..z : f[i] = W[u + i]) /\ u + z <= Len(W)
  BY <1>5 DEF Window
<1>9. \A i \in 1..Len(f) : i > z => i \in 1..Len(buf) /\ f[i] = buf[i]
  <2>1. \A i \in 1..Len(f) : i > dlen + Len(raw) => i \in 1..Len(buf) /\ f[i] = buf[i]
    BY ONLY <1>1, <1>3, FilledFrom, Waits
  <2>2. dlen + Len(raw) = z
    BY <1>2, <1>3, <1>4
  <2>3. QED BY <2>1, <2>2
<1>10. CASE D.clen < 0 /\ Len(str) % 3 = 2 /\ u + 4 < first[G] /\ \E i \in (z + 1)..Len(f) : f[i] = EQUAL
  <2>1. PICK i \in (z + 1)..Len(f) : f[i] = EQUAL
    BY <1>10
  <2>2. i \in 1..Len(f) /\ i > z
    <3>1. Len(f) \in Nat
      BY <1>8 DEF Str
    <3>2. QED BY <3>1
  <2>3. Has(buf, EQUAL)
    BY <1>9, <2>1, <2>2 DEF Has
  <2>4. sent < Len(S)
    <3>1. first[G] = Len(S) + 1 /\ Len(S) \in Nat
      BY LinedFacts DEF Lined
    <3>2. dlen \in 0..3
      BY DEF AtGroup
    <3>3. QED BY <1>2, <1>4, <1>10, <3>1, <3>2
  <2>5. QED BY <1>10, <2>3, <2>4
<1>11. ASSUME NEW x \in g..G, NEW r, Place(first, G, x, r), D.clen \in 0..3, D.clen <= z,
              u + 1 + z - D.clen = r, SubIs(str, Upto(str, g), Upto(str, x), D.out)
       PROVE  D.clen >= 0 /\ Taken(W, str, first, G, g, sent + m, buf, raw, D.out, D.clen,
                                   MovedUp(Filled(raw), dlen + m, D.clen))
  <2>1. PICK left \in 0..3 : left = D.clen
    BY <1>11
  <2>2. PICK w : w = MovedUp(f, z, left)
    OBVIOUS
  <2>3. /\ w \in Str /\ Len(w) = Len(f) /\ (\A i \in 1..left : w[i] = f[i + z - left])
        /\ \A i \in 1..Len(w) : \E j \in 1..Len(f) : w[i] = f[j]
    <3>1. left \in Nat /\ left <= z
      BY <1>11, <2>1
    <3>2. f \in Str /\ z \in Nat /\ z <= Len(f)
      BY <1>8
    <3>3. MovedTo(w, f, z, left)
      BY <2>2, <3>1, <3>2, MovedFrom
    <3>4. QED BY ONLY <3>3 DEF MovedTo
  <2>4. PICK t \in Nat : t = s + m /\ t = u + z
    <3>1. s + m = u + z /\ s + m \in Nat
      BY <1>2, <1>4
    <3>2. QED BY <3>1
  <2>5. AtGroup(W, first, G, x, t, left, w)
    <3>1. t <= Len(W) /\ left <= t /\ t + 1 - left = r
      <4>1. left <= z /\ left \in Nat /\ u + 1 + z - left = r
        BY <1>11, <2>1
      <4>2. u + z <= Len(W) /\ t = u + z /\ u \in Nat /\ z \in Nat
        BY <1>8, <2>4
      <4>3. QED BY ONLY <4>1, <4>2
    <3>2. \A i \in 1..left : w[i] = W[t - left + i]
      <4> TAKE i \in 1..left
      <4>1. i + z - left \in 1..z /\ u + (i + z - left) = t - left + i
        <5>1. left <= z /\ t = u + z
          BY ONLY <1>11, <2>1, <2>4
        <5>2. QED BY <5>1
      <4>2. QED BY <1>8, <2>3, <4>1
    <3>3. QED BY <1>11, <3>1, <3>2 DEF AtGroup
  <2>6. \A c : Has(w, c) => Has(buf, c) \/ Has(raw, c)
    <3>1. dlen + Len(raw) = z /\ left \in Nat /\ left <= z
      <4>1. dlen + Len(raw) = z
        BY ONLY <1>2, <1>3, <1>4
      <4>2. left \in Nat /\ left <= z
        BY ONLY <1>11, <2>1
      <4>3. QED BY ONLY <4>1, <4>2
    <3>2. w = MovedUp(Filled(raw), dlen + Len(raw), left)
      BY <1>1, <2>2, <3>1
    <3>3. left <= dlen + Len(raw)
      BY ONLY <3>1
    <3>4. QED BY ONLY Waits, <1>3, <3>1, <3>2, <3>3, WaitsFrom
  <2>7. Taken(W, str, first, G, g, t, buf, raw, D.out, D.clen, w)
    BY <1>11, <2>1, <2>5, <2>6 DEF Taken
  <2>8. w = MovedUp(Filled(raw), dlen + m, D.clen) /\ t = sent + m /\ D.clen >= 0
    BY <1>1, <1>2, <1>4, <2>1, <2>2, <2>4
  <2>9. QED BY <2>7, <2>8
<1>12. QED BY <1>7, <1>10, <1>11 DEF Outcome

-----------------------------------------------------------------------------
(* What is kept of a part. *)

\* The first k characters of str, and the end of the string behind them.
CutAt(kept, str, k) ==
    /\ kept \in Str /\ k \in Nat /\ k <= Len(str) /\ k < Len(kept)
    /\ kept[k + 1] = NUL /\ \A i \in 1..k : kept[i] = str[i]

\* How a part is sent.
StreamAs(code, S, str, kind) ==
    /\ str \in Seq(1..127)
    /\ \/ code = "none" /\ S = str
       \/ code = "url" /\ S = Escaped(str, PERCENT, 65) /\ kind = "form"
       \/ code = "base64" /\ S = Lines(base64_encode(str))

\* kept begins with str.
Begun(str, kept) ==
    str \in Str /\ kept \in Str /\ Len(str) <= Len(kept) /\ \A i \in 1..Len(str) : kept[i] = str[i]

\* What is kept when came characters of what is sent came.  Behind the text, in
\* a packet in which the end is not found, other things follow it.
PlainKept(W, S, str, came, left, kept) == S = str /\ left = 0 /\ SubIs(W, 0, came, kept)
FormKept(S, str, kind, came, left, kept) ==
    /\ kind = "form" /\ left = 0 /\ EscapedAs(S, str, PERCENT, 65, Len(str)) /\ came \in Nat
    /\ \/ \E q \in Nat : came = 3 * q /\ SubIs(str, 0, q, kept)
       \/ came > Len(S) /\ Begun(str, kept)
GroupsKept(str, kind, g, came, kept) ==
    IF kind = "text" THEN (came = 0 /\ kept = << >>) \/ \E k : CutAt(kept, str, k)
    ELSE SubIs(str, 0, Upto(str, g), kept)
CodeKept(W, S, str, kind, came, left, waits, kept) ==
    \E first, G, g : /\ Lined(S, str, first, G) /\ AtGroup(W, first, G, g, came, left, waits)
                     /\ came <= Len(S) + 3 /\ GroupsKept(str, kind, g, came, kept)
\* All of the boundary is behind the text, and half of it waits.
CodeOver(S, str, kind, came, left, kept) ==
    /\ \E first, G : Lined(S, str, first, G)
    /\ kind # "text" /\ came = Len(S) + 4 /\ left = 2 /\ kept = str
PartKept(code, W, S, str, kind, came, left, waits, kept) ==
    /\ str \in Seq(1..127) /\ Followed(W, S) /\ came \in Nat /\ came <= Len(W) /\ (kind = "text" => W = S)
    /\ \/ code = "none" /\ PlainKept(W, S, str, came, left, kept)
       \/ code = "url" /\ FormKept(S, str, kind, came, left, kept)
       \/ /\ code = "base64"
          /\ \/ CodeKept(W, S, str, kind, came, left, waits, kept)
             \/ CodeOver(S, str, kind, came, left, kept)

LEMMA KeptStart ==
    ASSUME NEW code, NEW S, NEW str, NEW kind, StreamAs(code, S, str, kind), NEW waits,
           NEW W, Followed(W, S), kind = "text" => W = S
    PROVE  PartKept(code, W, S, str, kind, 0, 0, waits, << >>)
<1>1. str \in Seq(1..127) /\ str \in Str /\ Len(str) \in Nat
  BY TextStr DEF StreamAs
<1>2. SubIs(str, 0, 0, << >>)
  BY <1>1, NoneIs
<1>0. W \in Str /\ 0 \in Nat /\ 0 <= Len(W) /\ SubIs(W, 0, 0, << >>)
  <2>1. W \in Str /\ 0 \in Nat /\ 0 <= Len(W)
    BY DEF Followed, Str
  <2>2. QED BY <2>1, NoneIs
<1>3. CASE code = "none"
  BY <1>0, <1>1, <1>3 DEF StreamAs, PartKept, PlainKept
<1>4. CASE code = "url"
  <2>1. S = Escaped(str, PERCENT, 65) /\ kind = "form"
    BY <1>4 DEF StreamAs
  <2>2. EscapedAs(S, str, PERCENT, 65, Len(str))
    <3>1. PICK p \in Int, ten \in {65, 97} : p = PERCENT /\ ten = 65
      BY DEF PERCENT
    <3>2. EscapedAs(Escaped(str, p, ten), str, p, ten, Len(str))
      BY <1>1, EscapedAt
    <3>3. QED BY ONLY <2>1, <3>1, <3>2
  <2>3. 0 = 3 * 0 /\ 0 \in Nat
    OBVIOUS
  <2>4. FormKept(S, str, kind, 0, 0, << >>)
    BY <1>2, <2>1, <2>2, <2>3 DEF FormKept
  <2>5. QED BY <1>0, <1>1, <1>4, <2>4 DEF PartKept
<1>5. CASE code = "base64"
  <2>1. S = Lines(base64_encode(str))
    BY <1>5 DEF StreamAs
  <2>2. PICK first, G : Lined(S, str, first, G)
    BY <1>1, <2>1, LinesAt
  <2>3. S \in Str /\ G \in Nat /\ Len(S) \in Nat /\ first[0] = 1
    BY <2>2, LinedFacts DEF Lined
  <2>4. Place(first, G, 0, 0 + 1 - 0)
    BY <2>3 DEF Place
  <2>5. AtGroup(W, first, G, 0, 0, 0, waits) /\ 0 <= Len(S) + 3
    BY <1>0, <2>3, <2>4 DEF AtGroup
  <2>6. Upto(str, 0) = 0
    BY <1>1 DEF Upto
  <2>7. GroupsKept(str, kind, 0, 0, << >>)
    BY <1>2, <2>6 DEF GroupsKept
  <2>8. CodeKept(W, S, str, kind, 0, 0, waits, << >>)
    BY <2>2, <2>5, <2>7 DEF CodeKept
  <2>9. QED BY <1>0, <1>1, <1>5, <2>8 DEF PartKept
<1>6. QED BY <1>3, <1>4, <1>5 DEF StreamAs

\* The beginning of a text.
LEMMA SubBegins ==
    ASSUME NEW str \in Seq(1..127), NEW b \in Nat, NEW x, SubIs(str, 0, b, x)
    PROVE  CString(x) = x /\ IsPrefix(x, str) /\ (b = Len(str) => x = str)
<1>1. /\ str \in Str /\ b <= Len(str) /\ x \in Str /\ Len(x) = b - 0
      /\ \A i \in 1..(b - 0) : x[i] = str[0 + i]
  BY DEF SubIs
<1>2. b - 0 = b /\ \A i \in 1..b : 0 + i = i
  OBVIOUS
<1>3. Len(x) = b /\ \A i \in 1..b : x[i] = str[i]
  BY ONLY <1>1, <1>2
<1>4. PICK n \in Nat : n = Len(str) /\ b <= n
  BY <1>1
<1>5. Free(x, NUL)
  <2>1. \A i \in 1..n : str[i] # NUL
    BY <1>4, TextFree DEF Free
  <2>2. \A i \in 1..b : i \in 1..n
    BY <1>4
  <2>3. QED BY ONLY <1>3, <2>1, <2>2 DEF Free
<1>6. CString(x) = x
  BY <1>1, <1>5, WholeString
<1>7. SubSeq(str, 1, b) = x
  <2>1. PICK a \in Nat : a = 0 /\ a <= b /\ a + 1 = 1
    OBVIOUS
  <2>2. x = SubSeq(str, a + 1, b)
    BY <2>1, SubOnly
  <2>3. QED BY <2>1, <2>2
<1>8. SubSeq(x, 1, b) = x
  <2>1. PICK a \in Nat : a = 0 /\ a <= b /\ a + 1 = 1 /\ b - a = b /\ \A i \in 1..b : a + i = i
    OBVIOUS
  <2>2. b <= Len(x)
    BY <1>3
  <2>3. SubIs(x, a, b, x)
    BY <1>1, <1>3, <2>1, <2>2 DEF SubIs
  <2>4. x = SubSeq(x, a + 1, b)
    BY <2>3, SubOnly
  <2>5. QED BY ONLY <2>1, <2>4
<1>9. IsPrefix(x, str)
  BY <1>3, <1>4, <1>7, <1>8 DEF IsPrefix
<1>10. b = Len(str) => x = str
  <2> HAVE b = Len(str)
  <2>1. Len(x) = Len(str) /\ \A i \in 1..Len(x) : x[i] = str[i]
    BY <1>3
  <2>2. QED BY <1>1, <2>1, StrEqual
<1>11. QED BY <1>6, <1>9, <1>10

LEMMA CutBegins ==
    ASSUME NEW str \in Seq(1..127), NEW s, NEW k, CutAt(s, str, k)
    PROVE  IsPrefix(CString(s), str)
<1>1. /\ s \in Str /\ k \in Nat /\ k <= Len(str) /\ k < Len(s)
      /\ s[k + 1] = NUL /\ \A i \in 1..k : s[i] = str[i]
  BY DEF CutAt
<1>2. str \in Str
  BY TextStr
<1>3. PICK name : name = SubSeq(str, 0 + 1, k)
  OBVIOUS
<1>4. SubIs(str, 0, k, name)
  <2>1. PICK a \in Nat : a = 0 /\ a <= k
    BY <1>1
  <2>2. SubIs(str, a, k, SubSeq(str, a + 1, k))
    BY <1>1, <1>2, <2>1, SubFacts
  <2>3. QED BY <1>3, <2>1, <2>2
<1>5. /\ name \in Str /\ Len(name) = k - 0 /\ \A i \in 1..(k - 0) : name[i] = str[0 + i]
  BY <1>4 DEF SubIs
<1>6. k - 0 = k /\ \A i \in 1..k : 0 + i = i
  BY <1>1
<1>7. Len(name) = k /\ \A i \in 1..k : name[i] = str[i]
  BY ONLY <1>5, <1>6
<1>8. PICK n \in Nat, l \in Nat : n = Len(str) /\ l = Len(s) /\ k <= n /\ k + 1 <= l
  <2>1. Len(s) \in Nat /\ Len(str) \in Nat
    BY <1>1, <1>2 DEF Str
  <2>2. QED BY <1>1, <2>1
<1>9. Free(name, NUL)
  <2>1. \A i \in 1..n : str[i] # NUL
    BY <1>8, TextFree DEF Free
  <2>2. \A i \in 1..k : i \in 1..n
    BY <1>1, <1>8
  <2>3. QED BY ONLY <1>7, <2>1, <2>2 DEF Free
<1>10. CString(s) = name
  <2>1. \A i \in 1..k : s[i] = name[i]
    BY <1>1, <1>7
  <2>2. QED BY <1>1, <1>5, <1>7, <1>8, <1>9, <2>1, CutAtZero
<1>11. IsPrefix(name, str)
  BY <1>1, <1>4, SubBegins
<1>12. QED BY <1>10, <1>11

LEMMA BegunPrefix ==
    ASSUME NEW str, NEW kept, Begun(str, kept)
    PROVE  IsPrefix(str, kept)
<1>1. PICK n \in Nat, l \in Nat : n = Len(str) /\ l = Len(kept) /\ n <= l /\ str \in Str /\ kept \in Str
  BY DEF Begun, Str
<1>2. \A i \in 1..n : kept[i] = str[i]
  BY <1>1 DEF Begun
<1>3. PICK a \in Nat : a = 0 /\ a <= n /\ n - a = n /\ a + 1 = 1 /\ \A i \in 1..n : a + i = i
  OBVIOUS
<1>4. SubIs(kept, a, n, str) /\ SubIs(str, a, n, str)
  BY <1>1, <1>2, <1>3 DEF SubIs
<1>5. str = SubSeq(kept, a + 1, n) /\ str = SubSeq(str, a + 1, n)
  BY <1>4, SubOnly
<1>6. str = SubSeq(kept, 1, n) /\ str = SubSeq(str, 1, n)
  BY ONLY <1>3, <1>5
<1>7. QED BY <1>1, <1>6 DEF IsPrefix

\* What is appended does not change the beginning.
LEMMA StaysBegun ==
    ASSUME NEW str, NEW kept, Begun(str, kept), NEW app \in Str
    PROVE  Begun(str, kept \o app)
<1>1. PICK n \in Nat, l \in Nat, k \in Nat : n = Len(str) /\ l = Len(kept) /\ k = Len(app) /\ n <= l
  BY DEF Begun, Str
<1>2. PICK w : w = kept \o app
  OBVIOUS
<1>3. w \in Str /\ Len(w) = l + k /\ \A i \in 1..l : w[i] = kept[i]
  <2>1. kept \in Str
    BY DEF Begun
  <2>2. QED BY <1>1, <1>2, <2>1, ConcatAt
<1>4. \A i \in 1..n : w[i] = str[i]
  <2>1. \A i \in 1..n : i \in 1..l /\ kept[i] = str[i]
    BY <1>1 DEF Begun
  <2>2. QED BY ONLY <1>3, <2>1
<1>5. n <= Len(w)
  BY <1>1, <1>3
<1>6. Begun(str, w)
  BY <1>1, <1>3, <1>4, <1>5 DEF Begun
<1>7. QED BY <1>2, <1>6

\* What came of W in front of its end S, and behind it.
LEMMA SubOfText ==
    ASSUME NEW W, NEW S, Followed(W, S), NEW came, NEW kept, SubIs(W, 0, came, kept)
    PROVE  /\ came \in Nat
           /\ came <= Len(S) => SubIs(S, 0, came, kept)
           /\ came >= Len(S) => Begun(S, kept)
<1>1. /\ W \in Str /\ came \in Nat /\ came <= Len(W) /\ kept \in Str /\ Len(kept) = came - 0
      /\ \A i \in 1..(came - 0) : kept[i] = W[0 + i]
  BY DEF SubIs
<1>2. came - 0 = came /\ \A i \in 1..came : 0 + i = i
  BY <1>1
<1>3. Len(kept) = came /\ \A i \in 1..came : kept[i] = W[i]
  BY ONLY <1>1, <1>2
<1>4. PICK n \in Nat : n = Len(S) /\ S \in Str /\ \A i \in 1..n : W[i] = S[i]
  BY DEF Followed, Str
<1>5. came <= n => SubIs(S, 0, came, kept)
  <2> HAVE came <= n
  <2>1. \A i \in 1..came : kept[i] = S[i]
    <3>1. \A i \in 1..came : i \in 1..n
      BY <1>1
    <3>2. QED BY ONLY <1>3, <1>4, <3>1
  <2>2. \A i \in 1..(came - 0) : kept[i] = S[0 + i]
    BY ONLY <1>2, <2>1
  <2>3. QED BY <1>1, <1>4, <2>2 DEF SubIs
<1>6. came >= n => Begun(S, kept)
  <2> HAVE came >= n
  <2>1. \A i \in 1..n : i \in 1..came
    BY <1>1
  <2>2. \A i \in 1..n : kept[i] = S[i]
    BY ONLY <1>3, <1>4, <2>1
  <2>3. QED BY <1>1, <1>3, <1>4, <2>2 DEF Begun
<1>7. QED BY <1>1, <1>4, <1>5, <1>6

\* When all the text came, all its groups are decoded.
LEMMA AllGroups ==
    ASSUME NEW W, NEW S, NEW str, NEW first, NEW G, Lined(S, str, first, G),
           NEW g, NEW came, NEW left, NEW waits, AtGroup(W, first, G, g, came, left, waits), came >= Len(S)
    PROVE  g = G /\ came + 1 - left = Len(S) + 1 /\ Upto(str, g) = Len(str)
<1>1. left \in 0..3 /\ came \in Nat /\ Place(first, G, g, came + 1 - left)
  BY DEF AtGroup
<1>2. /\ G \in Nat /\ first \in [0..G -> Nat] /\ first[G] = Len(S) + 1
      /\ \A h \in 0..(G - 1) : first[h] + 4 <= Len(S) + 1
  <2>1. G \in Nat /\ first \in [0..G -> Nat] /\ first[G] = Len(S) + 1
    BY DEF Lined
  <2>2. \A h \in 0..(G - 1) : first[h] + 4 <= Len(S) + 1
    BY FirstGrows
  <2>3. QED BY <2>1, <2>2
<1>3. PICK l \in Nat, n \in Nat : l = Len(S) /\ n = Len(str)
  BY LinedFacts
<1>4. PICK r \in Nat : r = came + 1 - left /\ Place(first, G, g, r) /\ r + 3 >= l + 1
  <2>1. came + 1 - left + 3 >= l + 1
    BY <1>1, <1>3
  <2>2. came + 1 - left \in Nat
    BY <1>1, PlaceKinds
  <2>3. QED BY <1>1, <2>1, <2>2
<1>5. g \in 0..G /\ (r = first[g] \/ (g \in 1..(G - 1) /\ first[g] = r + 2))
  BY <1>4, PlaceKinds
<1>6. g = G
  <2>1. SUFFICES ASSUME g \in 0..(G - 1) PROVE FALSE
    BY <1>2, <1>5
  <2>2. PICK f \in Nat : f = first[g] /\ f + 4 <= l + 1
    <3>1. first[g] \in Nat
      BY <1>2, <1>5
    <3>2. first[g] + 4 <= Len(S) + 1
      BY <1>2, <2>1
    <3>3. QED BY <1>3, <3>1, <3>2
  <2>3. r <= f
    BY <1>4, <1>5, <2>2
  <2>4. QED BY <1>4, <2>2, <2>3
<1>7. r = Len(S) + 1
  BY <1>2, <1>5, <1>6
<1>8. Upto(str, G) = n
  <2>1. n <= 3 * G
    BY <1>3 DEF Lined
  <2>2. QED BY <1>2, <1>3, <2>1 DEF Upto
<1>9. QED BY <1>3, <1>4, <1>6, <1>7, <1>8

\* What TextRight says of a part.
PartRight(code, S, str, kind, came, left, kept) ==
    /\ left \in 0..3
    /\ IF came <= Len(S)
       THEN /\ IsPrefix(CString(kept), str)
            /\ came = Len(S) /\ (kind # "text" \/ code = "none") => kept = str
       ELSE IsPrefix(str, kept)

LEMMA KeptRight ==
    ASSUME NEW code, NEW W, NEW S, NEW str, NEW kind, NEW came, NEW left, NEW waits, NEW kept,
           PartKept(code, W, S, str, kind, came, left, waits, kept)
    PROVE  PartRight(code, S, str, kind, came, left, kept)
<1>1. str \in Seq(1..127) /\ str \in Str /\ Followed(W, S) /\ came \in Nat /\ came <= Len(W)
  BY TextStr DEF PartKept
<1>2. PICK n \in Nat, l \in Nat : n = Len(str) /\ l = Len(S)
  BY <1>1 DEF Followed, Str
<1>3. \A b : \A x : SubIs(str, 0, b, x) => /\ CString(x) = x /\ IsPrefix(x, str) /\ (b = n => x = str)
  <2> TAKE b
  <2> TAKE x
  <2> HAVE SubIs(str, 0, b, x)
  <2>1. b \in Nat
    BY DEF SubIs
  <2>2. QED BY <1>1, <1>2, <2>1, SubBegins
<1>4. CASE code = "none" /\ PlainKept(W, S, str, came, left, kept)
  <2>1. S = str /\ left = 0 /\ SubIs(W, 0, came, kept)
    BY <1>4 DEF PlainKept
  <2>2. came <= Len(S) => SubIs(str, 0, came, kept)
    BY <1>1, <2>1, SubOfText
  <2>3. ~(came <= Len(S)) => IsPrefix(str, kept)
    <3> HAVE ~(came <= Len(S))
    <3>1. came >= Len(S)
      BY <1>1, <1>2
    <3>2. Begun(str, kept)
      BY <1>1, <2>1, <3>1, SubOfText
    <3>3. QED BY <3>2, BegunPrefix
  <2>4. QED BY <1>2, <1>3, <2>1, <2>2, <2>3 DEF PartRight
<1>5. CASE code = "url" /\ FormKept(S, str, kind, came, left, kept)
  <2>1. Len(S) = 3 * n /\ left = 0
    BY <1>2, <1>5 DEF FormKept, EscapedAs
  <2>2. CASE \E q \in Nat : came = 3 * q /\ SubIs(str, 0, q, kept)
    <3>1. PICK q \in Nat : came = 3 * q /\ SubIs(str, 0, q, kept)
      BY <2>2
    <3>2. q <= n
      BY <1>2, <3>1 DEF SubIs
    <3>3. came <= Len(S) /\ (came = Len(S) => q = n)
      BY <2>1, <3>1, <3>2
    <3>4. QED BY <1>3, <2>1, <3>1, <3>3 DEF PartRight
  <2>3. CASE came > Len(S) /\ Begun(str, kept)
    <3>1. ~(came <= Len(S)) /\ IsPrefix(str, kept)
      BY <1>1, <1>2, <2>3, BegunPrefix
    <3>2. QED BY <2>1, <3>1 DEF PartRight
  <2>4. QED BY <1>5, <2>2, <2>3 DEF FormKept
<1>6. CASE code = "base64" /\ CodeKept(W, S, str, kind, came, left, waits, kept)
  <2>1. PICK first, G, g : /\ Lined(S, str, first, G) /\ AtGroup(W, first, G, g, came, left, waits)
                           /\ GroupsKept(str, kind, g, came, kept)
    BY <1>6 DEF CodeKept
  <2>2. left \in 0..3
    BY <2>1 DEF AtGroup
  <2>3. CASE kind = "text"
    <3>1. code # "none" /\ came <= Len(S)
      BY <1>1, <1>6, <2>3 DEF PartKept
    <3>2. IsPrefix(CString(kept), str)
      <4>1. CASE kept = << >>
        <5>1. 0 \in Nat /\ 0 <= Len(str)
          BY <1>2
        <5>2. SubIs(str, 0, 0, << >>)
          BY <1>1, <5>1, NoneIs
        <5>3. QED BY <1>3, <4>1, <5>2
      <4>2. CASE \E k : CutAt(kept, str, k)
        BY <1>1, <4>2, CutBegins
      <4>3. QED BY <2>1, <2>3, <4>1, <4>2 DEF GroupsKept
    <3>3. QED BY <2>2, <2>3, <3>1, <3>2 DEF PartRight
  <2>4. CASE kind # "text"
    <3>1. SubIs(str, 0, Upto(str, g), kept)
      BY <2>1, <2>4 DEF GroupsKept
    <3>2. came >= Len(S) => kept = str
      <4> HAVE came >= Len(S)
      <4>1. Upto(str, g) = n
        BY <1>2, <2>1, AllGroups
      <4>2. QED BY <1>3, <3>1, <4>1
    <3>3. CASE came <= Len(S)
      <4>1. came = Len(S) => came >= Len(S)
        BY <1>1
      <4>2. QED BY <1>3, <2>2, <3>1, <3>2, <3>3, <4>1 DEF PartRight
    <3>4. CASE ~(came <= Len(S))
      <4>1. kept = str
        BY <1>1, <1>2, <3>2, <3>4
      <4>2. Begun(str, kept)
        BY <1>1, <1>2, <4>1 DEF Begun
      <4>3. QED BY <2>2, <3>4, <4>2, BegunPrefix DEF PartRight
    <3>5. QED BY <3>3, <3>4
  <2>5. QED BY <2>3, <2>4
<1>7. CASE code = "base64" /\ CodeOver(S, str, kind, came, left, kept)
  <2>1. left = 2 /\ kept = str /\ ~(came <= Len(S))
    BY <1>2, <1>7 DEF CodeOver
  <2>2. Begun(str, kept)
    BY <1>1, <1>2, <2>1 DEF Begun
  <2>3. QED BY <2>1, <2>2, BegunPrefix DEF PartRight
<1>8. QED BY <1>4, <1>5, <1>6, <1>7 DEF PartKept

-----------------------------------------------------------------------------
(* A packet of each encoding.                                                *)

\* What is appended.
Appends(kind, text, m) == IF kind = "text" THEN [i \in 1..m |-> At(text, i)] ELSE text

Padded(app, text, m) ==
    app \in Str /\ Len(app) = m /\ \A i \in 1..m : app[i] = IF i <= Len(text) THEN text[i] ELSE NUL

LEMMA ZerosBehind ==
    ASSUME NEW text \in Str, NEW m \in Nat, NEW app, app = [i \in 1..m |-> At(text, i)]
    PROVE  Padded(app, text, m)
<1>1. PICK l \in Nat : l = Len(text) /\ DOMAIN text = 1..l
  BY DEF Str
<1>2. \A i \in 1..m : At(text, i) = (IF i <= l THEN text[i] ELSE NUL) /\ At(text, i) \in Int
  <2> TAKE i \in 1..m
  <2>1. CASE i <= l
    <3>1. i \in 1..l
      BY <2>1
    <3>2. At(text, i) = text[i]
      BY <1>1, <3>1 DEF At
    <3>3. text[i] \in Int
      BY <1>1, <3>1, ElementOfSeq DEF Str
    <3>4. QED BY <2>1, <3>2, <3>3
  <2>2. CASE ~(i <= l)
    <3>1. i \notin 1..l
      BY <2>2
    <3>2. At(text, i) = NUL
      BY <1>1, <3>1 DEF At
    <3>3. QED BY <2>2, <3>2 DEF NUL
  <2>3. QED BY <2>1, <2>2
<1>3. app \in [1..m -> Int] /\ \A i \in 1..m : app[i] = IF i <= l THEN text[i] ELSE NUL
  BY <1>2
<1>4. app \in Str /\ Len(app) = m
  BY <1>3 DEF Str
<1>5. QED BY <1>1, <1>3, <1>4 DEF Padded

LEMMA PlainPacket ==
    ASSUME NEW W \in Str, NEW S, NEW str, NEW kind, NEW came, NEW left, NEW kept,
           PlainKept(W, S, str, came, left, kept), NEW m \in Nat, came + m <= Len(W),
           NEW raw, raw = SubSeq(W, came + 1, came + m), NEW app, app = Appends(kind, raw, m)
    PROVE  PlainKept(W, S, str, came + m, left, kept \o app)
<1>1. S = str /\ left = 0 /\ SubIs(W, 0, came, kept)
  BY DEF PlainKept
<1>2. PICK a \in Nat, b \in Nat : a = came /\ b = came + m /\ a <= b /\ b <= Len(W) /\ b - a = m
  <2>1. came \in Nat
    BY <1>1 DEF SubIs
  <2>2. came + m \in Nat /\ came <= came + m /\ came + m - came = m
    BY <2>1
  <2>3. QED BY <1>1, <2>1, <2>2
<1>3. SubIs(W, a, b, raw)
  <2>1. SubIs(W, a, b, SubSeq(W, a + 1, b))
    BY <1>2, SubFacts
  <2>2. QED BY <1>1, <1>2, <2>1
<1>4. raw \in Str /\ Len(raw) = m
  BY <1>2, <1>3 DEF SubIs
<1>5. app = raw
  <2>1. CASE kind = "text"
    <3>1. PICK k \in Nat : k = m
      OBVIOUS
    <3>2. Padded(app, raw, k)
      <4>1. app = [i \in 1..k |-> At(raw, i)]
        BY <2>1, <3>1 DEF Appends
      <4>2. QED BY <1>4, <4>1, ZerosBehind
    <3>3. app \in Str /\ Len(app) = Len(raw) /\ \A i \in 1..Len(app) : app[i] = raw[i]
      <4>1. app \in Str /\ Len(app) = k /\ \A i \in 1..k : app[i] = IF i <= Len(raw) THEN raw[i] ELSE NUL
        BY <3>2 DEF Padded
      <4>2. Len(raw) = k
        BY <1>4, <3>1
      <4>3. \A i \in 1..k : i <= k
        OBVIOUS
      <4>4. QED BY ONLY <4>1, <4>2, <4>3
    <3>4. QED BY <1>4, <3>3, StrEqual
  <2>2. CASE kind # "text"
    BY <2>2 DEF Appends
  <2>3. QED BY <2>1, <2>2
<1>6. SubIs(W, 0, b, kept \o raw)
  BY <1>1, <1>2, <1>3, SubJoin
<1>7. QED BY <1>1, <1>2, <1>5, <1>6 DEF PlainKept

\* Some characters of an escaped text.
LEMMA EscapedPart ==
    ASSUME NEW S, NEW str, NEW esc, NEW ten, NEW n, EscapedAs(S, str, esc, ten, n),
           NEW q \in Nat, NEW k \in Nat, q + k <= n,
           NEW raw, PieceAt(raw, S, 3 * q, 3 * k), NEW name, name = SubSeq(str, q + 1, q + k)
    PROVE  EscapedAs(raw, name, esc, ten, k) /\ SubIs(str, q, q + k, name)
<1>1. /\ str \in Seq(1..127) /\ n \in Nat /\ n = Len(str) /\ esc \in Int /\ ten \in {65, 97}
      /\ \A i \in 1..n : /\ S[3 * (i - 1) + 1] = esc
                         /\ S[3 * (i - 1) + 2] = Digit(str[i] \div 16, ten)
                         /\ S[3 * (i - 1) + 3] = Digit(str[i] % 16, ten)
  BY DEF EscapedAs
<1>2. str \in Str
  BY <1>1, TextStr
<1>3. PICK p \in Nat : p = q + k /\ q <= p /\ p <= Len(str) /\ p - q = k
  BY <1>1
<1>4. SubIs(str, q, p, name)
  BY <1>2, <1>3, SubFacts
<1>5. name \in Str /\ Len(name) = k /\ \A i \in 1..k : name[i] = str[q + i]
  BY <1>3, <1>4 DEF SubIs
<1>6. name \in Seq(1..127)
  <2>1. \A i \in 1..k : name[i] \in 1..127
    <3> TAKE i \in 1..k
    <3>1. q + i \in 1..Len(str)
      BY <1>1, <1>3
    <3>2. str[q + i] \in 1..127
      BY <1>1, <3>1, ElementOfSeq
    <3>3. QED BY <1>5, <3>2
  <2>2. name \in [1..k -> 1..127]
    <3>1. DOMAIN name = 1..k /\ name = [i \in DOMAIN name |-> name[i]]
      <4>1. name \in Str /\ Len(name) = k
        BY <1>5
      <4>2. QED BY ONLY <4>1, LenProperties DEF Str
    <3>2. QED BY ONLY <2>1, <3>1
  <2>3. QED BY ONLY <2>2, k \in Nat
<1>7. raw \in Str /\ Len(raw) = 3 * k /\ \A i \in 1..(3 * k) : raw[i] = S[3 * q + i]
  BY DEF PieceAt
<1>8. ASSUME NEW i \in 1..k
      PROVE  /\ raw[3 * (i - 1) + 1] = esc
             /\ raw[3 * (i - 1) + 2] = Digit(name[i] \div 16, ten)
             /\ raw[3 * (i - 1) + 3] = Digit(name[i] % 16, ten)
  <2>1. PICK j \in 1..n : j = q + i
    <3>1. q + i \in 1..n
      BY <1>1, <1>3
    <3>2. QED BY <3>1
  <2>2. \A d \in 1..3 : 3 * (i - 1) + d \in 1..(3 * k) /\ 3 * q + (3 * (i - 1) + d) = 3 * (j - 1) + d
    BY <2>1
  <2>3. \A d \in 1..3 : raw[3 * (i - 1) + d] = S[3 * (j - 1) + d]
    BY ONLY <1>7, <2>2
  <2>4. 1 \in 1..3 /\ 2 \in 1..3 /\ 3 \in 1..3
    OBVIOUS
  <2>5. name[i] = str[j]
    BY <1>5, <2>1
  <2>6. QED BY ONLY <1>1, <2>1, <2>3, <2>4, <2>5
<1>9. EscapedAs(raw, name, esc, ten, k)
  BY <1>1, <1>5, <1>6, <1>7, <1>8 DEF EscapedAs
<1>10. QED BY <1>3, <1>4, <1>9

LEMMA FormTextIs ==
    ASSUME NEW raw, NEW m, raw \in Str, m = Len(raw)
    PROVE  /\ FormText(raw) = Unescape(raw, m, PERCENT, TRUE, TRUE) /\ FormText(raw) \in Str
           /\ PERCENT \in Int /\ PERCENT # NUL /\ PERCENT # PLUS
<1>1. PICK l \in 0..Len(raw) : l = Len(raw)
  BY DEF Str
<1>2. url_decode_replace(raw, l) \in Str
  BY DecodersAre
<1>4. FormText(raw) \in Str
  BY <1>1, <1>2 DEF FormText
<1>5. FormText(raw) = Unescape(raw, m, PERCENT, TRUE, TRUE)
  BY DEF FormText, url_decode_replace
<1>6. PERCENT \in Int /\ PERCENT # NUL /\ PERCENT # PLUS
  BY DEF PERCENT, NUL, PLUS
<1>7. QED BY <1>4, <1>5, <1>6

\* A packet of the text of a form that ends between two characters.
LEMMA FormPacket ==
    ASSUME NEW S, NEW str, NEW kind, NEW came, NEW left, NEW kept, str \in Seq(1..127),
           FormKept(S, str, kind, came, left, kept), NEW m \in Nat, came + m <= Len(S),
           (came + m) % 3 = 0,
           NEW raw, PieceAt(raw, S, came, m), NEW app, app = Appends(kind, FormText(raw), m)
    PROVE  FormKept(S, str, kind, came + m, left, kept \o app)
<1>1. kind = "form" /\ left = 0 /\ EscapedAs(S, str, PERCENT, 65, Len(str)) /\ came \in Nat
  BY DEF FormKept
<1>3. PICK n \in Nat : n = Len(str) /\ str \in Str
  BY TextStr
<1>4. S \in Str /\ Len(S) = 3 * n
  BY <1>1, <1>3 DEF EscapedAs
<1>2. PICK q \in Nat : came = 3 * q /\ SubIs(str, 0, q, kept)
  <2>1. ~(came > Len(S))
    BY <1>1, <1>4
  <2>2. QED BY <2>1 DEF FormKept
<1>5. PICK p \in Nat : came + m = 3 * p
  <2>1. PICK t \in Nat : t = came + m
    BY <1>2
  <2>2. PICK p \in Nat, e \in 0..2 : t = 3 * p + e /\ e = t % 3
    BY InThrees
  <2>3. QED BY <2>1, <2>2
<1>6. PICK k \in Nat : k = p - q /\ m = 3 * k /\ q <= p /\ p <= n /\ p = q + k
  <2>1. p - q \in Nat /\ m = 3 * (p - q) /\ q <= p /\ p <= n /\ p = q + (p - q)
    BY <1>2, <1>4, <1>5
  <2>2. QED BY <2>1
<1>7. PICK name : name = SubSeq(str, q + 1, q + k)
  OBVIOUS
<1>8. EscapedAs(raw, name, PERCENT, 65, k) /\ SubIs(str, q, q + k, name)
  <2>1. PieceAt(raw, S, 3 * q, 3 * k) /\ q + k <= n
    BY <1>2, <1>6
  <2>2. EscapedAs(S, str, PERCENT, 65, n)
    BY <1>1, <1>3
  <2>3. QED BY <1>7, <2>1, <2>2, EscapedPart
<1>9. name \in Str /\ raw \in Str /\ Len(raw) = m
  BY <1>8 DEF SubIs, PieceAt
<1>10. FormText(raw) = Unescape(raw, m, PERCENT, TRUE, TRUE) /\ PERCENT \in Int /\ PERCENT # NUL /\ PERCENT # PLUS
  BY <1>9, FormTextIs
<1>11. PICK plus \in BOOLEAN, short \in BOOLEAN : plus = TRUE /\ short = TRUE
  OBVIOUS
<1>12. PICK t \in Str : t = << >> /\ Len(t) = 0
  <2>1. << >> \in Str /\ Len(<< >>) = 0
    BY SufEmpty DEF Str
  <2>2. QED BY <2>1
<1>13. Then(raw, m, 3 * k, raw, t, PERCENT, plus)
  <2>1. m \in 0..Len(raw) /\ m = 3 * k + Len(t) /\ 1..Len(t) = {}
    <3>1. m \in 0..m /\ m = 3 * k + 0 /\ 1..0 = {}
      BY <1>6
    <3>2. QED BY ONLY <1>9, <1>12, <3>1
  <2>2. QED BY <1>9, <1>10, <1>12, <2>1 DEF Then
<1>14. Unescape(raw, m, PERCENT, plus, short) = name \o t
  <2>1. short \in BOOLEAN
    OBVIOUS
  <2>2. PICK c : c = k
    OBVIOUS
  <2>3. EscapedAs(raw, name, PERCENT, 65, c) /\ Then(raw, m, 3 * c, raw, t, PERCENT, plus)
    BY ONLY <1>8, <1>13, <2>2
  <2>4. QED BY ONLY <2>1, <2>3, EscapesBack
<1>15. name \o t = name
  BY <1>9, <1>12, ConcatEmptySeq DEF Str
<1>16. app = name
  <2>1. app = FormText(raw)
    BY <1>1 DEF Appends
  <2>2. QED BY <1>10, <1>11, <1>14, <1>15, <2>1
<1>17. SubIs(str, 0, q + k, kept \o name)
  BY <1>2, <1>8, SubJoin
<1>18. came + m \in Nat /\ q + k \in Nat /\ came + m = 3 * (q + k)
  BY <1>2, <1>6
<1>19. QED BY <1>1, <1>16, <1>17, <1>18 DEF FormKept

\* A packet of the text of a form that ends behind the text, or is all behind it.
LEMMA FormOver ==
    ASSUME NEW W, NEW S, Followed(W, S), NEW str, NEW kind, NEW came, NEW left, NEW kept, str \in Seq(1..127),
           FormKept(S, str, kind, came, left, kept), NEW m \in Nat, came + m > Len(S),
           NEW raw, PieceAt(raw, W, came, m), NEW app, app = Appends(kind, FormText(raw), m)
    PROVE  FormKept(S, str, kind, came + m, left, kept \o app)
<1>1. kind = "form" /\ left = 0 /\ EscapedAs(S, str, PERCENT, 65, Len(str)) /\ came \in Nat
  BY DEF FormKept
<1>2. raw \in Str /\ Len(raw) = m /\ \A i \in 1..m : raw[i] = W[came + i]
  BY DEF PieceAt
<1>3. PICK n \in Nat : n = Len(str) /\ str \in Str
  BY TextStr
<1>4. S \in Str /\ Len(S) = 3 * n /\ \A i \in 1..(3 * n) : W[i] = S[i]
  BY <1>1, <1>3 DEF EscapedAs, Followed
<1>5. app = FormText(raw)
  BY <1>1 DEF Appends
<1>6. /\ FormText(raw) = Unescape(raw, m, PERCENT, TRUE, TRUE) /\ FormText(raw) \in Str
      /\ PERCENT \in Int /\ PERCENT # NUL /\ PERCENT # PLUS
  BY <1>2, FormTextIs
<1>7. Begun(str, kept \o app)
  <2>1. CASE Begun(str, kept)
    BY <1>5, <1>6, <2>1, StaysBegun
  <2>2. CASE \E q \in Nat : came = 3 * q /\ SubIs(str, 0, q, kept)
    <3>1. PICK q \in Nat : came = 3 * q /\ SubIs(str, 0, q, kept)
      BY <2>2
    <3>2. PICK k \in Nat : q + k = n
      <4>1. q <= n
        BY <1>3, <3>1 DEF SubIs
      <4>2. n - q \in Nat /\ q + (n - q) = n
        BY <4>1
      <4>3. QED BY <4>2
    <3>3. 3 * k <= m /\ 3 * q + 3 * k = 3 * n
      BY <1>4, <3>1, <3>2
    <3>4. PICK e : e = SubSeq(S, 3 * q + 1, 3 * q + 3 * k)
      OBVIOUS
    <3>5. PieceAt(e, S, 3 * q, 3 * k)
      <4>1. PICK a \in Nat, c \in Nat : a = 3 * q /\ c = 3 * k /\ a + c <= Len(S)
        BY <1>4, <3>3
      <4>2. QED BY <1>4, <3>4, <4>1, PieceOf
    <3>6. PICK name : name = SubSeq(str, q + 1, q + k)
      OBVIOUS
    <3>7. EscapedAs(e, name, PERCENT, 65, k) /\ SubIs(str, q, q + k, name)
      <4>1. EscapedAs(S, str, PERCENT, 65, n) /\ q + k <= n
        BY <1>1, <1>3, <3>2
      <4>2. QED BY <3>5, <3>6, <4>1, EscapedPart
    <3>8. \A i \in 1..(3 * k) : raw[i] = e[i]
      <4> TAKE i \in 1..(3 * k)
      <4>1. i \in 1..m /\ 3 * q + i \in 1..(3 * n)
        BY <3>3
      <4>2. raw[i] = W[3 * q + i]
        BY <1>2, <3>1, <4>1
      <4>3. W[3 * q + i] = S[3 * q + i]
        BY ONLY <1>4, <4>1
      <4>4. e[i] = S[3 * q + i]
        BY <3>5 DEF PieceAt
      <4>5. QED BY <4>2, <4>3, <4>4
    <3>9. PICK plus \in BOOLEAN, short \in BOOLEAN : plus = TRUE /\ short = TRUE
      OBVIOUS
    <3>10. PICK x \in Str : Unescape(raw, m, PERCENT, plus, short) = name \o x
      <4>1. m \in 0..Len(raw)
        BY <1>2
      <4>2. raw \in Str /\ ~(plus /\ PERCENT = PLUS) /\ PERCENT # NUL /\ short \in BOOLEAN /\ plus \in BOOLEAN
        BY <1>2, <1>6
      <4>3. Ahead(Unescape(raw, m, PERCENT, plus, short), name)
        BY <3>3, <3>7, <3>8, <4>1, <4>2, EscapesBegin
      <4>4. QED BY ONLY <4>3 DEF Ahead
    <3>11. app = name \o x
      BY <1>5, <1>6, <3>9, <3>10
    <3>12. SubIs(str, 0, n, kept \o name)
      <4>1. SubIs(str, 0, q + k, kept \o name)
        BY <3>1, <3>7, SubJoin
      <4>2. QED BY <3>2, <4>1
    <3>13. Begun(str, kept \o name)
      <4>1. kept \o name = str
        BY <1>3, <3>12, SubBegins
      <4>2. QED BY <1>3, <4>1 DEF Begun
    <3>14. kept \o app = (kept \o name) \o x
      <4>1. kept \in Str /\ name \in Str
        BY <3>1, <3>7 DEF SubIs
      <4>2. kept \o (name \o x) = (kept \o name) \o x
        <5>1. kept \in Str /\ name \in Str /\ x \in Str
          BY <4>1
        <5>2. QED BY ONLY <5>1, ConcatAssociative DEF Str
      <4>3. QED BY <3>11, <4>2
    <3>15. QED BY <3>13, <3>14, StaysBegun
  <2>3. QED BY <2>1, <2>2 DEF FormKept
<1>8. came + m \in Nat
  BY <1>1
<1>9. QED BY <1>1, <1>7, <1>8 DEF FormKept

LEMMA CodeKeeps ==
    ASSUME NEW S, NEW str, NEW first, NEW G, Lined(S, str, first, G), NEW g, NEW kind,
           NEW W, NEW came, NEW left, NEW waits, AtGroup(W, first, G, g, came, left, waits),
           NEW kept, GroupsKept(str, kind, g, came, kept),
           NEW m \in Nat, came + m <= Len(S) + 3, kind = "text" => m > 0,
           NEW raw, NEW text, NEW rest, NEW next,
           Taken(W, str, first, G, g, came + m, waits, raw, text, rest, next),
           NEW app, app = Appends(kind, text, m)
    PROVE  CodeKept(W, S, str, kind, came + m, rest, next, kept \o app)
<1>1. PICK x : AtGroup(W, first, G, x, came + m, rest, next) /\ SubIs(str, Upto(str, g), Upto(str, x), text)
  BY DEF Taken
<1>2. GroupsKept(str, kind, x, came + m, kept \o app)
  <2>1. CASE kind # "text"
    <3>1. app = text /\ SubIs(str, 0, Upto(str, g), kept)
      BY <2>1 DEF Appends, GroupsKept
    <3>2. SubIs(str, 0, Upto(str, x), kept \o text)
      BY <1>1, <3>1, SubJoin
    <3>3. QED BY <2>1, <3>1, <3>2 DEF GroupsKept
  <2>2. CASE kind = "text"
    <3>1. text \in Str
      BY <1>1 DEF SubIs
    <3>2. Padded(app, text, m)
      <4>1. PICK l \in Nat : l = m
        OBVIOUS
      <4>2. app = [i \in 1..l |-> At(text, i)]
        BY <2>2, <4>1 DEF Appends
      <4>3. Padded(app, text, l)
        BY <3>1, <4>2, ZerosBehind
      <4>4. QED BY ONLY <4>1, <4>3
    <3>3. CASE came = 0 /\ kept = << >>
      <4>1. left \in 0..3 /\ left <= came /\ Place(first, G, g, came + 1 - left)
        BY DEF AtGroup
      <4>2. came + 1 - left = 1
        BY <3>3, <4>1
      <4>3. Place(first, G, g, 1)
        BY ONLY <4>1, <4>2
      <4>4. g \in 0..G /\ G \in Nat
        BY <4>3, LinedFacts DEF Place
      <4>5. g = 0
        <5>1. 1 >= 4 * g + 1
          BY <4>3, PlaceGrows
        <5>2. QED BY <4>4, <5>1
      <4>6. PICK k \in Nat : k = Upto(str, x) /\ k <= Len(str) /\ Len(text) = k - 0
                             /\ \A i \in 1..(k - 0) : text[i] = str[0 + i]
        <5>1. Upto(str, 0) = 0
          <6>1. Len(str) \in Nat
            BY LinedFacts
          <6>2. QED BY <6>1 DEF Upto
        <5>2. SubIs(str, 0, Upto(str, x), text)
          BY ONLY <1>1, <4>5, <5>1
        <5>3. QED BY ONLY <5>2 DEF SubIs
      <4>7. k - 0 = k /\ \A i \in 1..k : 0 + i = i
        OBVIOUS
      <4>8. Len(text) = k /\ \A i \in 1..k : text[i] = str[i]
        BY ONLY <4>6, <4>7
      <4>9. k < m
        <5>1. rest \in 0..3 /\ Place(first, G, x, came + m + 1 - rest)
          BY <1>1 DEF AtGroup
        <5>2. PICK r \in Int : r = came + m + 1 - rest /\ r <= m + 1
          <6>1. came + m + 1 - rest \in Int /\ came + m + 1 - rest <= m + 1
            BY <3>3, <5>1
          <6>2. QED BY <6>1
        <5>3. Upto(str, x) < m
          BY <2>2, <5>1, <5>2, ShortText
        <5>4. QED BY <4>6, <5>3
      <4>10. app \in Str /\ Len(app) = m /\ \A i \in 1..m : app[i] = IF i <= k THEN text[i] ELSE NUL
        BY ONLY <3>2, <4>8 DEF Padded
      <4>11. app[k + 1] = NUL /\ \A i \in 1..k : app[i] = str[i]
        <5>1. k + 1 \in 1..m /\ ~(k + 1 <= k)
          BY <4>9
        <5>2. \A i \in 1..k : i \in 1..m /\ i <= k
          BY <4>9
        <5>3. QED BY ONLY <4>8, <4>10, <5>1, <5>2
      <4>12. CutAt(app, str, k)
        BY <4>6, <4>9, <4>10, <4>11 DEF CutAt
      <4>13. kept \o app = app
        BY <3>3, <4>10, ConcatEmptySeq DEF Str
      <4>14. QED BY <2>2, <4>12, <4>13 DEF GroupsKept
    <3>4. CASE \E k : CutAt(kept, str, k)
      <4>1. PICK k \in Nat : /\ k <= Len(str) /\ k < Len(kept) /\ kept \in Str
                             /\ kept[k + 1] = NUL /\ \A i \in 1..k : kept[i] = str[i]
        BY <3>4 DEF CutAt
      <4>2. app \in Str
        BY <3>2 DEF Padded
      <4>3. PICK a \in Nat, b \in Nat : a = Len(kept) /\ b = Len(app) /\ k < a
        BY <4>1, <4>2 DEF Str
      <4>4. PICK w : w = kept \o app
        OBVIOUS
      <4>5. w \in Str /\ Len(w) = a + b /\ \A i \in 1..a : w[i] = kept[i]
        BY <4>1, <4>2, <4>3, <4>4, ConcatAt
      <4>6. k + 1 \in 1..a /\ k < a + b /\ \A i \in 1..k : i \in 1..a
        BY <4>3
      <4>7. CutAt(w, str, k)
        BY <4>1, <4>5, <4>6 DEF CutAt
      <4>8. QED BY <2>2, <4>4, <4>7 DEF GroupsKept
    <3>5. QED BY <2>2, <3>3, <3>4 DEF GroupsKept
  <2>3. QED BY <2>1, <2>2
<1>3. QED BY <1>1, <1>2 DEF CodeKept

\* The rest of the boundary: its first two characters are taken for the end of a
\* line, the others wait.
OverGives(S, str, kind, m, raw, D, next) ==
    /\ D.out = << >> /\ D.clen = 2
    /\ CodeOver(S, str, kind, sent + m, D.clen, content)
    /\ \A c : Has(next, c) => Has(buf, c) \/ Has(raw, c)

LEMMA CodeOvers ==
    ASSUME Waits, NEW W, NEW S, Followed(W, S), NEW str, NEW kind, kind # "text",
           CodeKept(W, S, str, kind, sent, dlen, buf, content), sent > Len(S),
           NEW m \in Nat, sent + m = Len(S) + 4, Len(W) = Len(S) + 4,
           W[Len(S) + 1] = CR, W[Len(S) + 2] = LF,
           NEW raw, raw = SubSeq(W, sent + 1, sent + m),
           NEW D, D = base64_decode_stream(Filled(raw), dlen + m)
    PROVE  OverGives(S, str, kind, m, raw, D, MovedUp(Filled(raw), dlen + m, D.clen))
<1>1. PICK first, G, g : /\ Lined(S, str, first, G) /\ AtGroup(W, first, G, g, sent, dlen, buf)
                         /\ GroupsKept(str, kind, g, sent, content)
  BY DEF CodeKept
<1>2. PICK n \in Nat, s \in Nat, l \in 0..3 : /\ n = Len(S) /\ s = sent /\ l = dlen /\ l <= s /\ n < s
                                              /\ s + m = n + 4 /\ m <= 3
  <2>1. Len(S) \in Nat
    BY DEF Followed, Str
  <2>2. sent \in Nat /\ dlen \in 0..3 /\ dlen <= sent
    BY <1>1 DEF AtGroup
  <2>3. m <= 3
    BY <2>1, <2>2
  <2>4. QED BY <2>1, <2>2, <2>3
<1>3. g = G /\ sent + 1 - dlen = Len(S) + 1 /\ Upto(str, g) = Len(str)
  <2>1. sent >= Len(S)
    BY <1>2
  <2>2. QED BY <1>1, <2>1, AllGroups
<1>4. s - l = n /\ l + m = 4
  BY <1>2, <1>3
<1>5. PICK f, z : f = Filled(raw) /\ z = 4 /\ z \in Nat /\ z = dlen + m
  BY <1>2, <1>4
<1>6. Window(f, z, W, n)
  <2>1. W \in Str /\ sent + m <= Len(W)
    BY <1>2 DEF Followed
  <2>2. Window(f, dlen + m, W, sent - dlen)
    BY <1>1, <1>5, <2>1, WindowIs
  <2>3. QED BY <1>2, <1>4, <1>5, <2>2
<1>7. At(f, 1) = CR /\ f[1] = CR /\ At(f, 2) = LF /\ At(f, 3) # EQUAL /\ At(f, 4) # EQUAL
  <2>1. \A i \in 1..4 : At(f, i) = W[n + i] /\ At(f, i) = f[i]
    <3> TAKE i \in 1..4
    <3>1. i \in 1..z
      BY <1>5
    <3>2. QED BY <1>6, <3>1, SeesAt
  <2>2. n + 3 \in 1..Len(W) /\ n + 4 \in 1..Len(W) /\ n + 3 > Len(S) /\ n + 4 > Len(S)
    BY <1>2
  <2>3. W[n + 3] # EQUAL /\ W[n + 4] # EQUAL /\ W[n + 1] = CR /\ W[n + 2] = LF
    BY <1>2, <2>2 DEF Followed
  <2>4. 1 \in 1..4 /\ 2 \in 1..4 /\ 3 \in 1..4 /\ 4 \in 1..4
    OBVIOUS
  <2>5. QED BY ONLY <2>1, <2>3, <2>4
<1>8. base64_equal_sign(f, 1) = 0
  <2>1. \A k \in 0..3 : At(f, 1 + k) # EQUAL
    <3>1. CR # EQUAL /\ LF # EQUAL
      BY DEF CR, LF, EQUAL
    <3>2. At(f, 1) # EQUAL /\ At(f, 2) # EQUAL
      BY <1>7, <3>1
    <3>3. \A k \in 0..3 : 1 + k \in {1, 2, 3, 4}
      OBVIOUS
    <3>4. QED BY <1>7, <3>2, <3>3
  <2>2. QED BY <2>1, EqualSigns
<1>9. StreamLoop(f, z) = [at |-> 3, out |-> << >>]
  <2>1. f \in Str
    BY <1>6 DEF Window
  <2>2. PICK C : Streams(C, f, z) /\ StreamLoop(f, z) = C[1]
    BY <1>5, <2>1, StreamLoopIs
  <2>3. C = [i \in 1..5 |-> Stream1(f, 4, i, C)]
    <3>1. z = 4 /\ 1..z + 1 = 1..5
      BY <1>5
    <3>2. QED BY <2>2, <3>1 DEF Streams
  <2>4. C[1] = Stream1(f, 4, 1, C) /\ C[3] = Stream1(f, 4, 3, C)
    <3>1. 1 \in 1..5 /\ 3 \in 1..5
      OBVIOUS
    <3>2. QED BY <2>3, <3>1
  <2>5. C[3] = [at |-> 3, out |-> << >>]
    <3>1. 4 + 1 - 3 < 4
      OBVIOUS
    <3>2. QED BY <2>4, <3>1 DEF Stream1
  <2>6. C[1] = C[3]
    <3>1. ~(4 + 1 - 1 < 4) /\ 1 + 2 = 3
      OBVIOUS
    <3>2. QED BY <1>7, <1>8, <2>4, <3>1 DEF Stream1
  <2>7. QED BY <2>2, <2>5, <2>6
<1>10. D.out = << >> /\ D.clen = 2
  <2>1. StreamLoop(f, z).at = 3 /\ StreamLoop(f, z).out = << >> /\ 4 + 1 - 3 = 2 /\ 2 < 4
    BY <1>9
  <2>2. D = base64_decode_stream(f, 4)
    BY <1>5
  <2>3. D = [out |-> << >>, clen |-> 2]
    BY <1>5, <2>1, <2>2 DEF base64_decode_stream
  <2>4. QED BY <2>3
<1>11. CodeOver(S, str, kind, sent + m, D.clen, content)
  <2>1. SubIs(str, 0, Len(str), content) /\ str \in Seq(1..127)
    BY <1>1, <1>3 DEF GroupsKept, Lined
  <2>2. content = str
    <3>1. Len(str) \in Nat
      BY <2>1
    <3>2. QED BY <2>1, <3>1, SubBegins
  <2>3. QED BY <1>1, <1>10, <2>2 DEF CodeOver
<1>12. \A c : Has(MovedUp(Filled(raw), dlen + m, D.clen), c) => Has(buf, c) \/ Has(raw, c)
  <2>1. raw \in Str /\ Len(raw) = m
    <3>1. W \in Str /\ s + m <= Len(W) /\ raw = SubSeq(W, s + 1, s + m)
      BY <1>2 DEF Followed
    <3>2. PieceAt(raw, W, s, m)
      BY <3>1, PieceOf
    <3>3. QED BY <3>2 DEF PieceAt
  <2>2. PICK left \in Nat : left = D.clen /\ left = 2
    BY <1>10
  <2>3. left <= dlen + Len(raw)
    <3>1. dlen + Len(raw) = 4
      BY ONLY <1>5, <2>1
    <3>2. QED BY ONLY <2>2, <3>1
  <2>4. \A c : Has(MovedUp(Filled(raw), dlen + Len(raw), left), c) => Has(buf, c) \/ Has(raw, c)
    BY ONLY Waits, <2>1, <2>2, <2>3, WaitsFrom
  <2>5. QED BY <2>1, <2>2, <2>4
<1>13. QED BY <1>10, <1>11, <1>12 DEF OverGives

\* What Decoded makes of the text of a packet.
DecodedAs(code, text, m, d) ==
    /\ code = "base64" =>
         LET D == base64_decode_stream(Filled(text), dlen + m)
         IN  d.text = D.out /\ d.buf = MovedUp(Filled(text), dlen + m, D.clen) /\ d.dlen = D.clen
    /\ code = "url" => d.text = FormText(text) /\ d.buf = buf /\ d.dlen = dlen
    /\ code = "none" => d.text = text /\ d.buf = buf /\ d.dlen = dlen

\* A text of which a packet has the last characters has not all of the boundary:
\* that would be found.
PastText(code, W, S, m) ==
    code = "base64" =>
      /\ Len(W) <= Len(S) + 4
      /\ \/ sent + m <= Len(S) + 3
         \/ /\ sent > Len(S) /\ sent + m = Len(S) + 4 /\ Len(W) = Len(S) + 4
            /\ W[Len(S) + 1] = CR /\ W[Len(S) + 2] = LF

\* What is kept, and what waits, behind a packet.
PacketGives(code, W, S, str, kind, m, text, d) ==
    /\ d.dlen < 0 => code = "base64" /\ Len(str) % 3 = 2 /\ Has(buf, EQUAL) /\ sent < Len(S)
    /\ ~(d.dlen < 0) /\ (kind = "form" /\ sent + m < Len(S) => (sent + m) % 3 = 0) =>
         PartKept(code, W, S, str, kind, sent + m, d.dlen, d.buf, content \o Appends(kind, d.text, m))
    /\ ~(d.dlen < 0) => \A c : Has(d.buf, c) => Has(buf, c) \/ Has(text, c)

LEMMA FormGave ==
    ASSUME NEW W, NEW S, Followed(W, S), NEW str, NEW kind, str \in Seq(1..127),
           FormKept(S, str, kind, sent, dlen, content),
           NEW m \in Nat, sent + m <= Len(W), sent + m < Len(S) => (sent + m) % 3 = 0,
           NEW text, PieceAt(text, W, sent, m), NEW app, app = Appends(kind, FormText(text), m)
    PROVE  FormKept(S, str, kind, sent + m, dlen, content \o app)
<1>1. PICK n \in Nat : n = Len(str) /\ str \in Str
  BY TextStr
<1>2. EscapedAs(S, str, PERCENT, 65, Len(str)) /\ sent \in Nat
  BY DEF FormKept
<1>3. Len(S) = 3 * n /\ \A i \in 1..(3 * n) : W[i] = S[i]
  BY <1>1, <1>2 DEF EscapedAs, Followed
<1>4. CASE sent + m > Len(S)
  BY <1>4, FormOver
<1>5. CASE sent + m <= Len(S)
  <2>1. PICK s \in Nat, t \in Nat : s = sent /\ t = s + m /\ t <= 3 * n
    BY <1>2, <1>3, <1>5
  <2>2. t % 3 = 0
    <3>1. CASE t = 3 * n
      BY <3>1
    <3>2. CASE t < 3 * n
      BY <1>3, <2>1, <3>2
    <3>3. QED BY <2>1, <3>1, <3>2
  <2>3. \A i \in 1..m : text[i] = S[s + i]
    <3> TAKE i \in 1..m
    <3>1. s + i \in 1..(3 * n)
      BY <2>1
    <3>2. QED BY <1>3, <2>1, <3>1 DEF PieceAt
  <2>4. PieceAt(text, S, sent, m)
    BY <2>1, <2>3 DEF PieceAt
  <2>5. (sent + m) % 3 = 0
    BY <2>1, <2>2
  <2>6. QED BY <1>5, <2>4, <2>5, FormPacket
<1>6. QED BY <1>2, <1>3, <1>4, <1>5

LEMMA PacketGave ==
    ASSUME Waits, NEW code, NEW W, NEW S, NEW str, NEW kind,
           PartKept(code, W, S, str, kind, sent, dlen, buf, content), sent < Len(W),
           NEW m \in Nat, sent + m <= Len(W), kind = "text" => m > 0, PastText(code, W, S, m),
           NEW text, text = SubSeq(W, sent + 1, sent + m), NEW d, DecodedAs(code, text, m, d)
    PROVE  PacketGives(code, W, S, str, kind, m, text, d)
<1>1. /\ str \in Seq(1..127) /\ str \in Str /\ dlen \in Nat /\ sent \in Nat
      /\ Followed(W, S) /\ W \in Str /\ (kind = "text" => W = S) /\ Len(S) \in Nat /\ Len(W) \in Nat
  BY TextStr DEF PartKept, Waits, Followed, Str
<1>2. PICK app : app = Appends(kind, d.text, m)
  OBVIOUS
<1>3. sent + m \in Nat
  BY <1>1
<1>4. CASE code = "none" /\ PlainKept(W, S, str, sent, dlen, content)
  <2>1. d.text = text /\ d.buf = buf /\ d.dlen = dlen
    BY <1>4 DEF DecodedAs
  <2>2. app = Appends(kind, text, m)
    BY <1>2, <2>1
  <2>3. PlainKept(W, S, str, sent + m, dlen, content \o app)
    BY <1>1, <1>4, <2>2, PlainPacket
  <2>4. PartKept(code, W, S, str, kind, sent + m, d.dlen, d.buf, content \o app)
    BY <1>1, <1>3, <1>4, <2>1, <2>3 DEF PartKept
  <2>5. ~(d.dlen < 0)
    BY <1>1, <2>1
  <2>6. QED BY <1>2, <2>1, <2>4, <2>5 DEF PacketGives
<1>5. CASE code = "url" /\ FormKept(S, str, kind, sent, dlen, content)
  <2>1. d.text = FormText(text) /\ d.buf = buf /\ d.dlen = dlen /\ kind = "form"
    BY <1>5 DEF DecodedAs, FormKept
  <2>2. app = Appends(kind, FormText(text), m)
    BY <1>2, <2>1
  <2>3. PieceAt(text, W, sent, m)
    BY <1>1, PieceOf
  <2>4. (sent + m < Len(S) => (sent + m) % 3 = 0) => FormKept(S, str, kind, sent + m, dlen, content \o app)
    BY <1>1, <1>5, <2>2, <2>3, FormGave
  <2>5. (sent + m < Len(S) => (sent + m) % 3 = 0) =>
          PartKept(code, W, S, str, kind, sent + m, d.dlen, d.buf, content \o app)
    BY <1>1, <1>3, <1>5, <2>1, <2>4 DEF PartKept
  <2>6. ~(d.dlen < 0)
    BY <1>1, <2>1
  <2>7. QED BY <1>2, <2>1, <2>5, <2>6 DEF PacketGives
<1>6. CASE code = "base64"
  <2>1. PICK D : D = base64_decode_stream(Filled(text), dlen + m)
    OBVIOUS
  <2>2. PICK next : next = MovedUp(Filled(text), dlen + m, D.clen)
    OBVIOUS
  <2>3. d.text = D.out /\ d.buf = next /\ d.dlen = D.clen /\ app = Appends(kind, D.out, m)
    BY <1>2, <1>6, <2>1, <2>2 DEF DecodedAs
  <2>4. CodeKept(W, S, str, kind, sent, dlen, buf, content)
    <3>1. Len(W) <= Len(S) + 4
      BY <1>6 DEF PastText
    <3>2. sent # Len(S) + 4
      BY <1>1, <3>1
    <3>3. QED BY <1>6, <3>2 DEF PartKept, CodeOver
  <2>5. CASE sent + m <= Len(S) + 3
    <3>1. PICK first, G, g : /\ Lined(S, str, first, G) /\ AtGroup(W, first, G, g, sent, dlen, buf)
                             /\ GroupsKept(str, kind, g, sent, content)
      BY <2>4 DEF CodeKept
    <3>2. \/ D.clen < 0 /\ Len(str) % 3 = 2 /\ Has(buf, EQUAL) /\ sent < Len(S)
          \/ D.clen >= 0 /\ Taken(W, str, first, G, g, sent + m, buf, text, D.out, D.clen, next)
      BY <1>1, <2>1, <2>2, <2>5, <3>1, CodePacket
    <3>3. CASE D.clen < 0 /\ Len(str) % 3 = 2 /\ Has(buf, EQUAL) /\ sent < Len(S)
      BY <1>6, <2>3, <3>3 DEF PacketGives
    <3>4. CASE D.clen >= 0 /\ Taken(W, str, first, G, g, sent + m, buf, text, D.out, D.clen, next)
      <4>1. ~(D.clen < 0)
        <5>1. D.clen \in 0..3
          BY <3>4 DEF Taken, AtGroup
        <5>2. QED BY <5>1
      <4>2. CodeKept(W, S, str, kind, sent + m, D.clen, next, content \o app)
        BY <2>3, <2>5, <3>1, <3>4, CodeKeeps
      <4>3. PartKept(code, W, S, str, kind, sent + m, d.dlen, d.buf, content \o app)
        BY <1>1, <1>3, <1>6, <2>3, <4>2 DEF PartKept
      <4>4. \A c : Has(d.buf, c) => Has(buf, c) \/ Has(text, c)
        BY <2>3, <3>4 DEF Taken
      <4>5. QED BY <1>2, <2>3, <4>1, <4>3, <4>4 DEF PacketGives
    <3>5. QED BY <3>2, <3>3, <3>4
  <2>6. CASE ~(sent + m <= Len(S) + 3)
    <3>1. /\ sent > Len(S) /\ sent + m = Len(S) + 4 /\ Len(W) = Len(S) + 4
          /\ W[Len(S) + 1] = CR /\ W[Len(S) + 2] = LF
      BY <1>6, <2>6 DEF PastText
    <3>2. kind # "text"
      BY <1>1, <3>1
    <3>3. /\ D.out = << >> /\ D.clen = 2 /\ CodeOver(S, str, kind, sent + m, D.clen, content)
          /\ \A c : Has(next, c) => Has(buf, c) \/ Has(text, c)
      <4>1. Waits /\ Followed(W, S) /\ text = SubSeq(W, sent + 1, sent + m)
        BY <1>1
      <4>2. OverGives(S, str, kind, m, text, D, MovedUp(Filled(text), dlen + m, D.clen))
        BY ONLY <2>1, <2>4, <3>1, <3>2, <4>1, m \in Nat, CodeOvers
      <4>3. QED BY ONLY <2>2, <4>2 DEF OverGives
    <3>4. content \o app = content
      <4>1. app = << >>
        BY <2>3, <3>2, <3>3 DEF Appends
      <4>2. content \in Str
        BY <1>1, <3>3 DEF CodeOver
      <4>3. QED BY <4>1, <4>2, ConcatEmptySeq DEF Str
    <3>5. PartKept(code, W, S, str, kind, sent + m, d.dlen, d.buf, content \o app)
      BY <1>1, <1>3, <1>6, <2>3, <3>3, <3>4 DEF PartKept
    <3>6. ~(d.dlen < 0)
      BY <2>3, <3>3
    <3>7. QED BY <1>2, <2>3, <3>3, <3>5, <3>6 DEF PacketGives
  <2>7. QED BY <2>5, <2>6
<1>7. QED BY <1>4, <1>5, <1>6 DEF PartKept

-----------------------------------------------------------------------------
(* What is looked for behind a text, and where it is found. *)

\* W is S with M behind it.
Tailed(W, S, M) ==
    /\ W \in Str /\ S \in Str /\ M \in Str /\ Len(W) = Len(S) + Len(M)
    /\ \A i \in 1..Len(S) : W[i] = S[i]
    /\ \A j \in 1..Len(M) : W[Len(S) + j] = M[j]

OccursAt(W, M, p) == p \in Nat /\ p + Len(M) <= Len(W) /\ \A j \in 1..Len(M) : W[p + j] = M[j]

\* If S has not the character k of M, and M does not have it before, M is at the end.
LEMMA EndPlace ==
    ASSUME NEW W, NEW S, NEW M, Tailed(W, S, M), NEW k \in 1..Len(M), \A j \in 1..(k - 1) : M[j] # M[k],
           Free(S, M[k]), NEW p, OccursAt(W, M, p)
    PROVE  p = Len(S)
<1>1. PICK n \in Nat, l \in Nat : n = Len(S) /\ l = Len(M) /\ Len(W) = n + l
  BY DEF Tailed, Str
<1>2. p \in Nat /\ p <= n /\ W[p + k] = M[k]
  BY <1>1 DEF OccursAt
<1>3. p + k > n
  <2>1. SUFFICES ASSUME p + k <= n PROVE FALSE
    BY <1>1, <1>2
  <2>2. p + k \in 1..n
    BY <1>1, <1>2, <2>1
  <2>3. S[p + k] # M[k] /\ W[p + k] = S[p + k]
    BY <1>1, <2>2 DEF Free, Tailed
  <2>4. QED BY <1>2, <2>3
<1>4. PICK j \in 1..l : p + k = n + j /\ j <= k
  <2>1. p + k - n \in 1..l /\ p + k = n + (p + k - n) /\ p + k - n <= k
    BY <1>1, <1>2, <1>3
  <2>2. QED BY <2>1
<1>5. M[j] = M[k]
  <2>1. W[n + j] = M[j]
    BY <1>1 DEF Tailed
  <2>2. QED BY <1>2, <1>4, <2>1
<1>6. j = k
  <2>1. ~(j \in 1..(k - 1))
    BY <1>5
  <2>2. QED BY <1>1, <1>4, <2>1
<1>7. QED BY <1>1, <1>2, <1>4, <1>6

\* The boundary is not found across the end of a text.
LEMMA BoundaryPlace ==
    ASSUME NEW W, NEW S, Tailed(W, S, Boundary), NEW p, OccursAt(W, Boundary, p)
    PROVE  p = Len(S) \/ p + 4 <= Len(S)
<1>1. PICK n \in Nat : n = Len(S) /\ Len(W) = n + 4
  BY MarkersAre DEF Tailed, Str
<1>2. p \in Nat /\ p <= n /\ \A j \in 1..4 : W[p + j] = Boundary[j]
  BY <1>1, MarkersAre DEF OccursAt
<1>3. W[n + 1] = 13
  <2>1. 1 \in 1..Len(Boundary)
    BY MarkersAre
  <2>2. QED BY <1>1, <2>1, MarkersAre DEF Tailed
<1>4. SUFFICES ASSUME p < n, p + 4 > n PROVE FALSE
  BY <1>1, <1>2
<1>5. PICK j \in 2..4 : p + j = n + 1
  <2>1. n + 1 - p \in 2..4 /\ p + (n + 1 - p) = n + 1
    BY <1>2, <1>4
  <2>2. QED BY <2>1
<1>6. Boundary[j] # 13
  <2>1. j = 2 \/ j = 3 \/ j = 4
    BY <1>5
  <2>2. QED BY <2>1, MarkersAre
<1>7. W[p + j] = Boundary[j]
  BY <1>2
<1>8. QED BY <1>3, <1>5, <1>6, <1>7

\* If it is found in the text, strstr finds it there.
LEMMA StrstrThere ==
    ASSUME NEW s \in Str, NEW w \in Str, NEW p, OccursAt(s, w, p)
    PROVE  strstr(s, w) # 0
<1>1. PICK n \in Nat, l \in Nat : n = Len(s) /\ l = Len(w)
  BY DEF Str
<1>2. p \in Nat /\ p + l <= n /\ \A j \in 1..l : s[p + j] = w[j]
  BY <1>1 DEF OccursAt
<1>3. PICK b \in Nat : b = p + l /\ p <= b /\ b <= n /\ b - p = l
  BY <1>1, <1>2
<1>4. SubIs(s, p, b, w)
  BY <1>1, <1>2, <1>3 DEF SubIs
<1>5. w = SubSeq(s, p + 1, b)
  BY <1>4, SubOnly
<1>6. PICK q \in 1..(n - l + 1) : q = p + 1 /\ q + l - 1 = b
  <2>1. p + 1 \in 1..(n - l + 1) /\ p + 1 + l - 1 = b
    BY <1>1, <1>2, <1>3
  <2>2. QED BY <2>1
<1>7. SubSeq(s, q, q + l - 1) = w
  BY <1>5, <1>6
<1>8. strstr(s, w) \in 1..(n - l + 1) \/ ~(\A x \in 1..(n - l + 1) : SubSeq(s, x, x + l - 1) # w)
  BY <1>7
<1>9. SUFFICES ASSUME strstr(s, w) = 0 PROVE FALSE
  OBVIOUS
<1>10. 0 \notin 1..(n - l + 1)
  BY <1>1
<1>11. \A x \in 1..(n - l + 1) : SubSeq(s, x, x + l - 1) # w
  BY <1>1, <1>9, <1>10, StrstrIs
<1>12. QED BY <1>7, <1>11

\* What strstr finds.
LEMMA StrstrFinds ==
    ASSUME NEW s \in Str, NEW w \in Str, strstr(s, w) # 0
    PROVE  strstr(s, w) \in Nat /\ OccursAt(s, w, strstr(s, w) - 1)
<1>1. PICK n \in Nat, l \in Nat : n = Len(s) /\ l = Len(w)
  BY DEF Str
<1>2. PICK q \in 1..(n - l + 1) : q = strstr(s, w) /\ SubSeq(s, q, q + l - 1) = w
  BY <1>1, StrstrIs
<1>3. PICK p \in Nat, b \in Nat : p = q - 1 /\ q = p + 1 /\ b = p + l /\ q + l - 1 = b /\ p <= b /\ b <= n /\ b - p = l
  <2>1. PICK p \in Nat : q = p + 1
    <3>1. q - 1 \in Nat /\ q = q - 1 + 1
      BY ONLY <1>1, q \in 1..(n - l + 1)
    <3>2. QED BY <3>1
  <2>2. PICK b \in Nat : b = p + l
    OBVIOUS
  <2>3. p = q - 1 /\ q + l - 1 = b /\ p <= b /\ b <= n /\ b - p = l
    BY ONLY <1>1, <2>1, <2>2, q \in 1..(n - l + 1)
  <2>4. QED BY <2>1, <2>2, <2>3
<1>4. SubIs(s, p, b, SubSeq(s, p + 1, b))
  BY <1>1, <1>3, SubFacts
<1>5. SubIs(s, p, b, w)
  BY <1>2, <1>3, <1>4
<1>6. \A j \in 1..l : s[p + j] = w[j]
  BY <1>3, <1>5 DEF SubIs
<1>7. OccursAt(s, w, p)
  BY <1>1, <1>3, <1>6 DEF OccursAt
<1>8. QED BY <1>2, <1>3, <1>7

\* The characters of base64 are no "-".
LEMMA LinedFree ==
    ASSUME NEW S, NEW str, NEW first, NEW G, Lined(S, str, first, G)
    PROVE  Free(S, 45)
<1> G \in Nat
  BY LinedFacts
<1>1. /\ first \in [0..G -> Nat] /\ first[0] = 1 /\ first[G] = Len(S) + 1 /\ Len(S) \in Nat
      /\ \A h \in 1..G : Follows(S, first, h, G)
      /\ \A h \in 0..(G - 1) : \A k \in 0..3 : S[first[h] + k] = CodeChar(str, 3 * h + 1, k)
  BY LinedFacts DEF Lined
<1>2. \A s \in 0..63 : Base(s) # 45
  BY Z3 DEF Base
<1>3. \A j : \A k : CodeChar(str, j, k) # 45
  <2> TAKE j
  <2> TAKE k
  <2>1. PICK x \in 0..127, y \in 0..127, z \in 0..127 :
           x = At(str, j) /\ y = At(str, j + 1) /\ z = At(str, j + 2)
    <3>1. str \in Seq(1..127)
      BY LinedFacts
    <3>2. QED BY <3>1, TextByte, Zenon
  <2>2. PICK s \in 0..63 : s = Six(x, y, z, k)
    BY SixIs, Zenon
  <2>3. Base(s) # 45
    BY <1>2
  <2>4. QED BY <2>1, <2>2, <2>3, Z3 DEF CodeChar, EQUAL
<1>4. CR # 45 /\ LF # 45
  BY DEF CR, LF
<1> DEFINE T == {h \in 0..G : \A j \in 1..(first[h] - 1) : S[j] # 45}
<1>5. 0 \in T
  <2>1. 1..(first[0] - 1) = {} /\ 0 \in 0..G
    BY <1>1
  <2>2. QED BY <2>1
<1>6. ASSUME NEW h \in 0..(G - 1), h \in T PROVE h + 1 \in T
  <2>1. h \in 0..G /\ h + 1 \in 1..G /\ h + 1 - 1 = h /\ h + 1 \in 0..G
    OBVIOUS
  <2>2. PICK a \in Nat, b \in Nat : a = first[h] /\ b = first[h + 1]
    BY <1>1, <2>1
  <2>3. b = a + 4 \/ (b = a + 6 /\ S[a + 4] = CR /\ S[a + 5] = LF)
    <3>1. Follows(S, first, h + 1, G)
      BY ONLY <1>1, <2>1
    <3>2. QED BY ONLY <2>1, <2>2, <3>1 DEF Follows
  <2>4. \A k \in 0..3 : S[a + k] # 45
    BY <1>1, <1>3, <2>2
  <2>5. \A j \in 1..(b - 1) : S[j] # 45
    <3> TAKE j \in 1..(b - 1)
    <3>1. CASE j <= a - 1
      <4>1. j \in 1..(first[h] - 1)
        BY <2>2, <3>1
      <4>2. QED BY <1>6, <4>1
    <3>2. CASE j \in a..(a + 3)
      <4>1. PICK k \in 0..3 : j = a + k
        <5>1. j - a \in 0..3 /\ j = a + (j - a)
          BY <3>2
        <5>2. QED BY <5>1
      <4>2. QED BY <2>4, <4>1
    <3>3. CASE j > a + 3
      <4>1. b = a + 6 /\ S[a + 4] = CR /\ S[a + 5] = LF
        BY <2>3, <3>3
      <4>2. j = a + 4 \/ j = a + 5
        BY <3>3, <4>1
      <4>3. QED BY <1>4, <4>1, <4>2
    <3>4. QED BY <3>1, <3>2, <3>3
  <2>6. QED BY <2>1, <2>2, <2>5
<1> HIDE DEF T
<1>7. \A h \in 0..G : h \in T
  <2>1. \A h \in 0..(G - 1) : h \in T => h + 1 \in T
    BY <1>6
  <2>2. QED BY ONLY <1>5, <2>1, UpTo, G \in Nat
<1>8. G \in T /\ first[G] - 1 = Len(S)
  BY <1>1, <1>7
<1>9. QED BY <1>8 DEF T, Free

\* Where the end of each kind of a part is found.
EndPlaces(code, S, str, kind, p) ==
    \/ p = Len(S)
    \/ code = "none" /\ p <= Len(S) /\ strstr(str, Boundary) # 0

LEMMA EndPlaceOf ==
    ASSUME NEW code, NEW W, NEW S, NEW str, NEW kind, StreamAs(code, S, str, kind),
           kind = "form" <=> code = "url", NEW M, M = (IF kind = "form" THEN StringEnd ELSE Boundary),
           Tailed(W, S, M), NEW p, OccursAt(W, M, p)
    PROVE  EndPlaces(code, S, str, kind, p)
<1>1. str \in Seq(1..127) /\ str \in Str
  BY TextStr DEF StreamAs
<1>2. CASE code = "none" /\ S = str
  <2>1. M = Boundary
    BY <1>2
  <2>2. p = Len(S) \/ p + 4 <= Len(S)
    BY <2>1, BoundaryPlace
  <2>3. CASE p + 4 <= Len(S)
    <3>1. /\ p \in Nat /\ Len(M) = 4 /\ (\A j \in 1..4 : W[p + j] = M[j]) /\ Len(S) \in Nat
          /\ \A i \in 1..Len(S) : W[i] = S[i]
      <4>1. Len(M) = 4
        BY <2>1, MarkersAre
      <4>2. p \in Nat /\ \A j \in 1..4 : W[p + j] = M[j]
        BY <4>1 DEF OccursAt
      <4>3. S \in Str /\ \A i \in 1..Len(S) : W[i] = S[i]
        BY DEF Tailed
      <4>4. Len(S) \in Nat
        BY <4>3 DEF Str
      <4>5. QED BY <4>1, <4>2, <4>3, <4>4
    <3>2. \A j \in 1..4 : S[p + j] = M[j]
      <4> TAKE j \in 1..4
      <4>1. p + j \in 1..Len(S)
        BY <2>3, <3>1
      <4>2. QED BY <3>1, <4>1
    <3>3. OccursAt(S, Boundary, p)
      BY <2>1, <2>3, <3>1, <3>2 DEF OccursAt
    <3>4. strstr(str, Boundary) # 0
      BY <1>1, <1>2, <3>3, MarkersAre, StrstrThere
    <3>5. p <= Len(S)
      BY <2>3, <3>1
    <3>6. QED BY <1>2, <3>4, <3>5 DEF EndPlaces
  <2>4. QED BY <2>2, <2>3 DEF EndPlaces
<1>3. CASE code = "url" /\ S = Escaped(str, PERCENT, 65)
  <2>1. M = StringEnd
    BY <1>3
  <2>2. EscapedAs(S, str, PERCENT, 65, Len(str))
    <3>1. PICK e \in Int, ten \in {65, 97} : e = PERCENT /\ ten = 65
      BY DEF PERCENT
    <3>2. EscapedAs(Escaped(str, e, ten), str, e, ten, Len(str))
      BY <1>1, EscapedAt
    <3>3. QED BY ONLY <1>3, <3>1, <3>2
  <2>3. Free(S, 115)
    <3>1. \A j \in 1..(3 * Len(str)) : S[j] = PERCENT \/ S[j] \in (48..57) \cup (65..70) \cup (97..102)
      BY <2>2, EscapedChars
    <3>2. Len(S) = 3 * Len(str)
      BY <2>2 DEF EscapedAs
    <3>3. \A j \in 1..Len(S) : S[j] # 115
      <4>1. \A c : c = PERCENT \/ c \in (48..57) \cup (65..70) \cup (97..102) => c # 115
        BY DEF PERCENT
      <4>2. QED BY ONLY <3>1, <3>2, <4>1
    <3>4. QED BY <3>3 DEF Free
  <2>0. Len(M) = 12
    BY <2>1, MarkersAre
  <2>4. PICK k \in 1..Len(M) : k = 7
    <3>1. 7 \in 1..Len(M)
      BY ONLY <2>0
    <3>2. QED BY <3>1
  <2>5. M[k] = 115 /\ \A j \in 1..(k - 1) : M[j] # M[k]
    <3>1. \A j \in 1..6 : j = 1 \/ j = 2 \/ j = 3 \/ j = 4 \/ j = 5 \/ j = 6
      OBVIOUS
    <3>2. \A j \in 1..6 : StringEnd[j] # 115
      <4>1. /\ StringEnd[1] # 115 /\ StringEnd[2] # 115 /\ StringEnd[3] # 115
            /\ StringEnd[4] # 115 /\ StringEnd[5] # 115 /\ StringEnd[6] # 115
        BY MarkersAre
      <4>2. QED BY ONLY <3>1, <4>1
    <3>3. QED BY <2>1, <2>4, <3>2, MarkersAre
  <2>6. p = Len(S)
    BY <2>3, <2>5, EndPlace
  <2>7. QED BY <2>6 DEF EndPlaces
<1>4. CASE code = "base64" /\ S = Lines(base64_encode(str))
  <2>1. M = Boundary
    BY <1>4
  <2>2. PICK first, G : Lined(S, str, first, G)
    BY <1>1, <1>4, LinesAt
  <2>3. Free(S, 45)
    BY <2>2, LinedFree
  <2>0. Len(M) = 4
    BY <2>1, MarkersAre
  <2>4. PICK k \in 1..Len(M) : k = 3
    <3>1. 3 \in 1..Len(M)
      BY ONLY <2>0
    <3>2. QED BY <3>1
  <2>5. M[k] = 45 /\ \A j \in 1..(k - 1) : M[j] # M[k]
    <3>1. \A j \in 1..2 : j = 1 \/ j = 2
      OBVIOUS
    <3>2. QED BY <2>1, <2>4, <3>1, MarkersAre
  <2>6. p = Len(S)
    BY <2>3, <2>5, EndPlace
  <2>7. QED BY <2>6 DEF EndPlaces
<1>5. QED BY <1>2, <1>3, <1>4 DEF StreamAs

\* A part, and what is sent with it.
WireOf(code, W, S, str, kind) ==
    /\ StreamAs(code, S, str, kind) /\ S \in Str /\ Followed(W, S) /\ (kind = "text" => W = S)
    /\ kind # "text" => Tailed(W, S, IF kind = "form" THEN StringEnd ELSE Boundary)

LEMMA StreamAsStr ==
    ASSUME NEW code, NEW S, NEW str, NEW kind, StreamAs(code, S, str, kind)
    PROVE  S \in Str
<1>1. str \in Seq(1..127) /\ str \in Str
  BY TextStr DEF StreamAs
<1>2. CASE S = str
  BY <1>1, <1>2
<1>3. CASE S = Escaped(str, PERCENT, 65)
  <2>1. PICK e \in Int, ten \in {65, 97} : e = PERCENT /\ ten = 65
    BY DEF PERCENT
  <2>2. EscapedAs(Escaped(str, e, ten), str, e, ten, Len(str))
    BY <1>1, EscapedAt
  <2>3. Escaped(str, e, ten) \in Str
    BY ONLY <2>2 DEF EscapedAs
  <2>4. QED BY ONLY <1>3, <2>1, <2>3
<1>4. CASE S = Lines(base64_encode(str))
  BY <1>1, <1>4, LinesAt DEF Lined
<1>5. QED BY <1>2, <1>3, <1>4 DEF StreamAs

LEMMA WireAs ==
    ASSUME NEW code, NEW S, NEW str, NEW kind, StreamAs(code, S, str, kind),
           NEW M, M = (IF kind = "form" THEN StringEnd ELSE Boundary),
           NEW W, W = (IF kind = "text" THEN S ELSE S \o M)
    PROVE  WireOf(code, W, S, str, kind)
<1>1. S \in Str
  BY StreamAsStr
<1>2. CASE kind = "text"
  <2>1. W = S
    BY <1>2
  <2>2. PICK n \in Nat : n = Len(S)
    BY <1>1 DEF Str
  <2>3. Followed(S, S)
    BY <1>1, <2>2 DEF Followed
  <2>4. QED BY <1>1, <1>2, <2>1, <2>3 DEF WireOf
<1>3. CASE kind # "text"
  <2>1. M \in Str /\ \A j \in 1..Len(M) : M[j] # EQUAL
    <3>1. CASE kind = "form"
      <4>1. M = StringEnd
        BY <3>1
      <4>2. M \in Str /\ Len(M) = 12
        BY <4>1, MarkersAre
      <4>3. \A j \in 1..12 : \/ j = 1 \/ j = 2 \/ j = 3 \/ j = 4 \/ j = 5 \/ j = 6
                           \/ j = 7 \/ j = 8 \/ j = 9 \/ j = 10 \/ j = 11 \/ j = 12
        OBVIOUS
      <4>4. /\ M[1] # 61 /\ M[2] # 61 /\ M[3] # 61 /\ M[4] # 61 /\ M[5] # 61 /\ M[6] # 61
            /\ M[7] # 61 /\ M[8] # 61 /\ M[9] # 61 /\ M[10] # 61 /\ M[11] # 61 /\ M[12] # 61
        BY <4>1, MarkersAre
      <4>5. \A j \in 1..12 : M[j] # 61
        BY ONLY <4>3, <4>4
      <4>6. QED BY <4>2, <4>5 DEF EQUAL
    <3>2. CASE kind # "form"
      <4>1. M = Boundary
        BY <3>2
      <4>2. M \in Str /\ Len(M) = 4
        BY <4>1, MarkersAre
      <4>3. \A j \in 1..4 : j = 1 \/ j = 2 \/ j = 3 \/ j = 4
        OBVIOUS
      <4>4. M[1] # 61 /\ M[2] # 61 /\ M[3] # 61 /\ M[4] # 61
        BY <4>1, MarkersAre
      <4>5. \A j \in 1..4 : M[j] # 61
        BY ONLY <4>3, <4>4
      <4>6. QED BY <4>2, <4>5 DEF EQUAL
    <3>3. QED BY <3>1, <3>2
  <2>2. W = S \o M
    BY <1>3
  <2>3. /\ W \in Str /\ Len(W) = Len(S) + Len(M) /\ (\A i \in 1..Len(S) : W[i] = S[i])
        /\ \A j \in 1..Len(M) : W[Len(S) + j] = M[j]
    BY <1>1, <2>1, <2>2, ConcatAt
  <2>4. Tailed(W, S, M)
    BY <1>1, <2>1, <2>3 DEF Tailed
  <2>5. PICK n \in Nat, l \in Nat : n = Len(S) /\ l = Len(M)
    BY <1>1, <2>1 DEF Str
  <2>6. \A i \in 1..Len(W) : i > Len(S) => W[i] # EQUAL
    <3> TAKE i \in 1..Len(W)
    <3> HAVE i > Len(S)
    <3>1. PICK j \in 1..l : i = n + j
      <4>1. i - n \in 1..l /\ i = n + (i - n)
        BY <2>3, <2>5
      <4>2. QED BY <4>1
    <3>2. QED BY <2>1, <2>3, <2>5, <3>1
  <2>7. Followed(W, S)
    BY <1>1, <2>3, <2>5, <2>6 DEF Followed
  <2>8. QED BY <1>1, <1>3, <2>4, <2>7 DEF WireOf
<1>4. QED BY <1>2, <1>3

LEMMA SubOfSub ==
    ASSUME NEW s, NEW a, NEW b, NEW x, SubIs(s, a, b, x), NEW q, NEW y, SubIs(x, 0, q, y)
    PROVE  SubIs(s, a, a + q, y)
<1>1. /\ s \in Str /\ a \in Nat /\ b \in Nat /\ a <= b /\ b <= Len(s)
      /\ x \in Str /\ Len(x) = b - a /\ \A i \in 1..(b - a) : x[i] = s[a + i]
  BY DEF SubIs
<1>2. y \in Str /\ q \in Nat /\ q <= Len(x) /\ Len(y) = q - 0 /\ \A i \in 1..(q - 0) : y[i] = x[0 + i]
  BY DEF SubIs
<1>3. q - 0 = q /\ \A i \in 1..q : 0 + i = i
  BY <1>2
<1>4. Len(y) = q /\ \A i \in 1..q : y[i] = x[i]
  BY ONLY <1>2, <1>3
<1>5. PICK c \in Nat : c = a + q /\ a <= c /\ c <= b /\ c - a = q
  <2>1. PICK c \in Nat : c = a + q
    BY <1>1, <1>2
  <2>2. a <= c /\ c <= b /\ c - a = q
    BY <1>1, <1>2, <2>1
  <2>3. QED BY <2>1, <2>2
<1>6. c <= Len(s)
  <2>1. Len(s) \in Nat
    BY <1>1 DEF Str
  <2>2. QED BY <1>1, <1>5, <2>1
<1>7. \A i \in 1..q : y[i] = s[a + i]
  <2>1. \A i \in 1..q : i \in 1..(b - a)
    BY <1>1, <1>2
  <2>2. QED BY ONLY <1>1, <1>4, <2>1
<1>8. SubIs(s, a, c, y)
  BY <1>1, <1>2, <1>4, <1>5, <1>6, <1>7 DEF SubIs
<1>9. QED BY <1>5, <1>8

\* The text of the packet raw of n characters is the first m of it; behind it is the
\* end, or there is no end in the packet.
PacketText(W, M, s, n, raw, m) ==
    /\ m \in 0..n /\ TextIn(raw) = SubSeq(W, s + 1, s + m) /\ Len(TextIn(raw)) = m
    /\ IF EndIn(raw) # 0 THEN OccursAt(W, M, s + m)
       ELSE m = n /\ \A p : p >= s /\ p + Len(M) <= s + n => ~OccursAt(W, M, p)

LEMMA TextOfPacket ==
    ASSUME NEW W \in Str, NEW s \in Nat, NEW n \in Nat, s + n <= Len(W), NEW raw, raw = SubSeq(W, s + 1, s + n),
           mail.kind # "text", NEW M, M = Marker
    PROVE  \E m \in 0..n : PacketText(W, M, s, n, raw, m)
<1>1. M \in Str
  BY MarkerStr
<1>2. PICK l \in Nat : l = Len(M)
  BY <1>1 DEF Str
<1>3. PICK b \in Nat : b = s + n /\ s <= b /\ b <= Len(W) /\ b - s = n
  OBVIOUS
<1>4. SubIs(W, s, b, raw)
  <2>1. SubIs(W, s, b, SubSeq(W, s + 1, b))
    BY <1>3, SubFacts
  <2>2. QED BY <1>3, <2>1
<1>5. raw \in Str /\ Len(raw) = n /\ \A i \in 1..n : raw[i] = W[s + i]
  BY <1>3, <1>4 DEF SubIs
<1>6. EndIn(raw) = strstr(raw, M)
  BY DEF EndIn
<1>7. \A x : OccursAt(raw, M, x) <=> x \in Nat /\ x + l <= n /\ OccursAt(W, M, s + x)
  <2> TAKE x
  <2>1. Len(W) \in Nat
    BY DEF Str
  <2>2. CASE x \in Nat /\ x + l <= n
    <3>1. \A j \in 1..l : x + j \in 1..n /\ s + (x + j) = (s + x) + j
      BY <2>2
    <3>2. \A j \in 1..l : raw[x + j] = W[(s + x) + j]
      BY ONLY <1>5, <3>1
    <3>3. s + x \in Nat /\ (s + x) + l <= Len(W)
      BY <1>2, <2>1, <2>2
    <3>4. OccursAt(raw, M, x) <=> \A j \in 1..l : raw[x + j] = M[j]
      BY <1>2, <1>5, <2>2 DEF OccursAt
    <3>5. OccursAt(W, M, s + x) <=> \A j \in 1..l : W[(s + x) + j] = M[j]
      BY <1>2, <3>3 DEF OccursAt
    <3>6. QED BY <2>2, <3>2, <3>4, <3>5
  <2>3. CASE ~(x \in Nat /\ x + l <= n)
    BY <1>2, <1>5, <2>3 DEF OccursAt
  <2>4. QED BY <2>2, <2>3
<1>8. CASE EndIn(raw) = 0
  <2>1. TextIn(raw) = raw
    BY <1>8 DEF TextIn
  <2>2. \A p : p >= s /\ p + Len(M) <= s + n => ~OccursAt(W, M, p)
    <3> TAKE p
    <3> HAVE p >= s /\ p + Len(M) <= s + n
    <3> SUFFICES ASSUME OccursAt(W, M, p) PROVE FALSE
      OBVIOUS
    <3>1. p \in Nat
      BY DEF OccursAt
    <3>2. PICK x \in Nat : p = s + x /\ x + l <= n
      <4>1. p - s \in Nat /\ p = s + (p - s) /\ p - s + l <= n
        BY <1>2, <3>1
      <4>2. QED BY <4>1
    <3>3. OccursAt(raw, M, x)
      BY <1>7, <3>2
    <3>4. QED BY <1>1, <1>5, <1>6, <1>8, <3>3, StrstrThere
  <2>3. n \in 0..n
    OBVIOUS
  <2>4. PacketText(W, M, s, n, raw, n)
    BY <1>5, <1>8, <2>1, <2>2, <2>3 DEF PacketText
  <2>5. QED BY <2>3, <2>4
<1>9. CASE EndIn(raw) # 0
  <2>1. PICK q \in Nat : q = EndIn(raw) /\ OccursAt(raw, M, q - 1)
    BY <1>1, <1>5, <1>6, <1>9, StrstrFinds
  <2>2. PICK m \in 0..n : m = q - 1
    <3>1. q - 1 \in Nat /\ q - 1 + l <= n
      BY <1>7, <2>1
    <3>2. q - 1 \in 0..n
      BY <1>2, <3>1
    <3>3. QED BY <3>2
  <2>3. OccursAt(W, M, s + m)
    BY <1>7, <2>1, <2>2
  <2>4. TextIn(raw) = SubSeq(raw, 1, m)
    BY <1>9, <2>1, <2>2 DEF TextIn
  <2>5. SubIs(raw, 0, m, TextIn(raw))
    <3>1. PICK a \in Nat, c \in Nat : a = 0 /\ c = m /\ a <= c /\ c <= Len(raw) /\ a + 1 = 1
      BY <1>5
    <3>2. SubIs(raw, a, c, SubSeq(raw, a + 1, c))
      BY <1>5, <3>1, SubFacts
    <3>3. QED BY <2>4, <3>1, <3>2
  <2>6. SubIs(W, s, s + m, TextIn(raw))
    BY <1>4, <2>5, SubOfSub
  <2>7. TextIn(raw) = SubSeq(W, s + 1, s + m)
    BY <2>6, SubOnly
  <2>8. Len(TextIn(raw)) = m
    <3>1. Len(TextIn(raw)) = s + m - s
      BY <2>6 DEF SubIs
    <3>2. QED BY <3>1
  <2>9. PacketText(W, M, s, n, raw, m)
    BY <1>9, <2>2, <2>3, <2>7, <2>8 DEF PacketText
  <2>10. QED BY <2>9
<1>10. QED BY <1>8, <1>9

\* A packet of any part.
LEMMA PacketRight ==
    ASSUME Waits, NEW code, NEW W, NEW S, NEW str, NEW kind, kind = mail.kind,
           WireOf(code, W, S, str, kind), kind = "form" <=> code = "url",
           PartKept(code, W, S, str, kind, sent, dlen, buf, content),
           NEW n \in Nat \ {0}, sent + n <= Len(W), NEW raw, raw = SubSeq(W, sent + 1, sent + n),
           NEW m \in 0..n, PacketText(W, Marker, sent, n, raw, m) \/ (kind = "text" /\ TextIn(raw) = raw /\ m = n),
           NEW text, text = TextIn(raw), NEW d, DecodedAs(code, text, m, d)
    PROVE  PacketGives(code, W, S, str, kind, m, text, d)
<1>1. W \in Str /\ Len(W) \in Nat /\ S \in Str /\ Len(S) \in Nat /\ sent \in Nat
  <2>1. W \in Str /\ S \in Str /\ sent \in Nat
    BY DEF WireOf, Followed, PartKept
  <2>2. QED BY <2>1 DEF Str
<1>2. text = SubSeq(W, sent + 1, sent + m) /\ sent < Len(W) /\ sent + m <= Len(W) /\ m \in Nat
  <2>1. text = SubSeq(W, sent + 1, sent + m)
    BY DEF PacketText
  <2>2. QED BY <1>1, <2>1
<1>3. kind = "text" => m > 0
  <2> HAVE kind = "text"
  <2>1. m = n
    BY DEF PacketText, EndIn
  <2>2. QED BY <2>1
<1>4. PastText(code, W, S, m)
  <2> SUFFICES ASSUME code = "base64" PROVE Len(W) <= Len(S) + 4 /\
                 (\/ sent + m <= Len(S) + 3
                  \/ /\ sent > Len(S) /\ sent + m = Len(S) + 4 /\ Len(W) = Len(S) + 4
                     /\ W[Len(S) + 1] = CR /\ W[Len(S) + 2] = LF)
    BY DEF PastText
  <2>1. CASE kind = "text"
    <3>1. W = S
      BY <2>1 DEF WireOf
    <3>2. QED BY <1>1, <1>2, <3>1
  <2>2. CASE kind # "text"
    <3>1. kind # "form" /\ Marker = Boundary
      BY DEF Marker
    <3>2. Tailed(W, S, Boundary) /\ StreamAs(code, S, str, kind)
      BY <2>2, <3>1 DEF WireOf
    <3>3. Len(Boundary) = 4 /\ Boundary[1] = CR /\ Boundary[2] = LF
      BY MarkersAre DEF CR, LF
    <3>4. Len(W) = Len(S) + 4 /\ W[Len(S) + 1] = CR /\ W[Len(S) + 2] = LF
      <4>1. 1 \in 1..Len(Boundary) /\ 2 \in 1..Len(Boundary)
        BY <3>3
      <4>2. QED BY <3>2, <3>3, <4>1 DEF Tailed
    <3>5. PacketText(W, Boundary, sent, n, raw, m)
      BY <2>2, <3>1
    <3>6. CASE EndIn(raw) # 0
      <4>1. OccursAt(W, Boundary, sent + m)
        BY <3>5, <3>6 DEF PacketText
      <4>2. EndPlaces(code, S, str, kind, sent + m)
        BY <3>1, <3>2, <4>1, EndPlaceOf
      <4>3. sent + m = Len(S)
        BY <4>2 DEF EndPlaces
      <4>4. QED BY <1>1, <3>4, <4>3
    <3>7. CASE ~(EndIn(raw) # 0)
      <4>1. m = n /\ \A p : p >= sent /\ p + 4 <= sent + n => ~OccursAt(W, Boundary, p)
        BY <3>3, <3>5, <3>7 DEF PacketText
      <4>2. OccursAt(W, Boundary, Len(S))
        BY <1>1, <3>2, <3>3, <3>4 DEF OccursAt, Tailed
      <4>3. ~(Len(S) >= sent /\ Len(S) + 4 <= sent + n)
        BY <4>1, <4>2
      <4>4. QED BY <1>1, <1>2, <3>4, <4>1, <4>3
    <3>8. QED BY <3>6, <3>7
  <2>3. QED BY <2>1, <2>2
<1>5. QED BY <1>1, <1>2, <1>3, <1>4, PacketGave

\* What is kept when the end is found.
EndKept(code, str, kept) ==
    kept = str \/ (code = "none" /\ strstr(str, Boundary) # 0 /\ IsPrefix(kept, str))

LEMMA EndRight ==
    ASSUME NEW code, NEW W, NEW S, NEW str, NEW kind, kind # "text",
           NEW came, NEW left, NEW waits, NEW kept, PartKept(code, W, S, str, kind, came, left, waits, kept),
           EndPlaces(code, S, str, kind, came)
    PROVE  EndKept(code, str, kept)
<1>1. str \in Seq(1..127) /\ str \in Str /\ Followed(W, S) /\ came \in Nat /\ Len(S) \in Nat
  BY TextStr DEF PartKept, Followed, Str
<1>2. CASE came = Len(S)
  <2>1. PartRight(code, S, str, kind, came, left, kept)
    BY KeptRight
  <2>2. came <= Len(S)
    BY <1>1, <1>2
  <2>3. QED BY <1>2, <2>1, <2>2 DEF PartRight, EndKept
<1>3. CASE code = "none" /\ came <= Len(S) /\ strstr(str, Boundary) # 0
  <2>1. PlainKept(W, S, str, came, left, kept)
    BY <1>3 DEF PartKept
  <2>2. SubIs(str, 0, came, kept)
    BY <1>1, <1>3, <2>1, SubOfText DEF PlainKept
  <2>3. IsPrefix(kept, str)
    BY <1>1, <2>2, SubBegins
  <2>4. QED BY <1>3, <2>3 DEF EndKept
<1>4. QED BY <1>2, <1>3 DEF EndPlaces

-----------------------------------------------------------------------------
(* TextRight in each state. *)

\* What is true of the part in hand: what is kept of it; and if an old "=" is in
\* the buffer of a text that leaves two bytes, it comes from the text of the mail.
OldEqual(code, S, str, came, waits, old) ==
    code = "base64" /\ Len(str) % 3 = 2 /\ came < Len(S) /\ Has(waits, EQUAL) => old
Going ==
    /\ mail \in Mails
    /\ PartKept(EncodingOf(Part), Wire(Part), Stream(Part), mail[Part], mail.kind, sent, dlen, buf, content)
    /\ OldEqual(EncodingOf(Part), Stream(Part), mail[Part], sent, buf,
                pc = "attach" /\ Has(Stream("content"), EQUAL))
    /\ pc = "content" /\ mail.kind = "mixed" => sent = 0 /\ dlen = 0 /\ buf = << >> /\ content = << >>
    /\ pc = "attach" => mail.kind = "mixed"
RightInv ==
    /\ pc = "crashed" => MayCrash
    /\ pc \in {"content", "attach"} /\ ~cut => Going
    /\ pc = "end" => EndKept(EncodingOf(Part), mail[Part], content)

LEMMA SentAs ==
    ASSUME NEW code \in {"base64", "url", "none"}, NEW str \in Seq(1..127), NEW kind, code = "url" => kind = "form",
           NEW S, S = CASE code = "base64" -> Lines(base64_encode(str))
                        [] code = "url" -> Escaped(str, PERCENT, 65)
                        [] code = "none" -> str
    PROVE  StreamAs(code, S, str, kind)
<1>1. CASE code = "base64"
  <2>1. S = Lines(base64_encode(str))
    BY <1>1
  <2>2. QED BY <1>1, <2>1 DEF StreamAs
<1>2. CASE code = "url"
  <2>1. S = Escaped(str, PERCENT, 65)
    BY <1>2
  <2>2. QED BY <1>2, <2>1 DEF StreamAs
<1>3. CASE code = "none"
  <2>1. S = str
    BY <1>3
  <2>2. QED BY <1>3, <2>1 DEF StreamAs
<1>4. QED BY <1>1, <1>2, <1>3

LEMMA StreamIsAs ==
    ASSUME mail \in Mails, NEW part \in {"content", "attach"}
    PROVE  StreamAs(EncodingOf(part), Stream(part), mail[part], mail.kind)
<1>1. mail[part] \in Seq(1..127) /\ EncodingOf(part) \in {"base64", "url", "none"}
  BY MailIs DEF EncodingOf
<1>2. EncodingOf(part) = "url" => mail.kind = "form"
  BY DEF EncodingOf, Mails, Encodings
<1>3. PICK code, S, str, kind : code = EncodingOf(part) /\ S = Stream(part) /\ str = mail[part] /\ kind = mail.kind
  OBVIOUS
<1>4. S = CASE code = "base64" -> Lines(base64_encode(str))
            [] code = "url" -> Escaped(str, PERCENT, 65)
            [] code = "none" -> str
  BY <1>3 DEF Stream
<1>5. StreamAs(code, S, str, kind)
  BY <1>1, <1>2, <1>3, <1>4, SentAs
<1>6. QED BY <1>3, <1>5

LEMMA WireIsAs ==
    ASSUME mail \in Mails, NEW part \in {"content", "attach"}
    PROVE  WireOf(EncodingOf(part), Wire(part), Stream(part), mail[part], mail.kind)
<1>1. PICK code, S, str, kind, W, M : /\ code = EncodingOf(part) /\ S = Stream(part) /\ str = mail[part]
                                      /\ kind = mail.kind /\ W = Wire(part) /\ M = Marker
  OBVIOUS
<1>2. StreamAs(code, S, str, kind)
  BY <1>1, StreamIsAs
<1>3. M = (IF kind = "form" THEN StringEnd ELSE Boundary) /\ W = (IF kind = "text" THEN S ELSE S \o M)
  BY <1>1 DEF Marker, Wire
<1>4. WireOf(code, W, S, str, kind)
  BY <1>2, <1>3, WireAs
<1>5. QED BY <1>1, <1>4

LEMMA StaysRight ==
    ASSUME RightInv, UNCHANGED <<pc, mail, sent, buf, dlen, content, cut>>
    PROVE  RightInv'
<1>1. Part' = Part /\ UNCHANGED <<pc, mail, sent, buf, dlen, content, cut>>
  BY DEF Part
<1>2. MayCrash' <=> MayCrash
  BY <1>1 DEF MayCrash, EncodingOf, Stream
<1>3. Going' <=> Going
  BY <1>1 DEF Going, EncodingOf, Wire, Marker, Stream
<1>4. EndKept(EncodingOf(Part), mail[Part], content)' <=> EndKept(EncodingOf(Part), mail[Part], content)
  BY <1>1 DEF EncodingOf
<1>5. QED BY <1>1, <1>2, <1>3, <1>4 DEF RightInv

\* The text begins.
LEMMA RightStart ==
    ASSUME NEW m \in Mails, StartContent(m)
    PROVE  RightInv'
<1>1. /\ mail' = m /\ sent' = 0 /\ buf' = << >> /\ dlen' = 0 /\ content' = << >> /\ pc' = "content"
  BY DEF StartContent
<1>2. Part' = "content"
  BY <1>1 DEF Part
<1>3. PICK code, S, str, kind, W, M : /\ code = EncodingOf("content")' /\ S = Stream("content")' /\ M = Marker'
                                      /\ str = mail'["content"] /\ kind = mail'.kind /\ W = Wire("content")'
  OBVIOUS
<1>4. code = m.encoding /\ str = m.content /\ kind = m.kind
  BY <1>1, <1>3 DEF EncodingOf
<1>5. StreamAs(code, S, str, kind)
  <2>1. str \in Seq(1..127) /\ code \in {"base64", "url", "none"}
    BY <1>4, MailIs
  <2>2. code = "url" => kind = "form"
    BY <1>4 DEF Mails, Encodings
  <2>3. S = CASE code = "base64" -> Lines(base64_encode(str))
              [] code = "url" -> Escaped(str, PERCENT, 65)
              [] code = "none" -> str
    BY <1>3 DEF Stream
  <2>4. QED BY <2>1, <2>2, <2>3, SentAs
<1>6. PartKept(code, W, S, str, kind, 0, 0, << >>, << >>)
  <2>1. M = (IF kind = "form" THEN StringEnd ELSE Boundary) /\ W = (IF kind = "text" THEN S ELSE S \o M)
    BY <1>3 DEF Marker, Wire
  <2>2. WireOf(code, W, S, str, kind)
    BY <1>5, <2>1, WireAs
  <2>3. QED BY <1>5, <2>2, KeptStart DEF WireOf
<1>7. ~Has(<< >>, EQUAL)
  <2>1. Len(<< >>) = 0 /\ 1..0 = {}
    BY SufEmpty DEF Str
  <2>2. QED BY <2>1 DEF Has
<1>8. EncodingOf(Part)' = code /\ Stream(Part)' = S /\ Wire(Part)' = W /\ mail[Part]' = str
  BY <1>2, <1>3 DEF EncodingOf, Wire, Stream
<1>9. Going'
  BY <1>1, <1>3, <1>6, <1>7, <1>8 DEF Going, OldEqual
<1>10. QED BY <1>1, <1>9 DEF RightInv

\* What a packet does, with what it decodes to.
LEMMA PacketDoes ==
    ASSUME NEW n, Packet(n), NEW raw, raw = SubSeq(Wire(pc), sent + 1, sent + n),
           NEW d, d = Decoded(TextIn(raw), raw)
    PROVE  \/ d.dlen < 0 /\ pc' = "crashed"
           \/ ~(d.dlen < 0) /\ pc' = "killed"
           \/ /\ ~(d.dlen < 0) /\ mail.kind = "mixed" /\ pc = "content" /\ pc' = "attach"
              /\ buf' = d.buf /\ sent' = 0 /\ dlen' = 0 /\ content' = << >>
           \/ /\ ~(d.dlen < 0) /\ ~(mail.kind = "mixed" /\ pc = "content")
              /\ pc' = (IF EndIn(raw) # 0 THEN "end" ELSE pc) /\ buf' = d.buf
              /\ cut' = (mail.kind = "form" /\ sent + n < Len(Stream(pc)) /\ (sent + n) % 3 # 0)
              /\ sent' = sent + n /\ dlen' = d.dlen /\ content' = content \o Appended(d.text, Len(TextIn(raw)))
<1> DEFINE e == Decoded(TextIn(SubSeq(Wire(pc), sent + 1, sent + n)), SubSeq(Wire(pc), sent + 1, sent + n))
           over == EndIn(SubSeq(Wire(pc), sent + 1, sent + n)) # 0
           long == Len(TextIn(SubSeq(Wire(pc), sent + 1, sent + n)))
           halved == mail.kind = "form" /\ sent + n < Len(Stream(pc)) /\ (sent + n) % 3 # 0
           attached == mail.kind = "mixed" /\ pc = "content"
<1>1. e = d /\ (over <=> EndIn(raw) # 0) /\ long = Len(TextIn(raw))
  OBVIOUS
<1>2. IF e.dlen < 0 THEN pc' = "crashed"
      ELSE /\ buf' = e.buf /\ cut' = halved
           /\ IF found' = 0 /\ attached
              THEN sent' = 0 /\ dlen' = 0 /\ content' = << >>
              ELSE sent' = sent + n /\ dlen' = e.dlen /\ content' = content \o Appended(e.text, long)
           /\ pc' = CASE found' # 0 -> "killed"
                      [] found' = 0 /\ attached -> "attach"
                      [] found' = 0 /\ ~attached -> IF over THEN "end" ELSE pc
  BY DEF Packet
<1> HIDE DEF e, over, long
<1>3. CASE d.dlen < 0
  BY <1>1, <1>2, <1>3
<1>4. CASE ~(d.dlen < 0)
  <2>1. /\ buf' = d.buf /\ cut' = halved
        /\ IF found' = 0 /\ attached
           THEN sent' = 0 /\ dlen' = 0 /\ content' = << >>
           ELSE sent' = sent + n /\ dlen' = d.dlen /\ content' = content \o Appended(d.text, Len(TextIn(raw)))
        /\ pc' = CASE found' # 0 -> "killed"
                   [] found' = 0 /\ attached -> "attach"
                   [] found' = 0 /\ ~attached -> IF over THEN "end" ELSE pc
    BY <1>1, <1>2, <1>4
  <2>2. CASE found' # 0
    BY <1>4, <2>1, <2>2
  <2>3. CASE found' = 0 /\ attached
    BY <1>4, <2>1, <2>3
  <2>4. CASE found' = 0 /\ ~attached
    BY <1>1, <1>4, <2>1, <2>4
  <2>5. QED BY <2>2, <2>3, <2>4
<1>5. QED BY <1>3, <1>4

LEMMA DecodesAs ==
    ASSUME NEW text, NEW raw, NEW m, Len(text) = m, NEW d, d = Decoded(text, raw)
    PROVE  DecodedAs(EncodingOf(pc), text, m, d)
<1>1. PICK D : D = base64_decode_stream(Filled(text), dlen + m)
  OBVIOUS
<1>2. CASE EncodingOf(pc) = "base64"
  <2>1. d = [bufp |-> D.out, text |-> D.out, buf |-> MovedUp(Filled(text), dlen + m, D.clen), dlen |-> D.clen]
    BY <1>1, <1>2 DEF Decoded
  <2>2. QED BY <1>1, <1>2, <2>1 DEF DecodedAs
<1>3. CASE EncodingOf(pc) = "url"
  <2>1. d = [bufp |-> IF text = << >> THEN raw ELSE FormText(text), text |-> FormText(text), buf |-> buf, dlen |-> dlen]
    BY <1>3 DEF Decoded
  <2>2. QED BY <1>3, <2>1 DEF DecodedAs
<1>4. CASE EncodingOf(pc) = "none"
  <2>1. d = [bufp |-> raw, text |-> text, buf |-> buf, dlen |-> dlen]
    BY <1>4 DEF Decoded
  <2>2. QED BY <1>4, <2>1 DEF DecodedAs
<1>5. QED BY <1>2, <1>3, <1>4 DEF DecodedAs

LEMMA RightPacket ==
    ASSUME KeywordInv, RightInv, NEW n, Packet(n)
    PROVE  RightInv'
<1>1. /\ pc \in {"content", "attach"} /\ mail' = mail /\ Going /\ Waits /\ sent \in Nat /\ mail \in Mails
      /\ n \in 1..Len(Wire(pc)) - sent
  BY DEF KeywordInv, TextInv, RightInv, Packet, Going
<1>2. Part = pc
  BY <1>1 DEF Going, Part
<1>3. PICK code, W, S, str, kind : /\ code = EncodingOf(pc) /\ W = Wire(pc) /\ S = Stream(pc)
                                   /\ str = mail[pc] /\ kind = mail.kind
  OBVIOUS
<1>4. /\ PartKept(code, W, S, str, kind, sent, dlen, buf, content)
      /\ OldEqual(code, S, str, sent, buf, pc = "attach" /\ Has(Stream("content"), EQUAL))
      /\ pc = "content" /\ kind = "mixed" => sent = 0 /\ dlen = 0 /\ buf = << >> /\ content = << >>
      /\ pc = "attach" => kind = "mixed"
  BY <1>1, <1>2, <1>3 DEF Going
<1>5. /\ WireOf(code, W, S, str, kind) /\ Followed(W, S) /\ W \in Str /\ S \in Str
      /\ Len(W) \in Nat /\ Len(S) \in Nat /\ (kind = "form" <=> code = "url")
  <2>1. WireOf(code, W, S, str, kind)
    BY <1>1, <1>3, WireIsAs
  <2>2. Followed(W, S) /\ W \in Str /\ S \in Str
    BY <2>1 DEF WireOf, Followed
  <2>3. kind = "form" => code = "url"
    BY <1>1, <1>3, <1>4 DEF EncodingOf, Mails, Encodings
  <2>4. code = "url" => kind = "form"
    BY <2>1 DEF WireOf, StreamAs
  <2>5. QED BY <2>1, <2>2, <2>3, <2>4 DEF Str
<1>6. PICK l \in Nat \ {0}, s \in Nat : l = n /\ s = sent /\ s + l <= Len(W)
  BY <1>1, <1>3, <1>5
<1>7. PICK raw : raw = SubSeq(W, s + 1, s + l)
  OBVIOUS
<1>8. PICK m \in 0..l : PacketText(W, Marker, s, l, raw, m) \/ (kind = "text" /\ TextIn(raw) = raw /\ m = l)
  <2>1. CASE kind = "text"
    <3>1. TextIn(raw) = raw /\ l \in 0..l
      BY <1>3, <2>1 DEF TextIn, EndIn
    <3>2. QED BY <2>1, <3>1
  <2>2. CASE kind # "text"
    BY <1>3, <1>5, <1>6, <1>7, <2>2, TextOfPacket
  <2>3. QED BY <2>1, <2>2
<1>9. PICK text : text = TextIn(raw)
  OBVIOUS
<1>10. m \in Nat /\ s + m <= Len(W) /\ PieceAt(text, W, s, m)
  <2>1. text = SubSeq(W, s + 1, s + m)
    BY <1>7, <1>8, <1>9 DEF PacketText
  <2>2. m \in Nat /\ s + m <= Len(W)
    BY <1>5, <1>6
  <2>3. QED BY <1>5, <2>1, <2>2, PieceOf
<1>11. text \in Str /\ Len(text) = m /\ \A i \in 1..m : text[i] = W[s + i]
  BY <1>10 DEF PieceAt
<1>12. PICK d : d = Decoded(text, raw)
  OBVIOUS
<1>13. PacketGives(code, W, S, str, kind, m, text, d)
  <2>1. DecodedAs(code, text, m, d)
    BY <1>3, <1>11, <1>12, DecodesAs
  <2>2. /\ PacketText(W, Marker, sent, l, raw, m) \/ (kind = "text" /\ TextIn(raw) = raw /\ m = l)
        /\ raw = SubSeq(W, sent + 1, sent + l) /\ sent + l <= Len(W)
    BY <1>6, <1>7, <1>8
  <2>3. QED BY <1>1, <1>3, <1>4, <1>5, <1>9, <2>1, <2>2, PacketRight
<1>14. \/ d.dlen < 0 /\ pc' = "crashed"
       \/ ~(d.dlen < 0) /\ pc' = "killed"
       \/ /\ ~(d.dlen < 0) /\ mail.kind = "mixed" /\ pc = "content" /\ pc' = "attach"
          /\ buf' = d.buf /\ sent' = 0 /\ dlen' = 0 /\ content' = << >>
       \/ /\ ~(d.dlen < 0) /\ ~(mail.kind = "mixed" /\ pc = "content")
          /\ pc' = (IF EndIn(raw) # 0 THEN "end" ELSE pc) /\ buf' = d.buf
          /\ cut' = (mail.kind = "form" /\ sent + n < Len(Stream(pc)) /\ (sent + n) % 3 # 0)
          /\ sent' = sent + n /\ dlen' = d.dlen /\ content' = content \o Appended(d.text, Len(TextIn(raw)))
  <2>1. raw = SubSeq(Wire(pc), sent + 1, sent + n)
    BY <1>3, <1>6, <1>7
  <2>2. QED BY <1>9, <1>12, <2>1, PacketDoes
<1>15. CASE d.dlen < 0 /\ pc' = "crashed"
  <2>1. code = "base64" /\ Len(str) % 3 = 2 /\ Has(buf, EQUAL) /\ sent < Len(S)
    BY <1>13, <1>15 DEF PacketGives
  <2>2. pc = "attach" /\ Has(Stream("content"), EQUAL) /\ kind = "mixed"
    BY <1>4, <2>1 DEF OldEqual
  <2>3. EQUAL \in ToSet(Stream("content"))
    <3>1. PICK w \in Str : w = Stream("content")
      BY <1>1, StreamStr
    <3>2. PICK i \in 1..Len(w) : w[i] = EQUAL
      BY <2>2, <3>1 DEF Has
    <3>3. DOMAIN w = 1..Len(w)
      BY LenProperties DEF Str
    <3>4. QED BY <3>1, <3>2, <3>3 DEF ToSet
  <2>4. Part' = "attach"
    BY <1>1, <1>3, <1>15, <2>2 DEF Part
  <2>5. EncodingOf("attach")' = EncodingOf("attach") /\ Stream("content")' = Stream("content")
    BY <1>1 DEF EncodingOf, Stream
  <2>6. MayCrash'
    BY <1>1, <1>3, <2>1, <2>2, <2>3, <2>4, <2>5 DEF MayCrash
  <2>7. QED BY <1>15, <2>6 DEF RightInv
<1>16. CASE ~(d.dlen < 0) /\ pc' = "killed"
  BY <1>16 DEF RightInv
<1>17. CASE /\ ~(d.dlen < 0) /\ mail.kind = "mixed" /\ pc = "content" /\ pc' = "attach"
            /\ buf' = d.buf /\ sent' = 0 /\ dlen' = 0 /\ content' = << >>
  <2>1. Part' = "attach"
    BY <1>1, <1>17 DEF Part
  <2>2. PICK code2, W2, S2, str2 : /\ code2 = EncodingOf("attach") /\ W2 = Wire("attach")
                                   /\ S2 = Stream("attach") /\ str2 = mail["attach"]
    OBVIOUS
  <2>3. WireOf(code2, W2, S2, str2, kind)
    BY <1>1, <1>3, <2>2, WireIsAs
  <2>4. PartKept(code2, W2, S2, str2, kind, 0, 0, d.buf, << >>)
    BY <2>3, KeptStart DEF WireOf
  <2>5. /\ EncodingOf(Part)' = code2 /\ Wire(Part)' = W2 /\ Stream(Part)' = S2 /\ mail[Part]' = str2
        /\ mail'.kind = kind /\ Stream("content")' = S
    BY <1>1, <1>3, <1>17, <2>1, <2>2 DEF EncodingOf, Wire, Marker, Stream
  <2>6. Has(d.buf, EQUAL) => Has(S, EQUAL)
    <3> HAVE Has(d.buf, EQUAL)
    <3>1. ~Has(buf, EQUAL)
      <4>1. buf = << >> /\ Len(<< >>) = 0 /\ 1..0 = {}
        BY <1>3, <1>4, <1>17, SufEmpty DEF Str
      <4>2. QED BY <4>1 DEF Has
    <3>2. Has(text, EQUAL)
      BY <1>13, <1>17, <3>1 DEF PacketGives
    <3>3. PICK i \in 1..m : text[i] = EQUAL
      BY <1>11, <3>2 DEF Has
    <3>4. PICK j \in 1..Len(W) : j = s + i /\ W[j] = EQUAL
      <4>1. s + i \in 1..Len(W)
        BY <1>5, <1>10
      <4>2. QED BY <1>11, <3>3, <4>1
    <3>5. j \in 1..Len(S) /\ S[j] = EQUAL
      BY <1>5, <3>4 DEF Followed
    <3>6. QED BY <3>5 DEF Has
  <2>7. Going'
    BY <1>1, <1>3, <1>17, <2>1, <2>4, <2>5, <2>6 DEF Going, OldEqual
  <2>8. QED BY <1>17, <2>7 DEF RightInv
<1>18. CASE /\ ~(d.dlen < 0) /\ ~(mail.kind = "mixed" /\ pc = "content")
            /\ pc' = (IF EndIn(raw) # 0 THEN "end" ELSE pc) /\ buf' = d.buf
            /\ cut' = (mail.kind = "form" /\ sent + n < Len(Stream(pc)) /\ (sent + n) % 3 # 0)
            /\ sent' = sent + n /\ dlen' = d.dlen /\ content' = content \o Appended(d.text, Len(TextIn(raw)))
  <2>1. content' = content \o Appends(kind, d.text, m)
    BY <1>3, <1>9, <1>11, <1>18 DEF Appended, Appends
  <2>2. (kind = "form" /\ sent + m < Len(S) => (sent + m) % 3 = 0) =>
          PartKept(code, W, S, str, kind, sent + m, dlen', buf', content')
    BY <1>13, <1>18, <2>1 DEF PacketGives
  <2>3. Part' = pc
    BY <1>1, <1>3, <1>4, <1>18 DEF Part
  <2>4. /\ EncodingOf(Part)' = code /\ Wire(Part)' = W /\ Stream(Part)' = S /\ mail[Part]' = str
        /\ mail'.kind = kind /\ Stream("content")' = Stream("content")
    BY <1>1, <1>3, <2>3 DEF EncodingOf, Wire, Marker, Stream
  <2>5. CASE EndIn(raw) # 0
    <3>1. kind # "text" /\ PacketText(W, Marker, s, l, raw, m)
      BY <1>3, <1>8, <2>5 DEF EndIn
    <3>2. OccursAt(W, Marker, sent + m)
      BY <1>6, <2>5, <3>1 DEF PacketText
    <3>3. PICK M : M = Marker /\ M = (IF kind = "form" THEN StringEnd ELSE Boundary)
      BY <1>3 DEF Marker
    <3>4. EndPlaces(code, S, str, kind, sent + m)
      <4>1. StreamAs(code, S, str, kind) /\ Tailed(W, S, M)
        BY <1>5, <3>1, <3>3 DEF WireOf
      <4>2. OccursAt(W, M, sent + m)
        BY <3>2, <3>3
      <4>3. QED BY ONLY <1>5, <3>3, <4>1, <4>2, EndPlaceOf
    <3>5. ~(kind = "form" /\ sent + m < Len(S))
      <4>1. code # "none" => sent + m = Len(S)
        BY <3>4 DEF EndPlaces
      <4>2. kind = "form" => sent + m = Len(S)
        BY <1>5, <4>1
      <4>3. QED BY <1>5, <4>2
    <3>6. PartKept(code, W, S, str, kind, sent + m, dlen', buf', content')
      BY <2>2, <3>5
    <3>7. EndKept(code, str, content')
      BY <3>1, <3>4, <3>6, EndRight
    <3>8. pc' = "end"
      BY <1>18, <2>5
    <3>9. QED BY <2>4, <3>7, <3>8 DEF RightInv
  <2>6. CASE EndIn(raw) = 0
    <3>1. pc' = pc
      BY <1>18, <2>6
    <3>2. SUFFICES ASSUME ~cut' PROVE Going'
      BY <1>1, <3>1 DEF RightInv
    <3>3. m = n
      BY <1>6, <1>8, <2>6 DEF PacketText
    <3>4. kind = "form" /\ sent + m < Len(S) => (sent + m) % 3 = 0
      BY <1>3, <1>18, <3>2, <3>3
    <3>5. PartKept(code, W, S, str, kind, sent', dlen', buf', content')
      BY <1>18, <2>2, <3>3, <3>4
    <3>6. OldEqual(code, S, str, sent', buf', pc' = "attach" /\ Has(Stream("content"), EQUAL))
      <4> SUFFICES ASSUME code = "base64", Len(str) % 3 = 2, sent' < Len(S), Has(buf', EQUAL)
                   PROVE  pc' = "attach" /\ Has(Stream("content"), EQUAL)
        BY DEF OldEqual
      <4>1. PICK b \in Nat : b = Len(S) /\ s + m < b
        BY <1>5, <1>6, <1>18, <3>3
      <4>2. ~Has(text, EQUAL)
        <5>1. SUFFICES ASSUME Has(text, EQUAL) PROVE FALSE
          OBVIOUS
        <5>2. PICK i \in 1..m : text[i] = EQUAL
          BY <1>11, <5>1 DEF Has
        <5>3. PICK first, G : Lined(S, str, first, G)
          BY <1>4 DEF PartKept, CodeKept, CodeOver
        <5>4. \A j \in 1..Len(S) : S[j] = EQUAL => j = Len(S)
          BY <5>3, OneEqual
        <5>5. W[s + i] = EQUAL /\ s + i \in 1..b /\ s + i # b
          BY <1>11, <4>1, <5>2
        <5>6. S[s + i] = EQUAL
          BY <1>5, <4>1, <5>5 DEF Followed
        <5>7. QED BY <4>1, <5>4, <5>5, <5>6
      <4>3. Has(buf, EQUAL)
        BY <1>13, <1>18, <4>2 DEF PacketGives
      <4>4. sent < Len(S)
        BY <1>6, <1>10, <4>1
      <4>5. QED BY <1>4, <3>1, <4>3, <4>4 DEF OldEqual
    <3>7. (pc' = "content" => kind # "mixed") /\ (pc' = "attach" => kind = "mixed")
      BY <1>1, <1>3, <1>4, <1>18, <3>1
    <3>8. QED BY <1>1, <2>4, <3>5, <3>6, <3>7 DEF Going
  <2>7. QED BY <2>5, <2>6
<1>19. QED BY <1>14, <1>15, <1>16, <1>17, <1>18

LEMMA RightStep ==
    ASSUME KeywordInv, RightInv, [Next]_vars
    PROVE  RightInv'
<1>1. CASE UNCHANGED <<pc, mail, sent, buf, dlen, content, cut>>
  BY <1>1, StaysRight
<1>2. ASSUME NEW way \in Ways, NEW name \in Names, NEW after \in Afters, Field(way, name, after)
      PROVE  RightInv'
  <2>1. pc' \in {"killed", "field"}
    BY <1>2 DEF Field
  <2>2. QED BY <2>1 DEF RightInv
<1>3. CASE AutomatonNext /\ UNCHANGED <<pc, mailVars, seen>>
  BY <1>1, <1>3 DEF mailVars, seen
<1>4. ASSUME NEW m \in Mails, StartContent(m) PROVE RightInv'
  BY <1>4, RightStart
<1>5. ASSUME NEW n, Packet(n) PROVE RightInv'
  BY <1>5, RightPacket
<1>6. CASE UNCHANGED vars
  BY <1>1, <1>6 DEF vars, mailVars, seen
<1>7. QED BY <1>2, <1>3, <1>4, <1>5, <1>6 DEF Next

\* However the packets of a text and of the end behind it are cut, what is kept is
\* what was sent, as far as it came, or begins with it if a packet ended inside of
\* the end; where the end is found, it is all that was sent, but for a text that has
\* a boundary itself; and the process ends in none but the one case (TextRight).
THEOREM TextsRight == Spec => []TextRight
<1>1. Init => RightInv
  BY DEF Init, RightInv
<1>2. RightInv => TextRight
  <2> SUFFICES ASSUME RightInv PROVE TextRight
    OBVIOUS
  <2>1. pc = "crashed" => MayCrash
    BY DEF RightInv
  <2>2. ASSUME pc \in {"content", "attach"}, ~cut
        PROVE  /\ dlen \in 0..3
               /\ IF sent <= Len(Stream(Part))
                  THEN /\ IsPrefix(CString(content), mail[Part])
                       /\ sent = Len(Stream(Part)) /\ (mail.kind # "text" \/ EncodingOf(Part) = "none")
                            => content = mail[Part]
                  ELSE IsPrefix(mail[Part], content)
    <3>1. Going
      BY <2>2 DEF RightInv
    <3>2. PartRight(EncodingOf(Part), Stream(Part), mail[Part], mail.kind, sent, dlen, content)
      BY <3>1, KeptRight DEF Going
    <3>3. QED BY <3>2 DEF PartRight
  <2>3. pc = "end" => EndKept(EncodingOf(Part), mail[Part], content)
    BY DEF RightInv
  <2>4. QED BY <2>1, <2>2, <2>3 DEF TextRight, EndKept
<1>3. KeywordInv /\ RightInv /\ [Next]_vars => KeywordInv' /\ RightInv'
  BY KeywordStep, RightStep
<1>4. QED BY <1>1, <1>2, <1>3, KeywordInit, PTL DEF Spec
=============================================================================
