------------------------------ MODULE Decoders ------------------------------
(***************************************************************************)
(* The decoders of utils/base64.c and utils/urlencode.c, and the           *)
(* functions on strings of utils/match.c.  Bytes are 0..255, characters    *)
(* their ASCII codes.  A C function that is given a pointer into a buffer  *)
(* is an operator of the buffer, with the position where it begins: what   *)
(* follows the data counts, because the code reads it.                     *)
(***************************************************************************)
EXTENDS Integers, Sequences, FiniteSets, SequencesExt

NUL == 0
CR == 13
LF == 10
SPACE == 32
PERCENT == 37
PLUS == 43
EQUAL == 61
QUESTION == 63
Letter_B == 66
Letter_Q == 81

Byte(n) == n % 256

\* A byte of a buffer.  What lies behind the part in use is zero.
At(buf, p) == IF p \in DOMAIN buf THEN buf[p] ELSE NUL
\* From p on; 0 for NULL.
strchr(s, p, c) == SelectInSubSeq(s, p, Len(s), LAMBDA d : d = c)
\* What a C string holds.
CString(s) == IF strchr(s, 1, NUL) = 0 THEN s ELSE SubSeq(s, 1, strchr(s, 1, NUL) - 1)
\* Where w is in s first; 0 for NULL.
strstr(s, w) ==
    LET there == {p \in 1..Len(s) - Len(w) + 1 : SubSeq(s, p, p + Len(w) - 1) = w}
    IN  IF there = {} THEN 0 ELSE Min(there)
\* What is copied from p on.
strcpychr(s, p, c) == SubSeq(s, p, strchr(s, p, c) - 1)

------------------------------------------------------------------------------
(* base64.c *)

\* base64: the character of six bits; esab: the bits of a character, 0 for
\* one that is not in the alphabet.
Base(n) == CASE n < 26 -> 65 + n
             [] n \in 26..51 -> 97 + n - 26
             [] n \in 52..61 -> 48 + n - 52
             [] n = 62 -> 43
             [] n = 63 -> 47
Esab(c) == CASE c \in 65..90 -> c - 65
             [] c \in 97..122 -> c - 97 + 26
             [] c \in 48..57 -> c - 48 + 52
             [] c = 43 -> 62
             [] c = 47 -> 63
             [] OTHER -> 0

\* The three bytes of the four characters at p.
Group(buf, p) ==
    LET t(i) == Esab(At(buf, p + i))
    IN  << Byte(t(0) * 4 + t(1) \div 16),
           Byte(t(1) * 16 + t(2) \div 4),
           Byte(t(2) * 64 + t(3)) >>

base64_equal_sign(buf, p) == Cardinality({i \in 0..3 : At(buf, p + i) = EQUAL})

\* The four characters of the three bytes at p.
Quad(str, p) ==
    << Base(At(str, p) \div 4),
       Base((At(str, p) % 4) * 16 + At(str, p + 1) \div 16),
       Base((At(str, p + 1) % 16) * 4 + At(str, p + 2) \div 64),
       Base(At(str, p + 2) % 64) >>

base64_encode(str) ==
    LET slen == Len(str)
        Code[i \in 1..slen + 3] ==      \* of the bytes from i on
          CASE i > slen -> << >>
            [] slen - i = 0 -> SubSeq(Quad(str, i), 1, 2) \o <<EQUAL, EQUAL>>
            [] slen - i = 1 -> SubSeq(Quad(str, i), 1, 3) \o <<EQUAL>>
            [] OTHER -> Quad(str, i) \o Code[i + 3]
    IN  Code[1]

\* The two blocks after the loop of a decoder: the groups with padding.  The
\* second looks at what p points to after the first, the "=" itself and three
\* characters more.  moves says that q moves on, as in base64_decode only.
Padding(buf, p, moves) ==
    LET one == base64_equal_sign(buf, p) = 1
        p2 == IF one THEN p + 3 ELSE p
        two == base64_equal_sign(buf, p2) = 2
        first == IF one THEN SubSeq(Group(buf, p), 1, 2) ELSE << >>
        last == Group(buf, p2)[1]
    IN  [out |-> CASE ~two -> first
                   [] two /\ (moves \/ ~one) -> Append(first, last)
                   [] two /\ ~moves /\ one -> <<last, first[2], NUL>>,
         groups |-> (IF one THEN 1 ELSE 0) + (IF two THEN 1 ELSE 0)]

\* The loop of base64_decode_stream over the n characters in buf, from p on:
\* where it ends, and what it writes.
StreamLoop(buf, n) ==
    LET Loop[p \in 1..n + 1] ==
          IF n + 1 - p < 4 \/ base64_equal_sign(buf, p) # 0 THEN [at |-> p, out |-> << >>]
          ELSE IF buf[p] = CR THEN Loop[p + 2]
          ELSE [Loop[p + 4] EXCEPT !.out = Group(buf, p) \o Loop[p + 4].out]
    IN  Loop[1]

\* base64_decode_stream: the text, and *clen, what is left in the buffer.
base64_decode_stream(buf, n) ==
    LET loop == StreamLoop(buf, n)
        left == n + 1 - loop.at
        pad == Padding(buf, loop.at, FALSE)
    IN  IF left < 4
        THEN [out |-> loop.out, clen |-> left]
        ELSE [out |-> loop.out \o pad.out, clen |-> left - 4 * pad.groups]

\* base64_decode of the n characters at p.
base64_decode(buf, p, n) ==
    LET full == {k \in 0..n \div 4 : \A i \in 0..k - 1 : base64_equal_sign(buf, p + 4 * i) = 0}
        k == CHOOSE k \in full : \A j \in full : j <= k
        text == FlattenSeq([i \in 1..k |-> Group(buf, p + 4 * (i - 1))])
    IN  IF n = 0 \/ n % 4 # 0 THEN << >>
        ELSE IF n = 4 * k THEN text
        ELSE text \o Padding(buf, p + 4 * k, TRUE).out

------------------------------------------------------------------------------
(* urlencode.c *)

\* Faulty: digits of more than four bits are taken for nothing.
url_decode_byteStrict(s, p) ==
    LET digit(c) == IF c >= 65 THEN c - 55 ELSE c - 48
        bits(d) == IF d \in 0..15 THEN d ELSE 0
    IN  bits(digit(At(s, p))) * 16 + bits(digit(At(s, p + 1)))

\* The arithmetic is on bytes: it gives small letters their digit, too.
url_decode_byte(s, p) ==
    LET digit(c) == Byte(IF c >= 65 THEN c - 55 ELSE c - 48)
    IN  Byte(digit(At(s, p)) * 16) + (digit(At(s, p + 1)) % 16)

\* The loop of the decoders: from the character at i up to slen, with an escape
\* character and two digits; plus says that "+" is a space.  A NUL ends it.
\* cut says that an escape with less than two characters behind it ends it.
Unescape(s, slen, escape, plus, cut) ==
    LET Rest[i \in 1..slen + 3] ==
          CASE i > slen -> << >>
            [] i <= slen /\ plus /\ s[i] = PLUS -> <<SPACE>> \o Rest[i + 1]
            [] i <= slen /\ s[i] = escape ->
                 IF cut /\ i + 2 > slen THEN << >>
                 ELSE <<url_decode_byte(s, i + 1)>> \o Rest[i + 3]
            [] i <= slen /\ s[i] = NUL -> << >>
            [] OTHER -> <<s[i]>> \o Rest[i + 1]
    IN  Rest[1]

url_decode(s, slen) == Unescape(s, slen, PERCENT, TRUE, FALSE)
url_decode_replace(s, slen) == Unescape(s, slen, PERCENT, TRUE, TRUE)
quote_decode(s, slen) == Unescape(s, slen, EQUAL, FALSE, FALSE)

\* str_decode of the string raw, an encoded word or a plain one.  CRASH: strchr
\* finds no "?" and its NULL is read from.
CRASH == <<-1>>
str_decode(raw) ==
    LET encoded == At(raw, 1) = EQUAL \/ At(raw, 2) = EQUAL
        start == IF At(raw, 1) = EQUAL THEN 3 ELSE 4
        p == strchr(raw, start, QUESTION)
        q == strchr(raw, p + 3, QUESTION)
        word == SubSeq(raw, p + 3, Len(raw))
        after == SubSeq(raw, q + 2, Len(raw))
    IN  CASE ~encoded -> url_decode_replace(raw, Len(raw))
          [] encoded /\ p = 0 -> CRASH
          [] encoded /\ p # 0 /\ At(raw, p + 1) \notin {Letter_Q, Letter_B} -> raw
          [] encoded /\ p # 0 /\ At(raw, p + 1) = Letter_Q ->
               IF q = 0 THEN CRASH ELSE quote_decode(word, q - p - 3) \o after
          [] OTHER ->
               IF q = 0 THEN CRASH ELSE base64_decode(raw, p + 3, q - p - 3) \o after
==============================================================================
