------------------------------ MODULE Content ------------------------------
(***************************************************************************)
(* What a mail says, and what is seen of it: the header fields, the text   *)
(* and the attachment of one mail of analy_noweb.c, or the text of a form  *)
(* of analy_webmail.c, on their way through the decoders and the keyword   *)
(* automaton.  Noweb and Webmail have the control of the threads that do   *)
(* this; here is the data.  The text comes in packets that are cut         *)
(* anywhere; what base64 leaves undecoded at the end of one waits in the   *)
(* static buf for the next.                                                *)
(***************************************************************************)
EXTENDS Automaton, Decoders

CONSTANTS Names,       \* what a header field says
          Afters,      \* what follows an encoded word in the field
          Texts,       \* the texts of mails
          Attachments, \* the texts of attachments
          LineLen      \* the characters of a line of base64: a multiple of 4

ASSUME TextsAssumption ==
    \A t \in Names \cup Afters \cup Texts \cup Attachments : t \in Seq(1..127)
ASSUME LineAssumption == LineLen \in Nat \ {0} /\ LineLen % 4 = 0

VARIABLES
    pc,            \* field, content, attach, and how it ended
    field,         \* the last header field: how it was sent, and what it decodes to
    mail,          \* the mail as it was sent
    sent,          \* the characters of the part in hand that came
    buf, dlen,     \* static: what was not decoded yet, and its length
    content,       \* node->mail->content, then node->mail->attach_content
    bufp, found,   \* history: what was searched last, and the word found in it
    cut            \* history: a packet of a form ended inside of an escape

mailVars == <<field, mail, sent, buf, dlen, content>>
seen == <<bufp, found, cut>>
vars == <<amVars, pc, mailVars, seen>>

Ways == {"plain", "url", "quoted", "QUOTED", "base64", "form"}
Encodings == {"none", "base64"}
Mails ==
    [kind : {"text", "alternative"}, content : Texts, encoding : Encodings,
     attach : {<< >>}, attach_encoding : {"none"}]
    \cup [kind : {"form"}, content : Texts, encoding : {"url"},
          attach : {<< >>}, attach_encoding : {"none"}]
    \cup [kind : {"mixed"}, content : Texts, encoding : Encodings,
          attach : Attachments, attach_encoding : Encodings]

Init ==
    /\ AutomatonInit
    /\ pc = "field" /\ field = << >> /\ mail = << >> /\ sent = 0
    /\ buf = << >> /\ dlen = 0 /\ content = << >>
    /\ bufp = << >> /\ found = 0 /\ cut = FALSE

\* match_match of a string.
Search(str) == bufp' = CString(str) /\ found' = am_match(CString(str))

------------------------------------------------------------------------------
(* Header fields: parse_mime; the fields of a form: parse_sendmail_xml.       *)
(* Nothing of a field is left when the text begins, so that a behaviour       *)
(* decodes one field, or the text.                                            *)

\* How a field is written by the sender, in capital or small digits.
Digit(n, ten) == IF n < 10 THEN 48 + n ELSE ten + n - 10
Escaped(name, escape, ten) ==
    FlattenSeq([i \in DOMAIN name |->
                  <<escape, Digit(name[i] \div 16, ten), Digit(name[i] % 16, ten)>>])
EncodedWord(letter, word) ==
    <<EQUAL, QUESTION, 117, QUESTION, letter, QUESTION>> \o word \o <<QUESTION, EQUAL>>
Raw(way, name) ==
    CASE way = "plain" -> name
      [] way \in {"url", "form"} -> Escaped(name, PERCENT, 65)
      [] way = "quoted" -> EncodedWord(Letter_Q, Escaped(name, EQUAL, 97))
      [] way = "QUOTED" -> EncodedWord(Letter_Q, Escaped(name, EQUAL, 65))
      [] way = "base64" -> EncodedWord(Letter_B, base64_encode(name))

Field(way, name, after) ==
    /\ pc = "field" /\ am = "built" /\ field = << >>
    /\ LET line == Raw(way, name) \o after \o <<CR, LF>>
           raw == strcpychr(line, 1, CR)
           str == IF way = "form" THEN url_decode(raw, Len(raw)) ELSE str_decode(raw)
       IN  /\ field' = [way |-> way, name |-> name, after |-> after, str |-> CString(str)]
           /\ Search(str)
    /\ pc' = IF found' # 0 THEN "killed" ELSE "field"
    /\ UNCHANGED <<amVars, mail, sent, buf, dlen, content, cut>>

------------------------------------------------------------------------------
(* The text and the attachment: parse_content, and KEY_CONTENT of             *)
(* parse_sendmail_xml, which has url_decode_replace in the place of base64.    *)

Part == IF mail.kind = "mixed" /\ pc # "content" THEN "attach" ELSE "content"
EncodingOf(part) == IF part = "content" THEN mail.encoding ELSE mail.attach_encoding
Lines(code) ==
    FlattenSeq([i \in DOMAIN code |->
                  IF i % LineLen = 0 /\ i < Len(code) THEN <<code[i], CR, LF>> ELSE <<code[i]>>])
Stream(part) ==
    CASE EncodingOf(part) = "base64" -> Lines(base64_encode(mail[part]))
      [] EncodingOf(part) = "url" -> Escaped(mail[part], PERCENT, 65)
      [] EncodingOf(part) = "none" -> mail[part]
\* What is looked for behind a part: "\r\n--", or "%3C%2Fstring" behind that of a
\* form.  A mail that is nothing but a text has no end that is looked for.
Boundary == <<CR, LF, 45, 45>>
StringEnd == <<PERCENT, 51, 67, PERCENT, 50, 70, 115, 116, 114, 105, 110, 103>>
Marker == IF mail.kind = "form" THEN StringEnd ELSE Boundary
Wire(part) == IF mail.kind = "text" THEN Stream(part) ELSE Stream(part) \o Marker

\* STATE_START: the static variables are cleared.
StartContent(m) ==
    /\ pc = "field" /\ am = "built" /\ field = << >>
    /\ mail' = m /\ sent' = 0
    /\ buf' = << >> /\ dlen' = 0 /\ content' = << >>
    /\ pc' = "content"
    /\ UNCHANGED <<amVars, field, seen>>

\* memcpy(buf + dlen, p, tmplen): what is behind it stays.
Filled(raw) ==
    [i \in 1..Max({Len(buf), dlen + Len(raw)}) |->
       IF i \in dlen + 1 .. dlen + Len(raw) THEN raw[i - dlen] ELSE buf[i]]
\* Faulty: the rest of a packet is moved from one place too early.
MovedUpEarly(filled, zlen, left) ==
    [i \in DOMAIN filled |->
       IF i <= left THEN filled[Max({1, i + zlen - left - 1})] ELSE filled[i]]

\* memmove(buf, buf + zlen - dlen, dlen): likewise.
MovedUp(filled, zlen, left) ==
    [i \in DOMAIN filled |-> IF i <= left THEN filled[i + zlen - left] ELSE filled[i]]

\* The text of a form is decoded in the packet, each packet by itself.
FormText(raw) == url_decode_replace(raw, Len(raw))

\* The text of a packet raw: what is searched, what is kept of it, and what waits.
\* A plain text is searched where it is, with all that is behind it in the packet;
\* so is a form of which there is nothing in front of the end.
Decoded(text, raw) ==
    LET zlen == dlen + Len(text)
        code == base64_decode_stream(Filled(text), zlen)
    IN  CASE EncodingOf(pc) = "base64" ->
               [bufp |-> code.out, text |-> code.out,
                buf |-> MovedUp(Filled(text), zlen, code.clen), dlen |-> code.clen]
          [] EncodingOf(pc) = "url" ->
               [bufp |-> IF text = << >> THEN raw ELSE FormText(text), text |-> FormText(text),
                buf |-> buf, dlen |-> dlen]
          [] EncodingOf(pc) = "none" ->
               [bufp |-> raw, text |-> text, buf |-> buf, dlen |-> dlen]

\* What is appended: of a mail that is nothing but a text, as many bytes of
\* debuf as were sent, zeros behind what was decoded; of others what was decoded.
Appended(text, len) ==
    IF mail.kind = "text" THEN [i \in 1..len |-> At(text, i)] ELSE text

\* The end of the part in a packet, 0 if it is not all in this packet (strstr), and
\* the text in front of it.
EndIn(raw) == IF mail.kind = "text" THEN 0 ELSE strstr(raw, Marker)
TextIn(raw) == IF EndIn(raw) = 0 THEN raw ELSE SubSeq(raw, 1, EndIn(raw) - 1)

\* The next n characters of the part and of the marker behind it.  A marker that is
\* cut by the edge of a packet is taken for text.  A mail with an attachment looks
\* for its name in all that follows the first packet of the text.  memmove of a
\* negative length ends the process.  (Bounds: a form is not followed behind a cut
\* escape, and no part behind its marker.)
Packet(n) ==
    /\ pc \in {"content", "attach"} /\ ~cut
    /\ n \in 1..Len(Wire(pc)) - sent
    /\ LET raw == SubSeq(Wire(pc), sent + 1, sent + n)
           text == TextIn(raw)
           d == Decoded(text, raw)
           attached == mail.kind = "mixed" /\ pc = "content"
       IN  IF d.dlen < 0
           THEN /\ pc' = "crashed"
                /\ UNCHANGED <<sent, buf, dlen, content, seen>>
           ELSE /\ Search(d.bufp) /\ buf' = d.buf
                /\ cut' = (mail.kind = "form" /\ sent + n < Len(Stream(pc)) /\ (sent + n) % 3 # 0)
                /\ IF found' = 0 /\ attached
                   THEN sent' = 0 /\ dlen' = 0 /\ content' = << >>
                   ELSE sent' = sent + n /\ dlen' = d.dlen
                        /\ content' = content \o Appended(d.text, Len(text))
                /\ pc' = CASE found' # 0 -> "killed"
                           [] found' = 0 /\ attached -> "attach"
                           [] found' = 0 /\ ~attached -> IF EndIn(raw) # 0 THEN "end" ELSE pc
    /\ UNCHANGED <<amVars, field, mail>>

Next ==
    \/ AutomatonNext /\ UNCHANGED <<pc, mailVars, seen>>
    \/ \E way \in Ways, name \in Names, after \in Afters : Field(way, name, after)
    \/ \E m \in Mails : StartContent(m)
    \/ mail # << >> /\ \E n \in 1..Len(Wire(Part)) : Packet(n)

Spec == Init /\ [][Next]_vars
\* A call of am_build goes on until it returns.
FairSpec == Spec /\ WF_vars((BuildNode \/ BuildReturn) /\ UNCHANGED <<pc, mailVars, seen>>)

------------------------------------------------------------------------------
TypeOK ==
    /\ pc \in {"field", "content", "attach", "end", "killed", "crashed"}
    /\ am \in {"adding", "building", "built"} /\ word_vector \in Seq(Words)
    /\ mail \in Mails \cup {<< >>}
    /\ sent \in Nat /\ dlen \in Int /\ found \in 0..Len(word_vector)
    /\ \A s \in {buf, content, bufp} : s \in Seq(0..255)

\* What is found in a string, decoded or not, is a keyword that occurs there, the
\* first that ends; if nothing is found, no keyword occurs that is not hidden by
\* the middle of a longer one (am_match).
FindsFirstKeyword == am = "built" => FindsFirst(bufp, found)

\* A field reads as the sender wrote it, in each encoding (str_decode, url_decode).
\* Not so a base64 word with one "=": base64_decode takes the "=" and the "?="
\* for another group, and what follows in the field is lost.  Nor a field that is
\* not encoded and has "+" or "%", which are taken for a space and an escape
\* (urlencode.c:66), or "=" as its first or second character, which is taken for
\* an encoded word (urlencode.c:168): the Names are such that none is.
FieldWhole ==
    field # << >> =>
      IF field.way = "base64" /\ Len(field.name) % 3 = 2
      THEN field.str = field.name
      ELSE field.str = field.name \o field.after

\* However the packets are cut, the text is what was sent, as far as it came, and
\* at most three characters wait for the next packet (base64.c:220); when the end
\* is found, it is all that was sent.  If a packet ends inside of the boundary, or
\* of the end of a form, it is not found (analy_noweb.c:550, 663, analy_webmail.c:519,
\* 548), and other things follow the text in what is kept.  A text that is not
\* encoded ends where it has the boundary itself, as in front of a signature.
\* A mail that is nothing but a text shows, of base64, only the first packet.
\* An escape of a form that is cut is lost (the FIXME at analy_webmail.c:524).
\* The old contents of the buffer may end the process at an attachment that ends
\* in one "=", if the text before it had one, too.
MayCrash == /\ Part = "attach" /\ EncodingOf("attach") = "base64"
            /\ Len(mail.attach) % 3 = 2
            /\ EQUAL \in ToSet(Stream("content"))
TextRight ==
    /\ pc = "crashed" => MayCrash
    /\ pc \in {"content", "attach"} /\ ~cut =>
         /\ dlen \in 0..3
         /\ IF sent <= Len(Stream(Part))
            THEN /\ IsPrefix(CString(content), mail[Part])
                 /\ sent = Len(Stream(Part)) /\ (mail.kind # "text" \/ EncodingOf(Part) = "none")
                      => content = mail[Part]
            ELSE IsPrefix(mail[Part], content)
    /\ pc = "end" =>
         \/ content = mail[Part]
         \/ /\ EncodingOf(Part) = "none" /\ strstr(mail[Part], Boundary) # 0
            /\ IsPrefix(content, mail[Part])
==============================================================================
