--------------------------- MODULE WsjtxProtocol ---------------------------
(***************************************************************************)
(* What WSJT-X sends and what the program makes of it, wsjtx/protocol.rs:  *)
(* the cursor over a datagram (`parse_logged_adif') and the inspector of   *)
(* an ADIF record (`summarize_adif'), as operators over sequences, and a   *)
(* listener that hears one of them after another.                          *)
(*                                                                         *)
(* Bytes are scaled down: a byte is 0..3, a word two bytes with the first  *)
(* the higher (u32::from_be_bytes of four in the program), signed above    *)
(* the half.  Byte 3 leads a character of two bytes, byte 2 continues it,  *)
(* 0 and 1 are characters of their own.                                    *)
(***************************************************************************)
EXTENDS Integers, SequencesExt

CONSTANTS
    Datagrams, \* what arrives at the socket
    Records,   \* what WSJT-X logs: sequences of items
    Chars,     \* the characters of a value, with "e-acute" for one of two bytes
    Numeral    \* the texts of the numbers from 0 on, one symbol each

Byte == 0..3
WordSize == 2
Words == 0..15
Half == 8
Magic == 9                  \* MAGIC
MsgTypeLoggedAdif == 12     \* MSG_TYPE_LOGGED_ADIF
Lead == 3
Continuation == 2

ASSUME DatagramsAssumption == Datagrams \subseteq Seq(Byte)

\* std::str::from_utf8 accepts s.
Utf8(s) ==
    \A i \in DOMAIN s :
        /\ s[i] = Lead => i < Len(s) /\ s[i + 1] = Continuation
        /\ s[i] = Continuation => i > 1 /\ s[i - 1] = Lead

\* The qint32 of a quint32.  (The mistake: lengths are taken unsigned.)
Unsigned(w) == w
Signed(w)   == IF w < Half THEN w ELSE w - 2 * Half

-----------------------------------------------------------------------------
(* The cursor: each read gives its value, whether it succeeded and the     *)
(* position after it.                                                      *)
Failure(pos) == [ok |-> FALSE, value |-> <<>>, pos |-> pos]

Take(buf, pos, n) ==
    IF pos + n > Len(buf) THEN Failure(pos)
    ELSE [ok |-> TRUE, value |-> SubSeq(buf, pos + 1, pos + n), pos |-> pos + n]

ReadU32(buf, pos) ==
    LET t == Take(buf, pos, WordSize)
    IN  IF t.ok THEN [t EXCEPT !.value = 4 * t.value[1] + t.value[2]] ELSE t

\* -1 is the null string, taken for an empty one.
ReadQString(buf, pos) ==
    LET w   == ReadU32(buf, pos)
        len == Signed(w.value)
        t   == Take(buf, w.pos, len)
    IN  IF ~w.ok THEN w
        ELSE IF len = -1 THEN [w EXCEPT !.value = <<>>]
        ELSE IF len < 0 THEN Failure(w.pos)
        ELSE IF t.ok /\ Utf8(t.value) THEN t
        ELSE Failure(w.pos)

Malformed == [kind |-> "Err", adif |-> <<>>]
Ignored   == [kind |-> "None", adif |-> <<>>]

\* The text after the header is read only when the message is a LoggedADIF.
ParseLoggedAdif(buf) ==
    LET magic  == ReadU32(buf, 0)
        schema == ReadU32(buf, magic.pos)
        type   == ReadU32(buf, schema.pos)
        id     == ReadQString(buf, type.pos)
        adif   == ReadQString(buf, id.pos)
    IN  IF ~magic.ok \/ magic.value # Magic \/ ~schema.ok \/ ~type.ok THEN Malformed
        ELSE IF type.value # MsgTypeLoggedAdif THEN Ignored
        ELSE IF ~id.ok \/ ~adif.ok THEN Malformed
        ELSE [kind |-> "Some", adif |-> adif.value]

-----------------------------------------------------------------------------
(* What the sender writes: a header of three words and two strings, and    *)
(* maybe more that the program does not read.                              *)
Encoded(w) == <<w \div 4, w % 4>>

Header(schema) == Encoded(Magic) \o Encoded(schema) \o Encoded(MsgTypeLoggedAdif)

\* The texts that stand in s, as long as a length can be.
Texts(s) ==
    {t \in {SubSeq(s, i, j) : i \in 1..(Len(s) + 1), j \in 0..Len(s)} : Utf8(t) /\ Len(t) < Half}

Encodings(t) == {Encoded(Len(t)) \o t} \cup (IF t = <<>> THEN {Encoded(2 * Half - 1)} ELSE {})

\* The records a datagram says were logged: after a header and an encoding of
\* some name it has an encoding of them.
Readings(d) ==
    LET body == SubSeq(d, 3 * WordSize + 1, Len(d))
    IN  IF \E schema \in Words : IsPrefix(Header(schema), d)
        THEN {adif \in Texts(body) : \E id \in Texts(body) :
                 \E f \in Encodings(id), e \in Encodings(adif) : IsPrefix(f \o e, body)}
        ELSE {}

-----------------------------------------------------------------------------
(* The inspector.  An ADIF record is a sequence of bytes, each a symbol:   *)
(* the punctuation, numerals (one symbol each), names, and the two bytes   *)
(* of a character of two.  Names are compared after folding their case.    *)
Absent  == <<"None">>
Panic   == <<"panic">>

\* The first position of ch at or after `from', or 0.
Find(s, from, ch) ==
    LET at == {i \in from..Len(s) : s[i] = ch}
    IN  IF at = {} THEN 0 ELSE CHOOSE i \in at : \A j \in at : i <= j

\* A slice may begin or end here: not inside a character.
Boundary(s, i) == i > Len(s) \/ s[i] # "trail"

\* The header's part before its first colon, and the one up to the next.
TagPart(header) ==
    LET c == Find(header, 1, ":") IN IF c = 0 THEN header ELSE SubSeq(header, 1, c - 1)
LengthPart(header) ==
    LET c == Find(header, 1, ":")
        d == Find(header, c + 1, ":")
    IN  IF c = 0 THEN <<>> ELSE SubSeq(header, c + 1, IF d = 0 THEN Len(header) ELSE d - 1)
HasLength(header) == \E n \in DOMAIN Numeral : LengthPart(header) = <<Numeral[n]>>
LengthIn(header)  == (CHOOSE n \in DOMAIN Numeral : LengthPart(header) = <<Numeral[n]>>) - 1

\* Where the search goes on after the value of another field.  (The mistake:
\* after its header.)
AfterHeader(valueStart, valueEnd) == valueStart
AfterValue(valueStart, valueEnd)  == valueEnd

\* The value of the first field of that name, from position c on.  The search
\* panics where it slices inside a character.
AdifField(s, name) ==
    LET scan[c \in 1..(Len(s) + 1)] ==
            LET open   == Find(s, c, "<")
                close  == Find(s, open + 1, ">")
                header == SubSeq(s, open + 1, close - 1)
                start  == close + 1
                end    == start + LengthIn(header)
            IN  IF ~Boundary(s, c) THEN Panic
                ELSE IF open = 0 \/ close = 0 THEN Absent
                ELSE IF ~HasLength(header) THEN scan[start]
                ELSE IF end > Len(s) + 1 THEN Absent
                ELSE IF TagPart(header) # <<name>> THEN scan[AfterValue(start, end)]
                ELSE IF Boundary(s, end) THEN SubSeq(s, start, end - 1)
                ELSE Panic
    IN  scan[1]

Names == {"CALL", "MODE", "BAND"}
SummaryPanics(s) == \E n \in Names : AdifField(s, n) = Panic

-----------------------------------------------------------------------------
(* Records as WSJT-X writes them: items, each after a space.  An item is a *)
(* sentinel, or a field: a name, the length of the value, a type or none,  *)
(* the value.  A value is any text, also one that looks like a field.      *)
Sentinels == {"EOH", "EOR"}
Tags      == Names \cup Sentinels \cup {"COMMENT"}
Kinds     == {<<>>, <<":", "S">>}
Items     == [name : Tags, kind : Kinds, text : Seq(Chars)]

Bytes(text) ==
    FlattenSeq([i \in DOMAIN text |->
        IF text[i] = "e-acute" THEN <<"lead", "trail">> ELSE <<text[i]>>])

\* An item, where its length is taken to be len.
ItemText(item, len) ==
    IF item.name \in Sentinels THEN <<" ", "<", item.name, ">">>
    ELSE <<" ", "<", item.name, ":", Numeral[len + 1]>> \o item.kind \o <<">">> \o Bytes(item.text)

\* Lengths count bytes.  (Where they count characters the inspector may slice
\* inside one.)
InBytes(item) == ItemText(item, Len(Bytes(item.text)))
InChars(item) == ItemText(item, Len(item.text))

Written(r) == FlattenSeq([i \in DOMAIN r |-> InBytes(r[i])])

ASSUME NumeralAssumption ==
    /\ Numeral \in Seq(STRING)
    /\ \A m, n \in DOMAIN Numeral : Numeral[m] = Numeral[n] => m = n
    /\ \A n \in DOMAIN Numeral : Numeral[n] \notin {":", ">"}
ASSUME RecordsAssumption ==
    \A r \in Records : /\ r \in Seq(Items)
                       /\ \A i \in DOMAIN r : Len(Bytes(r[i].text)) < Len(Numeral)

-----------------------------------------------------------------------------
(* The listener looks at one thing after another: a datagram, or the       *)
(* record it has found in one.                                             *)
VARIABLE heard

Nothing == [kind |-> "nothing"]

Hear ==
    /\ heard = Nothing
    /\ heard' \in [kind : {"datagram"}, bytes : Datagrams] \cup [kind : {"record"}, record : Records]

Handled ==
    /\ heard # Nothing
    /\ heard' = Nothing

-----------------------------------------------------------------------------
(* Properties.                                                             *)

\* A datagram gives a QSO exactly when it begins with an encoding of one, and
\* then gives that very text: no negative, oversized or null length, stray
\* byte, cut or foreign header is read as a contact or hides one.
DecodesEncodings ==
    heard.kind = "datagram" =>
        LET r == ParseLoggedAdif(heard.bytes)
        IN  Readings(heard.bytes) = IF r.kind = "Some" THEN {r.adif} ELSE {}

\* The value of the first item of that name, if there is one.
ValueOf(r, name) ==
    LET i == Find([k \in DOMAIN r |-> r[k].name], 1, name)
    IN  IF i = 0 THEN Absent ELSE Bytes(r[i].text)

\* In a record whose lengths count bytes each field is found, whole, whatever
\* stands in the other fields' values, and a field that is not there is not.
FindsTheField ==
    heard.kind = "record" =>
        \A name \in Names : AdifField(Written(heard.record), name) = ValueOf(heard.record, name)

=============================================================================
