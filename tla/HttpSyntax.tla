----------------------------- MODULE HttpSyntax -----------------------------
(***************************************************************************)
(* What utility.hpp reads and what server_http.hpp and client_http.hpp     *)
(* write of a message before its content: percent coding, query strings,   *)
(* header fields and their attributes, request and status lines.           *)
(*                                                                         *)
(* A text is the sequence of its characters' codes.  A multimap of fields  *)
(* is the sequence in which they are inserted, or written.                 *)
(***************************************************************************)
EXTENDS Integers, SequencesExt

LF == 10
CR == 13
SP == 32
QUOTE == 34
PERCENT == 37
AMPERSAND == 38
PLUS == 43
SLASH == 47
COLON == 58
SEMICOLON == 59
EQUALS == 61
QUESTION == 63

Line == <<CR, LF>>

From(s, i) == SubSeq(s, i, Len(s))

\* The first place, from one on, of one of some characters, and the last place
\* of a character; 0 if there is none.
Place(s, from, chars) == SelectInSubSeq(s, from, Len(s), LAMBDA c : c \in chars)
LastPlace(s, char) == SelectLastInSeq(s, LAMBDA c : c = char)

\* What is before, between and behind the places of a character.
Pieces(s, char) ==
    LET pieces[i \in 1..(Len(s) + 1)] ==
          LET end == Place(s, i, {char})
          IN IF end = 0 THEN <<From(s, i)>>
             ELSE <<SubSeq(s, i, end - 1)>> \o pieces[end + 1]
    IN pieces[1]

Field(name, value) == [name |-> name, value |-> value]

Lower(c) == IF c \in 65..90 THEN c + 32 ELSE c

EqualNoCase(s, t) ==
    /\ Len(s) = Len(t)
    /\ \A i \in 1..Len(s) : Lower(s[i]) = Lower(t[i])

\* The values of a name in a header; names are compared without their case.
Values(header, name) == {f.value : f \in {g \in ToSet(header) : EqualNoCase(g.name, name)}}

-----------------------------------------------------------------------------
(* Percent *)

\* The characters that are encoded: ! # $ & .. , / .. ; = ? @ [ ].
Special == {33, 35, 36} \cup 38..44 \cup 47..59 \cup {61, 63, 64, 91, 93}

HexDigit(n) == IF n < 10 THEN 48 + n ELSE 55 + n

\* A likely slip: a plus looks as if it needed no code.
EncodeLeavesPlus(value) ==
    LET coded(c) ==
          IF c = SP THEN <<PLUS>>
          ELSE IF c \in Special \ {PLUS} THEN <<PERCENT, HexDigit(c \div 16), HexDigit(c % 16)>>
          ELSE <<c>>
    IN FlattenSeq([i \in 1..Len(value) |-> coded(value[i])])

Encode(value) ==
    LET coded(c) ==
          IF c = SP THEN <<PLUS>>
          ELSE IF c \in Special THEN <<PERCENT, HexDigit(c \div 16), HexDigit(c % 16)>>
          ELSE <<c>>
    IN FlattenSeq([i \in 1..Len(value) |-> coded(value[i])])

\* -1 if it is no hexadecimal digit.
HexValue(c) ==
    IF c \in 48..57 THEN c - 48
    ELSE IF Lower(c) \in 97..102 THEN Lower(c) - 87
    ELSE -1

\* strtol() of two characters, as a char: blanks and a sign may come first, and
\* what is no number is 0.
Number(a, b) ==
    LET first == HexValue(a)
        second == HexValue(b)
    IN IF first >= 0 THEN (IF second >= 0 THEN 16 * first + second ELSE first)
       ELSE IF a \in {SP, PLUS} /\ second >= 0 THEN second
       ELSE IF a = 45 /\ second > 0 THEN 256 - second
       ELSE 0

Decode(value) ==
    LET decoded[i \in 1..(Len(value) + 1)] ==
          IF i > Len(value) THEN <<>>
          ELSE IF value[i] = PERCENT /\ i + 2 <= Len(value)
            THEN <<Number(value[i + 1], value[i + 2])>> \o decoded[i + 3]
          ELSE <<IF value[i] = PLUS THEN SP ELSE value[i]>> \o decoded[i + 1]
    IN decoded[1]

-----------------------------------------------------------------------------
(* QueryString *)

QueryCreate(fields) ==
    FlattenSeq([i \in 1..Len(fields) |->
        (IF i = 1 THEN <<>> ELSE <<AMPERSAND>>)
            \o fields[i].name \o <<EQUALS>> \o Encode(fields[i].value)])

\* The last "=" of a piece ends the name; pieces without a name are dropped.
QueryParse(query) ==
    LET field(piece) ==
          LET eq == LastPlace(piece, EQUALS)
          IN IF eq = 0 THEN Field(piece, <<>>)
             ELSE Field(SubSeq(piece, 1, eq - 1), Decode(From(piece, eq + 1)))
        fields(piece) == IF field(piece).name = <<>> THEN <<>> ELSE <<field(piece)>>
        pieces == Pieces(query, AMPERSAND)
    IN FlattenSeq([k \in 1..Len(pieces) |-> fields(pieces[k])])

-----------------------------------------------------------------------------
(* HttpHeader *)

\* The lines up to the first without a colon.  A blank behind the colon and the
\* last character of the line, its CR, do not count.
HeaderParse(lines) ==
    LET end == SelectInSeq(lines, LAMBDA line : Place(line, 1, {COLON}) = 0)
        fields(line) ==
          LET colon == Place(line, 1, {COLON})
              start == IF colon < Len(line) /\ line[colon + 1] = SP THEN colon + 2 ELSE colon + 1
          IN IF start <= Len(line)
             THEN <<Field(SubSeq(line, 1, colon - 1), SubSeq(line, start, Len(line) - 1))>>
             ELSE <<>>
    IN FlattenSeq([k \in 1..(IF end = 0 THEN Len(lines) ELSE end - 1) |-> fields(lines[k])])

\* SemicolonSeparatedAttributes: a name begins at what is neither blank nor
\* semicolon and ends before a semicolon or "=", a value before a quote or a
\* semicolon that is not its first character.
AttributesParse(str) ==
    LET parsed[i \in 1..(Len(str) + 1)] ==
          LET begin == Place(str, i, Int \ {SP, SEMICOLON})
              end == Place(str, begin + 1, {SEMICOLON, EQUALS})
              name == SubSeq(str, begin, end - 1)
              quoted == end + 1 < Len(str) /\ str[end + 1] = QUOTE
              value == IF quoted THEN end + 2 ELSE end + 1
              stop == Place(str, end + 2, {QUOTE, SEMICOLON})
          IN IF begin = 0 THEN <<>>
             ELSE IF end = 0 THEN <<Field(From(str, begin), <<>>)>>
             ELSE IF str[end] = SEMICOLON THEN <<Field(name, <<>>)>> \o parsed[end + 1]
             ELSE IF end = Len(str) THEN <<>>
             ELSE IF stop = 0 THEN <<Field(name, Decode(From(str, value)))>>
             ELSE <<Field(name, Decode(SubSeq(str, value, stop - 1)))>> \o parsed[stop + 1]
    IN parsed[1]

-----------------------------------------------------------------------------
(* RequestMessage and ResponseMessage *)

HTTP == <<72, 84, 84, 80>>
Version == <<49, 46, 49>>
Host == <<72, 111, 115, 116>>
ContentLength == <<67, 111, 110, 116, 101, 110, 116, 45, 76, 101, 110, 103, 116, 104>>
TransferEncoding ==
    <<84, 114, 97, 110, 115, 102, 101, 114, 45, 69, 110, 99, 111, 100, 105, 110, 103>>
Chunked == <<99, 104, 117, 110, 107, 101, 100>>

NotParsed == [ok |-> FALSE]

\* The last "?" of the target begins the query.
RequestParse(text) ==
    LET lines == Pieces(text, LF)
        line == lines[1]
        blank == Place(line, 1, {SP})
        end == Place(line, blank + 1, {SP})
        target == SubSeq(line, blank + 1, end - 1)
        query == LastPlace(target, QUESTION)
        slash == Place(line, end + 1, {SLASH})
    IN IF blank = 0 \/ end = 0 \/ slash = 0 \/ SubSeq(line, end + 1, slash - 1) # HTTP
       THEN NotParsed
       ELSE [ok |-> TRUE,
             method |-> SubSeq(line, 1, blank - 1),
             path |-> IF query = 0 THEN target ELSE SubSeq(target, 1, query - 1),
             query |-> IF query = 0 THEN <<>> ELSE From(target, query + 1),
             version |-> SubSeq(line, slash + 1, Len(line) - 1),
             header |-> HeaderParse(Tail(lines))]

ResponseParse(text) ==
    LET lines == Pieces(text, LF)
        line == lines[1]
        blank == Place(line, 1, {SP})
    IN IF blank = 0 \/ Len(line) <= 5 \/ blank = Len(line)
       THEN NotParsed
       ELSE [ok |-> TRUE,
             version |-> SubSeq(line, 6, IF blank > 5 THEN blank - 1 ELSE Len(line)),
             status |-> SubSeq(line, blank + 1, Len(line) - 1),
             header |-> HeaderParse(Tail(lines))]

-----------------------------------------------------------------------------
(* What the client and the server write *)

HeaderText(header) ==
    FlattenSeq([i \in 1..Len(header) |->
        header[i].name \o <<COLON, SP>> \o header[i].value \o Line])

\* Lengths of one digit.
Digits(n) == <<48 + n>>

LengthField(n) == Field(ContentLength, Digits(n))

\* Client::request(): the length of a content that is not said to be chunked.
RequestText(method, path, host, header, n) ==
    LET announced == \/ Values(header, ContentLength) # {}
                     \/ Chunked \in Values(header, TransferEncoding)
    IN method \o <<SP>> \o (IF path = <<>> THEN <<SLASH>> ELSE path) \o <<SP>>
         \o HTTP \o <<SLASH>> \o Version \o Line
         \o HeaderText(<<Field(Host, host)>> \o header)
         \o HeaderText(IF n > 0 /\ ~announced THEN <<LengthField(n)>> ELSE <<>>) \o Line

\* A likely slip: an empty content gets no length, as with the client.
ResponseTextUnlessEmpty(status, header, n, closes) ==
    LET silent == \/ n = 0 \/ closes \/ Values(header, ContentLength) # {}
                  \/ \E v \in Values(header, TransferEncoding) : EqualNoCase(v, Chunked)
    IN HTTP \o <<SLASH>> \o Version \o <<SP>> \o status \o Line
         \o HeaderText(header) \o HeaderText(IF silent THEN <<>> ELSE <<LengthField(n)>>) \o Line

\* Response::write(): the length also of a content that is empty, unless the
\* connection is closed behind it.
ResponseText(status, header, n, closes) ==
    LET announced == \/ Values(header, ContentLength) # {}
                     \/ \E v \in Values(header, TransferEncoding) : EqualNoCase(v, Chunked)
    IN HTTP \o <<SLASH>> \o Version \o <<SP>> \o status \o Line
         \o HeaderText(header)
         \o HeaderText(IF announced \/ closes THEN <<>> ELSE <<LengthField(n)>>) \o Line

\* How read() finds the end of the content.
Framing(header) ==
    IF Values(header, ContentLength) # {} THEN "length"
    ELSE IF Chunked \in Values(header, TransferEncoding) THEN "chunked"
    ELSE "none"
=============================================================================
