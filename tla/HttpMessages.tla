---------------------------- MODULE HttpMessages ----------------------------
(***************************************************************************)
(* Messages as one end of a connection writes them and the other reads     *)
(* them.  HttpFraming is about the content, byte by byte; sample is a      *)
(* message's header, written and read back at once.                        *)
(***************************************************************************)
EXTENDS HttpFraming

CONSTANTS
    Samples,         \* headers to be written and read
    Plain            \* one of them

TextWithout(chars) == {text \in Seq(Int) : \A i \in 1..Len(text) : text[i] \notin chars}
Fields(names, values) == Seq([name : names, value : values])

\* What a user may give a writer: texts without the characters that delimit or
\* encode them, which no writer but Encode takes care of; and ends, which is what
\* the header says of the end of the content.
ASSUME SamplesAssumption ==
    /\ Plain \in Samples
    /\ \A s \in Samples :
         /\ s.path \in TextWithout({LF, SP, QUESTION})
         /\ s.query \in Fields(TextWithout({LF, SP, AMPERSAND, QUESTION}) \ {<<>>},
                              TextWithout({LF, PERCENT}))
         /\ s.header \in Fields(TextWithout({LF, COLON}), TextWithout({LF}))
         /\ s.attributes \in Fields({n \in TextWithout({LF, SEMICOLON, EQUALS}) : n # <<>> /\ n[1] # SP},
                                   TextWithout({LF, PERCENT, PLUS, QUOTE, SEMICOLON}))
         /\ s.length \in 0..9
         /\ s.ends \in {"open", "length", "chunked"}
         /\ s.ends = "length" <=> Values(s.header, ContentLength) # {}
         /\ s.ends = "chunked" => Chunked \in Values(s.header, TransferEncoding)
         /\ s.ends = "open" => \A v \in Values(s.header, TransferEncoding) : ~EqualNoCase(v, Chunked)

VARIABLE
    sample           \* one of them

vars == <<framingVars, sample>>

TypeOK == FramingTypeOK

\* A header is looked at on a connection on which nothing is sent.
Silence == [framing |-> "none", contents |-> <<>>, following |-> <<>>, closes |-> FALSE, sent |-> 0]

Init ==
    \/ FramingInit(Messages, Limits) /\ sample = Plain
    \/ FramingInit({Silence}, {Max(Limits)}) /\ sample \in Samples

Next == FramingNext /\ UNCHANGED sample
Spec == Init /\ [][Next]_vars /\ WF_vars(Next)

-----------------------------------------------------------------------------
AttributesText(attributes) ==
    FlattenSeq([i \in 1..Len(attributes) |->
        LET a == attributes[i]
        IN (IF i = 1 THEN <<>> ELSE <<SEMICOLON, SP>>) \o a.name
             \o (IF a.value = <<>> THEN <<>>
                 ELSE IF sample.quoted THEN <<EQUALS, QUOTE>> \o a.value \o <<QUOTE>>
                 ELSE <<EQUALS>> \o a.value)])

\* The header that the reader gets, and how it finds the end of a content:
\* as the writer's user has said, or by a length that was added.
Announces(header, written, adds) ==
    /\ header = written \o (IF adds THEN <<LengthField(sample.length)>> ELSE <<>>)
    /\ sample.ends = "chunked" => Framing(header) = "chunked"
    /\ sample.ends = "length" \/ adds => Framing(header) = "length"

\* A request that the client writes is what the server reads: the method, the
\* path, the fields of the query, those of the header in their order, and how
\* the content ends.
RequestRoundTrip ==
    LET target == IF sample.query = <<>> THEN sample.path
                  ELSE sample.path \o <<QUESTION>> \o QueryCreate(sample.query)
        r == RequestParse(RequestText(HTTP, target, Version, sample.header, sample.length))
    IN message = Silence =>
       /\ r.ok /\ r.method = HTTP /\ r.version = Version
       /\ r.path = IF target = <<>> THEN <<SLASH>> ELSE sample.path
       /\ QueryParse(r.query) = sample.query
       /\ Announces(r.header, <<Field(Host, Version)>> \o sample.header,
                    sample.length > 0 /\ sample.ends = "open")

\* A response that the server writes is what the client reads, with the
\* attributes of a field and how the content ends.
ResponseRoundTrip ==
    LET header == <<Field(HTTP, AttributesText(sample.attributes))>> \o sample.header
        r == ResponseParse(ResponseText(Digits(2), header, sample.length, FALSE))
    IN message = Silence =>
       /\ r.ok /\ r.version = Version /\ r.status = Digits(2)
       /\ Announces(r.header, header, sample.ends = "open")
       /\ AttributesParse(r.header[1].value) = sample.attributes
=============================================================================
