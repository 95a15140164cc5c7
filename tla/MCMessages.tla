----------------------------- MODULE MCMessages -----------------------------
(***************************************************************************)
(* HttpMessages with contents of up to three bytes, some of which look like *)
(* delimiters, and with short texts in every place of a header.            *)
(***************************************************************************)
EXTENDS HttpMessages

X == 97

FewContents ==
    {<<>>, <<<<X>>>>, <<<<CR, LF>>>>, <<<<X>>, <<LF, CR>>>>, <<<<X, CR, LF>>>>, <<<<LF>>, <<X>>, <<CR>>>>}
FewPipelined == {<<>>, <<72>>, <<72, CR, LF>>}
FewLimits == {2, 6, 7, 8, 9, 40}

PlainSample ==
    [path |-> <<SLASH>>, query |-> <<>>, header |-> <<>>, ends |-> "open", length |-> 0,
     attributes |-> <<>>, quoted |-> FALSE]

\* Paths have no "?", names no "&", values no "%": see the README.
Paths == BoundedSeq({X, SLASH, COLON, EQUALS}, 2)
QueryNames == {<<X>>, <<X, EQUALS>>, <<COLON>>}
QueryValues(n) == BoundedSeq({X, 49, 230, SP, AMPERSAND, PLUS, SLASH, EQUALS, QUESTION}, n)
QueryFields(n) == {Field(m, v) : m \in QueryNames, v \in QueryValues(n)}
Queries == {<<f>> : f \in QueryFields(2)} \cup {<<f, g>> : f, g \in QueryFields(1)}

Upper(s) == [i \in 1..Len(s) |-> IF s[i] \in 97..122 THEN s[i] - 32 ELSE s[i]]

\* A header of its user's, and how that says the content ends.
OwnHeaders ==
    LET own == {Field(<<X>>, v) : v \in BoundedSeq({X, SP, COLON}, 2)}
    IN {<<>>} \cup {<<f>> : f \in own}
Endings(n) ==
    {[ends |-> "open", fields |-> <<>>]}
      \cup {[ends |-> "length", fields |-> <<Field(name, Digits(n))>>] :
              name \in {ContentLength, Upper(ContentLength)}}
      \cup {[ends |-> "chunked", fields |-> <<Field(name, Chunked)>>] :
              name \in {TransferEncoding, Upper(TransferEncoding)}}

\* Values of attributes have none of the characters that end or encode them.
AttributeLists ==
    LET attributes == {Field(m, v) : m \in {<<X>>, <<X, SP>>}, v \in BoundedSeq({X, SP, EQUALS}, 2)}
    IN {<<>>} \cup {<<a>> : a \in attributes} \cup {<<a, b>> : a, b \in attributes}

\* Cases of tests/parse_test.cpp.
ASSUME ParseTests ==
    LET v(s) == Field(<<X>>, s)
    IN /\ QueryParse(<<EQUALS>>) = <<>>
       /\ QueryParse(<<EQUALS, X>>) = <<>>
       /\ QueryParse(<<X, EQUALS, 49, PERCENT, 50, 48, 50, AMPERSAND, X, EQUALS, 51, PLUS, AMPERSAND, X>>)
            = <<v(<<49, SP, 50>>), v(<<51, SP>>), v(<<>>)>>
       /\ AttributesParse(<<X, SEMICOLON, SP, X, EQUALS, QUOTE, X, PERCENT, 50, 48, X, QUOTE>>)
            = <<v(<<>>), v(<<X, SP, X>>)>>
       /\ AttributesParse(<<X, SEMICOLON, X, EQUALS, X, SP, X, SEMICOLON, X>>)
            = <<v(<<>>), v(<<X, SP, X>>), v(<<>>)>>

FewSamples ==
    LET with(path, query) == [PlainSample EXCEPT !.path = path, !.query = query]
    IN {with(p, q) : p \in Paths, q \in {<<>>, <<Field(<<X>>, <<SP>>)>>}}
         \cup {with(<<SLASH>>, q) : q \in Queries}
         \cup UNION {{[PlainSample EXCEPT !.header = h \o e.fields, !.ends = e.ends, !.length = n] :
                        h \in OwnHeaders, e \in Endings(n)} : n \in 0..2}
         \cup {[PlainSample EXCEPT !.attributes = a, !.quoted = b] : a \in AttributeLists, b \in BOOLEAN}
=============================================================================
