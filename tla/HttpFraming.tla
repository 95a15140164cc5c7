---------------------------- MODULE HttpFraming ----------------------------
(***************************************************************************)
(* How the server and the client of Simple-Web-Server find the content of  *)
(* a message in a stream of bytes (read(), read_chunked_transfer_encoded() *)
(* and read_chunked_transfer_encoded_chunk(), the same in server_http.hpp  *)
(* and client_http.hpp but for contents that end with the connection).     *)
(*                                                                         *)
(* A header but for its end is one byte here; what is in it is the subject *)
(* of HttpSyntax.  The bytes arrive in pieces of any size, and a read up   *)
(* to a delimiter may take along more than that.  Timeouts, stop() and     *)
(* what follows a message are in HttpServer and HttpClient.                *)
(***************************************************************************)
EXTENDS HttpSyntax

CONSTANTS
    Contents,        \* contents, each a sequence of chunks of bytes
    Pipelined,       \* what may follow a message on its connection
    MaxSent,         \* bound: the bytes of the longest message
    Limits           \* max_request_streambuf_size, max_response_streambuf_size

\* Sizes of chunks have one digit, and a chunk of no bytes is none of a content.
ASSUME ContentsAssumption ==
    \A c \in Contents : c \in Seq(Seq(Int)) /\ \A i \in 1..Len(c) : Len(c[i]) \in 1..9
ASSUME PipelinedAssumption == Pipelined \subseteq Seq(Int)
ASSUME SizesAssumption ==
    /\ MaxSent \in Nat /\ Limits \subseteq Nat
    /\ \E longest \in Limits : \A other \in Limits : other <= longest

VARIABLES
    message,         \* what the peer sends, how much of it, and whether it then closes
    limit,           \* the reader's limit for its buffers
    wire,            \* bytes that have not been received
    stage,           \* what the reader waits for
    buf,             \* streambuf
    need,            \* bytes a read of known length still lacks
    length,          \* the length of the chunk being read
    chunks,          \* chunks_streambuf
    outcome          \* what has become of the message

framingVars == <<message, limit, wire, stage, buf, need, length, chunks, outcome>>

\* "size": the line before a chunk; "rest": everything up to the end of the connection.
Stages == {"header", "content", "size", "chunk", "rest"}

-----------------------------------------------------------------------------
(* The peer *)

Framings == {"length", "chunked", "close", "none", "bad_length", "bad_size"}

HeaderLines == <<72>>
EndOfHeader == Line \o Line

Chunk(data) == Digits(Len(data)) \o Line \o data \o Line

Body(framing, contents) ==
    CASE framing = "chunked" -> FlattenSeq([i \in 1..Len(contents) |-> Chunk(contents[i])]) \o Chunk(<<>>)
      [] framing = "bad_size" -> <<90>> \o Line
      [] OTHER -> FlattenSeq(contents)

Bytes(m) == HeaderLines \o EndOfHeader \o Body(m.framing, m.contents) \o m.following

Content(m) == FlattenSeq(m.contents)

Whole(m) == m.sent = Len(Bytes(m))

\* Only a message of known length can have something behind it.  The peer may
\* fall silent, or close, after any number of bytes.
Messages ==
    {m \in [framing : Framings, contents : Contents, following : Pipelined,
            closes : BOOLEAN, sent : 0..MaxSent] :
        /\ m.framing \in {"none", "bad_size"} => m.contents = <<>>
        /\ m.framing \in {"close", "bad_length", "bad_size"} => m.following = <<>>
        /\ m.sent <= Len(Bytes(m))}

FramingInit(messages, limits) ==
    /\ message \in messages
    /\ limit \in limits
    /\ wire = SubSeq(Bytes(message), 1, message.sent)
    /\ stage = "header"
    /\ buf = <<>>
    /\ need = 0
    /\ length = 0
    /\ chunks = <<>>
    /\ outcome = "none"

FramingTypeOK ==
    /\ limit \in Limits
    /\ IsSuffix(wire, SubSeq(Bytes(message), 1, message.sent))
    /\ stage \in Stages
    /\ Len(buf) <= limit
    /\ need \in Nat
    /\ length \in 0..9
    /\ Len(chunks) <= limit
    /\ outcome \in {"none", "delivered", "too_large", "protocol", "failed"}

-----------------------------------------------------------------------------
(* Reading *)

Delimiter == IF stage = "header" THEN EndOfHeader ELSE Line

\* Where the delimiter ends in the buffer.
Ends == {i \in Len(Delimiter)..Len(buf) : SubSeq(buf, i - Len(Delimiter) + 1, i) = Delimiter}

Delimited == stage \in {"header", "size"} /\ Ends # {}
Transferred == stage \in {"content", "chunk"} /\ need = 0
Full == Len(buf) = limit

\* The operation is over without an error, or because there is no more room.
Complete == Delimited \/ Transferred \/ Full

\* Bytes arrive: with a known length at most these, else whatever has room.
Arrives ==
    /\ outcome = "none" /\ ~Complete
    /\ \E n \in 1..Len(wire) :
         /\ n <= limit - Len(buf)
         /\ stage \in {"content", "chunk"} => n <= need
         /\ buf' = buf \o SubSeq(wire, 1, n)
         /\ wire' = From(wire, n + 1)
         /\ need' = IF stage \in {"content", "chunk"} THEN need - n ELSE need
    /\ UNCHANGED <<message, limit, stage, length, chunks, outcome>>

\* The connection ends before the operation is complete.
Eof ==
    /\ outcome = "none" /\ ~Complete
    /\ wire = <<>> /\ message.closes
    /\ outcome' = IF stage = "rest" THEN "delivered" ELSE "failed"
    /\ UNCHANGED <<message, limit, wire, stage, buf, need, length, chunks>>

\* Every handler first looks whether the buffer is full: 413, or message_size.
TooLarge ==
    /\ outcome = "none" /\ Full
    /\ outcome' = "too_large"
    /\ UNCHANGED <<message, limit, wire, stage, buf, need, length, chunks>>

\* The handler of a read that was successful, and what it makes of the message.
Handles(waiting) == outcome = "none" /\ ~Full /\ stage = waiting /\ (Delimited \/ Transferred)

Outcome(result) == outcome' = result /\ UNCHANGED <<stage, need, length, chunks>>
Awaits(next, n) == stage' = next /\ need' = n /\ UNCHANGED <<length, chunks, outcome>>

\* A likely slip: what the read took along is not counted.
HeaderReadForgets ==
    /\ Handles("header")
    /\ buf' = From(buf, Min(Ends) + 1)
    /\ LET missing == Len(Content(message))
       IN CASE message.framing = "length" /\ missing > 0 -> Awaits("content", missing)
            [] message.framing = "length" /\ missing <= 0 -> Outcome("delivered")
            [] message.framing = "bad_length" -> Outcome("protocol")
            [] message.framing \in {"chunked", "bad_size"} -> Awaits("size", 0)
            [] message.framing = "close" -> Awaits("rest", 0)
            [] message.framing = "none" -> Outcome("delivered")
    /\ UNCHANGED <<message, limit, wire>>

\* A likely slip: more may have come than the content.
HeaderReadUnderflows ==
    /\ Handles("header")
    /\ buf' = From(buf, Min(Ends) + 1)
    /\ LET missing == Len(Content(message)) - Len(buf')
       IN CASE message.framing = "length" -> Awaits("content", missing)
            [] message.framing = "bad_length" -> Outcome("protocol")
            [] message.framing \in {"chunked", "bad_size"} -> Awaits("size", 0)
            [] message.framing = "close" -> Awaits("rest", 0)
            [] message.framing = "none" -> Outcome("delivered")
    /\ UNCHANGED <<message, limit, wire>>

HeaderRead ==
    /\ Handles("header")
    /\ buf' = From(buf, Min(Ends) + 1)
    /\ LET missing == Len(Content(message)) - Len(buf')
       IN CASE message.framing = "length" /\ missing > 0 -> Awaits("content", missing)
            [] message.framing = "length" /\ missing <= 0 -> Outcome("delivered")
            [] message.framing = "bad_length" -> Outcome("protocol")
            [] message.framing \in {"chunked", "bad_size"} -> Awaits("size", 0)
            [] message.framing = "close" -> Awaits("rest", 0)
            [] message.framing = "none" -> Outcome("delivered")
    /\ UNCHANGED <<message, limit, wire>>

ContentRead ==
    /\ Handles("content")
    /\ Outcome("delivered")
    /\ UNCHANGED <<message, limit, wire, buf>>

\* read_chunked_transfer_encoded_chunk(): the chunk of n bytes that b begins
\* with is put aside, its CRLF dropped.  A chunk of no bytes is the last: what
\* was put aside goes behind whatever is left in the buffer.
TakeChunk(b, n) ==
    LET left == From(b, n + 3)
        taken == SubSeq(chunks \o SubSeq(b, 1, n), 1, Min({limit, Len(chunks) + n}))
        joined == left \o chunks
    IN /\ need' = 0 /\ length' = 0
       /\ IF n = 0
          THEN /\ stage' = stage /\ outcome' = "delivered"
               /\ buf' = SubSeq(joined, 1, Min({limit, Len(joined)}))
               /\ chunks' = chunks
          ELSE /\ chunks' = taken
               /\ stage' = "size"
               /\ IF Len(taken) = limit
                  THEN outcome' = "too_large" /\ buf' = From(b, n + 1)
                  ELSE outcome' = outcome /\ buf' = left

\* A likely slip: the chunk is taken as soon as it is here, its CRLF or not.
SizeReadEarly ==
    /\ Handles("size")
    /\ LET size == HexValue(buf[1])
           behind == From(buf, Min(Ends) + 1)
       IN IF size < 0
          THEN Outcome("protocol") /\ buf' = behind
          ELSE IF size > Len(behind)
          THEN /\ stage' = "chunk" /\ length' = size
               /\ need' = size - Len(behind)
               /\ buf' = behind
               /\ UNCHANGED <<chunks, outcome>>
          ELSE TakeChunk(behind, size)
    /\ UNCHANGED <<message, limit, wire>>

\* The line with the size of a chunk; the chunk and its CRLF may be here already.
SizeRead ==
    /\ Handles("size")
    /\ LET size == HexValue(buf[1])
           behind == From(buf, Min(Ends) + 1)
       IN IF size < 0
          THEN Outcome("protocol") /\ buf' = behind
          ELSE IF 2 + size > Len(behind)
          THEN /\ stage' = "chunk" /\ length' = size
               /\ need' = 2 + size - Len(behind)
               /\ buf' = behind
               /\ UNCHANGED <<chunks, outcome>>
          ELSE TakeChunk(behind, size)
    /\ UNCHANGED <<message, limit, wire>>

ChunkRead ==
    /\ Handles("chunk")
    /\ TakeChunk(buf, length)
    /\ UNCHANGED <<message, limit, wire>>

FramingNext == Arrives \/ Eof \/ TooLarge \/ HeaderRead \/ ContentRead \/ SizeRead \/ ChunkRead

-----------------------------------------------------------------------------
\* However the bytes are cut into pieces, a content is delivered only as it was
\* sent, or as much of it as came if it ends with the connection.  Bytes behind
\* the message that were read with it get into the content, behind it or, if it
\* is chunked, before it (and may then push its end out of a full buffer).
\* Nothing is too large that is shorter than the limit, and nothing delivered
\* that is not; nothing else is refused but what is malformed or incomplete.
ContentAsSent ==
    LET content == Content(message)
        extras == {SubSeq(message.following, 1, k) : k \in 0..Len(message.following)}
        cut(s) == SubSeq(s, 1, Min({limit, Len(s)}))
    IN /\ outcome = "delivered" =>
            /\ Len(content) < limit \/ message.framing = "close"
            /\ CASE message.framing = "length" -> buf \in {content \o e : e \in extras}
                 [] message.framing = "chunked" -> buf \in {cut(e \o content) : e \in extras}
                 [] message.framing = "close" -> IsPrefix(buf, content) /\ (Whole(message) => buf = content)
                 [] message.framing = "none" -> buf \in extras
                 [] OTHER -> FALSE
       /\ outcome = "too_large" => Len(Bytes(message)) >= limit
       /\ outcome = "protocol" => message.framing \in {"bad_length", "bad_size"}
       /\ outcome = "failed" => ~Whole(message)

\* A message that has been sent completely is delivered or refused: the reader
\* does not wait for bytes that nobody will send.  Nor does it wait if the
\* connection has ended.
MessageEnds ==
    message.closes \/ (Whole(message) /\ message.framing # "close") ~> outcome # "none"
=============================================================================
