----------------------------- MODULE HttpParse ------------------------------
(***************************************************************************)
(* The two parsers of the HTTP stack, fed by a TCP stream that arrives in  *)
(* pieces: CHttpMessage::parseStream with CHttpLink::processRecv at the    *)
(* server, CHttpClientLink::parseStream with its processRecv at the client.*)
(* Both keep a state between pieces; a piece may end anywhere.             *)
(*                                                                         *)
(* A character is a member of a small set: the letters of a method, path,  *)
(* query, version and body, the separators, and in a header line one       *)
(* character of Length, which stands for "Content-Length:" and is followed *)
(* by its value.  Header lines are otherwise well formed (with a colon).   *)
(* The client keeps the body; writing it to a file (downloadFile) is left  *)
(* out.                                                                    *)
(***************************************************************************)
EXTENDS Integers, Sequences, SequencesExt

CONSTANTS Requests,     \* the requests a client may send, see Request
          Responses,    \* the responses a server may send, see Response
          Version,      \* a version the parser accepts, as its characters
          Letters       \* what they are written in, besides the separators

SP == " "
CR == "CR"
LF == "LF"
Length == "Content-Length:"
CRLF == <<CR, LF>>

Char == {SP, CR, LF, "/", "?", Length} \cup Letters
Text == Seq(Char)

\* A value of one digit.
atoi(c) == CHOOSE n \in 0 .. 9 : ToString(n) = c

\* The characters of a header with its lines, the empty line and the body.
HeadersAndBody(lines, body) ==
    FlattenSeq([i \in DOMAIN lines |-> lines[i] \o CRLF]) \o (CRLF \o body)

\* The characters of a request with a body, from its version on, from the
\* end of its path on, and whole.
FromVersion(r, body) == Version \o (CRLF \o HeadersAndBody(r.lines, body))

FromQuery(r, body) ==
    IF r.query = <<>> THEN <<SP>> \o FromVersion(r, body)
    ELSE <<"?">> \o (r.query \o (<<SP>> \o FromVersion(r, body)))

RequestText(r, body) ==
    r.method \o (<<SP>> \o (<<"/">> \o (r.path \o FromQuery(r, body))))

RequestStream(r) == RequestText(r, r.body)

\* The first line of a response, and a response.
StatusLine(r) ==
    Version \o (<<SP>> \o (r.code \o (IF r.reason = <<>> THEN <<>> ELSE <<SP>> \o r.reason)))

ResponseStream(r) == StatusLine(r) \o (CRLF \o HeadersAndBody(r.lines, r.body))

\* The value of the last Content-Length among header lines.
LengthIn(lines, none) ==
    LET given == {i \in DOMAIN lines : lines[i][1] = Length}
    IN  IF given = {} THEN none ELSE atoi(lines[Max(given)][2])

Without(s, chars) == \A i \in DOMAIN s : s[i] \notin chars

HeaderLine(line) ==
    /\ line # <<>> /\ Without(line, {CR})
    /\ line[1] = Length => Len(line) = 2 /\ line[2] \in {ToString(n) : n \in 0 .. 9}

\* Requests and responses as peers that keep to the protocol send them: a
\* query or a reason of <<>> is none, a separator stands only where it
\* separates, and a body is as long as its header says.
ASSUME StreamsAssumption ==
    /\ Requests \subseteq
           [method : Text, path : Text, query : Text, lines : Seq(Text), body : Text]
    /\ Responses \subseteq [code : Text, reason : Text, lines : Seq(Text), body : Text]
    /\ Version \in Text /\ Version # <<>> /\ Without(Version, {SP, CR})
    /\ \A r \in Requests :
           Without(r.method, {SP}) /\ Without(r.path, {SP, "?"}) /\ Without(r.query, {SP})
    /\ \A r \in Responses : Without(r.code, {SP, CR}) /\ Without(r.reason, {CR})
    /\ \A r \in Requests \cup Responses :
           /\ \A i \in DOMAIN r.lines : HeaderLine(r.lines[i])
           /\ Len(r.body) = LengthIn(r.lines, 0)

VARIABLES
    role,       \* "server" or "client": which parser is at work
    stream,     \* what the peer has sent and will send
    pos,        \* how much of it has arrived
    link,       \* "open" or "closed"
    parser,     \* the message being parsed
    begin,      \* history: where in the stream it began
    posted      \* history: what was handed on, with its place in the stream

vars == <<role, stream, pos, link, parser, begin, posted>>

-----------------------------------------------------------------------------
(* The server: CHttpMessage.                                               *)

NewMessage ==
    [state |-> "Idle", method |-> <<>>, path |-> <<>>, query |-> <<>>, version |-> <<>>,
     curLine |-> <<>>, lines |-> <<>>, contentLength |-> 0, content |-> <<>>,
     skip |-> FALSE, result |-> 0]

\* Variant with a fault: the length is not looked for.
addHeader_NoLength(m) ==
    [m EXCEPT !.lines = Append(@, m.curLine), !.state = "GetCRLF"]

\* addHeader: atoi of the value behind Content-Length.
addHeader(m) ==
    [m EXCEPT !.lines = Append(@, m.curLine),
              !.contentLength = IF m.curLine[1] = Length THEN atoi(m.curLine[2]) ELSE @,
              !.state = "GetCRLF"]

\* One character in the state the message is in.  The space behind the
\* method is skipped together with the character after it, if that one is
\* in the same piece.  A result ends the piece.
OneCharacter(m, c) ==
    IF m.result # 0 THEN m
    ELSE IF m.skip THEN [m EXCEPT !.skip = FALSE]
    ELSE
    CASE m.state = "Idle" ->
            IF c = SP THEN [m EXCEPT !.state = "GetPath", !.skip = TRUE]
                      ELSE [m EXCEPT !.method = Append(@, c)]
      [] m.state = "GetPath" ->
            IF c = "?" THEN [m EXCEPT !.state = "GetQuery"]
            ELSE IF c = SP THEN [m EXCEPT !.state = "GetVersion"]
            ELSE [m EXCEPT !.path = Append(@, c)]
      [] m.state = "GetQuery" ->
            IF c = SP THEN [m EXCEPT !.state = "GetVersion"]
                      ELSE [m EXCEPT !.query = Append(@, c)]
      [] m.state = "GetVersion" ->
            IF c # CR THEN [m EXCEPT !.version = Append(@, c)]
            ELSE IF m.version = Version THEN [m EXCEPT !.state = "GetCRLF"]
            ELSE [m EXCEPT !.result = -1]
      [] m.state = "GetCRLF" ->
            IF c = LF THEN [m EXCEPT !.state = "GetLineBegin", !.curLine = <<>>]
                      ELSE [m EXCEPT !.result = -1]
      [] m.state = "GetLineBegin" ->
            IF c = CR THEN [m EXCEPT !.state = "GetDoubleCRLF"]
                      ELSE [m EXCEPT !.state = "GetLine", !.curLine = Append(@, c)]
      [] m.state = "GetDoubleCRLF" ->
            IF c # LF THEN [m EXCEPT !.result = -1]
            ELSE IF m.contentLength = 0 THEN [m EXCEPT !.result = 1]
            ELSE [m EXCEPT !.state = "GetContent"]
      [] m.state = "GetLine" ->
            IF c = CR THEN addHeader(m) ELSE [m EXCEPT !.curLine = Append(@, c)]
      [] m.state = "GetContent" -> [m EXCEPT !.content = Append(@, c)]

\* The message after the characters of a piece.
AfterPiece(m, piece) ==
    LET after[k \in 0 .. Len(piece)] ==
            IF k = 0 THEN m ELSE OneCharacter(after[k - 1], piece[k])
    IN  after[Len(piece)]

\* Variant with a fault: the line begun in the last piece is forgotten.
MessageParse_Fresh(m, piece) ==
    LET after == AfterPiece([m EXCEPT !.curLine = <<>>], piece)
    IN  [after EXCEPT !.skip = FALSE,
                      !.result = IF after.result = 0 /\ after.content # <<>> THEN 1 ELSE @]

\* A piece.  The content is what the piece holds of it: the message is done
\* at the end of the piece, however long the content should be.
MessageParse(m, piece) ==
    LET after == AfterPiece(m, piece)
    IN  [after EXCEPT !.skip = FALSE,
                      !.result = IF after.result = 0 /\ after.content # <<>> THEN 1 ELSE @]

-----------------------------------------------------------------------------
(* The client: CHttpClientLink.                                            *)

clearParseState ==
    [state |-> "GetHeaderLine", line |-> <<>>, version |-> <<>>, rCode |-> <<>>,
     contentLength |-> -1, content |-> <<>>, result |-> 0]

\* What stands in front of the first space, and what is left behind it: all
\* and nothing, if there is none.
cut(line) ==
    LET spaces == {i \in DOMAIN line : line[i] = SP}
        n == IF spaces = {} THEN Len(line) + 1 ELSE Min(spaces)
    IN  [result |-> SubSeq(line, 1, n - 1), left |-> SubSeq(line, n + 1, Len(line))]

\* A line is complete: the first is cut at its spaces, of the others the
\* length is kept.
EndLine(r) ==
    LET first == r.version = <<>>
    IN  [r EXCEPT !.version = IF first THEN cut(r.line).result ELSE @,
                  !.rCode = IF first THEN cut(cut(r.line).left).result ELSE @,
                  !.contentLength = IF ~first /\ r.line[1] = Length THEN atoi(r.line[2]) ELSE @,
                  !.line = <<>>,
                  !.state = "GetHeaderLine"]

OneOfResponse(r, c) ==
    IF r.result # 0 THEN r
    ELSE
    CASE r.state = "GetHeaderLine" ->
            IF c # CR THEN [r EXCEPT !.line = Append(@, c)]
            ELSE [r EXCEPT !.state = IF r.line = <<>> THEN "GetCrlf2" ELSE "GetCrlf"]
      [] r.state = "GetCrlf" ->
            IF c = LF THEN EndLine(r) ELSE [r EXCEPT !.result = -1]
      [] r.state = "GetCrlf2" ->
            IF c # LF THEN [r EXCEPT !.result = -1]
            ELSE IF r.contentLength \in {-1, 0} THEN [r EXCEPT !.result = 1]
            ELSE [r EXCEPT !.state = "GetContent"]
      [] r.state = "GetContent" -> [r EXCEPT !.content = Append(@, c)]

\* The response after the characters of a piece.
AfterPieceOfResponse(r, piece) ==
    LET after[k \in 0 .. Len(piece)] ==
            IF k = 0 THEN r ELSE OneOfResponse(after[k - 1], piece[k])
    IN  after[Len(piece)]

\* Variant with a fault: done with the first piece of the content.
ResponseParse_First(r, piece) ==
    LET after == AfterPieceOfResponse(r, piece)
    IN  [after EXCEPT !.result = IF @ = 0 /\ after.content # <<>> THEN 1 ELSE @]

\* A piece; the content is counted when its end is taken over whole.
ResponseParse(r, piece) ==
    LET after == AfterPieceOfResponse(r, piece)
    IN  [after EXCEPT !.result = IF @ = 0 /\ after.content # <<>>
                                    /\ Len(after.content) >= after.contentLength
                                 THEN 1 ELSE @]

-----------------------------------------------------------------------------
(* The connection.                                                         *)

Init ==
    /\ role \in {"server", "client"}
    /\ IF role = "server"
       THEN \E first, second \in Requests :
                \/ stream = RequestStream(first)
                \/ stream = RequestStream(first) \o RequestStream(second)
       ELSE \E r \in Responses : stream = ResponseStream(r)
    /\ parser = IF role = "server" THEN NewMessage ELSE clearParseState
    /\ pos = 0 /\ begin = 0
    /\ link = "open"
    /\ posted = <<>>

Post(m, to) ==
    posted' = Append(posted, [message |-> m, from |-> begin, to |-> to])

\* Server: a message that is done is posted and deleted, and the next piece
\* begins a new one, whatever it begins with; an error closes the link.
ServerReceive ==
    /\ role = "server" /\ link = "open"
    /\ \E n \in 1 .. Len(stream) - pos :
           LET m == MessageParse(parser, SubSeq(stream, pos + 1, pos + n))
           IN  /\ pos' = pos + n
               /\ \/ /\ m.result = 1
                     /\ Post(m, pos + n)
                     /\ parser' = NewMessage
                     /\ begin' = pos + n
                     /\ link' = "open"
                  \/ /\ m.result = 0
                     /\ parser' = m
                     /\ UNCHANGED <<begin, posted, link>>
                  \/ /\ m.result = -1
                     /\ link' = "closed"
                     /\ UNCHANGED <<parser, begin, posted>>
    /\ UNCHANGED <<role, stream>>

\* Client: a response that is done closes the link, as an error does.
ClientReceive ==
    /\ role = "client" /\ link = "open"
    /\ \E n \in 1 .. Len(stream) - pos :
           LET r == ResponseParse(parser, SubSeq(stream, pos + 1, pos + n))
           IN  /\ pos' = pos + n
               /\ parser' = r
               /\ link' = IF r.result = 0 THEN "open" ELSE "closed"
               /\ IF r.result = 1 THEN Post(r, pos + n) ELSE UNCHANGED posted
    /\ UNCHANGED <<role, stream, begin>>

\* End of the stream: a read of nothing closes the link.
EndOfStream ==
    /\ link = "open" /\ pos = Len(stream)
    /\ link' = "closed"
    /\ UNCHANGED <<role, stream, pos, parser, begin, posted>>

Next == ServerReceive \/ ClientReceive \/ EndOfStream

Spec == Init /\ [][Next]_vars

-----------------------------------------------------------------------------
(* Properties.                                                             *)

\* A request r stands in the stream from a place on.
StandsAt(r, from) == IsPrefix(RequestStream(r), SubSeq(stream, from + 1, Len(stream)))

\* However a request is cut into pieces, if the server began a message at
\* its first character it is posted with the method, the query, the version
\* and the header lines it has, its path is as sent, with the slash in front
\* only if the cut fell on it, and its content starts with its body's first
\* character and goes to the end of that piece (parseStream, processRecv).
RequestExact ==
    role = "server" =>
        \A i \in DOMAIN posted : \A r \in Requests :
            StandsAt(r, posted[i].from) =>
                LET m == posted[i].message
                    body == posted[i].from + Len(RequestStream(r)) - Len(r.body)
                IN  /\ m.method = r.method /\ m.query = r.query /\ m.version = Version
                    /\ m.lines = r.lines
                    /\ m.path \in {r.path, <<"/">> \o r.path}
                    /\ m.content = IF r.body = <<>> THEN <<>>
                                   ELSE SubSeq(stream, body + 1, posted[i].to)

\* The first request of a connection is posted, once all of its head and the
\* first of its body have arrived, and the link is not closed before.
FirstPosted ==
    role = "server" =>
        \A r \in Requests : StandsAt(r, 0) =>
            LET needed == Len(RequestStream(r)) - Len(r.body)
                          + (IF r.body = <<>> THEN 0 ELSE 1)
            IN  /\ (pos >= needed) <=> (posted # <<>>)
                /\ pos < Len(stream) /\ posted = <<>> => link = "open"

\* However a response is cut into pieces, the client finishes with the piece
\* that holds its last character, never before, with its code, its length
\* and all of its body (CHttpClientLink::parseStream).
ResponseWhole ==
    role = "client" =>
        /\ (pos = Len(stream)) <=> (posted # <<>>)
        /\ posted # <<>> => parser.result = 1
        /\ \A r \in Responses :
               stream = ResponseStream(r) /\ posted # <<>> =>
                   parser.content = r.body /\ parser.rCode = r.code
=============================================================================
