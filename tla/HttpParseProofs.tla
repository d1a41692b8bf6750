--------------------------- MODULE HttpParseProofs ---------------------------
(***************************************************************************)
(* Proofs about HttpParse, for every set of requests and of responses,     *)
(* every version and every way to cut a stream into pieces.                *)
(***************************************************************************)
EXTENDS HttpParse, SequenceLemmas

-----------------------------------------------------------------------------
(* What a parser has read of a request or response, told from what is      *)
(* still to come of it: s is the rest of the stream, b the part of s, or   *)
(* of what was read already, from the body on.                             *)

\* A part of a text is being read: done is what has been read of the whole,
\* the rest of it comes next and after comes behind it.
Within(done, whole, s, after) ==
    \E n \in 0 .. Len(whole) :
        /\ done = SubSeq(whole, 1, n)
        /\ s = SubSeq(whole, n + 1, Len(whole)) \o after

\* A line ends.
Ended(t) == <<CR>> \o (<<LF>> \o t)

\* The header from its line j + 1 on.
HeaderFrom(lines, j, b) ==
    FlattenSeq([i \in 1 .. Len(lines) - j |-> lines[j + i] \o CRLF]) \o Ended(b)

\* The length the first j lines give.
LengthTo(lines, j, none) ==
    LET given == {i \in 1 .. j : lines[i][1] = Length}
    IN  IF given = {} THEN none ELSE atoi(lines[Max(given)][2])

-----------------------------------------------------------------------------
(* The server's parser.                                                    *)

Message ==
    [state : {"Idle", "GetPath", "GetQuery", "GetVersion", "GetCRLF", "GetLineBegin",
              "GetLine", "GetDoubleCRLF", "GetContent"},
     method : Text, path : Text, query : Text, version : Text,
     curLine : Text, lines : Seq(Text), contentLength : Int, content : Text,
     skip : BOOLEAN, result : Int]

\* The path with the slash in front or without.
Paths(r) == {r.path, <<"/">> \o r.path}

\* The header is read up to line j.
Header(r, m, j) ==
    /\ Len(m.lines) = j /\ \A i \in 1 .. j : m.lines[i] = r.lines[i]
    /\ m.contentLength = LengthTo(r.lines, j, 0)

\* The request line is read up to the version, or whole.
Asked(r, m) == m.method = r.method /\ m.path \in Paths(r) /\ m.query = r.query
AskedAll(r, m) == Asked(r, m) /\ m.version = Version

\* Nothing of the version and the header is read.
NoVersion(r, m) == m.version = <<>> /\ Header(r, m, 0)

\* What comes behind the slash in front of the path.
FromPath(r, b) == r.path \o FromQuery(r, b)

\* Where the parser is: one disjunct for each state.
AtMethod(r, b, m, s) ==
    /\ m.state = "Idle" /\ ~m.skip
    /\ m.path = <<>> /\ m.query = <<>> /\ NoVersion(r, m)
    /\ Within(m.method, r.method, s, <<SP>> \o (<<"/">> \o FromPath(r, b)))

AtSlash(r, b, m, s) ==
    /\ m.state = "GetPath" /\ m.skip
    /\ m.method = r.method /\ m.path = <<>> /\ m.query = <<>> /\ NoVersion(r, m)
    /\ s = <<"/">> \o FromPath(r, b)

AtPath(r, b, m, s) ==
    /\ m.state = "GetPath" /\ ~m.skip
    /\ m.method = r.method /\ m.query = <<>> /\ NoVersion(r, m)
    /\ \E path \in Paths(r) : Within(m.path, path, s, FromQuery(r, b))

AtQuery(r, b, m, s) ==
    /\ m.state = "GetQuery" /\ ~m.skip
    /\ m.method = r.method /\ m.path \in Paths(r) /\ NoVersion(r, m)
    /\ Within(m.query, r.query, s, <<SP>> \o FromVersion(r, b))

AtVersion(r, b, m, s) ==
    /\ m.state = "GetVersion" /\ ~m.skip
    /\ Asked(r, m) /\ Header(r, m, 0)
    /\ Within(m.version, Version, s, Ended(HeaderFrom(r.lines, 0, b)))

AtCRLF(r, b, m, s) ==
    /\ m.state = "GetCRLF" /\ ~m.skip
    /\ AskedAll(r, m)
    /\ \E j \in 0 .. Len(r.lines) :
           Header(r, m, j) /\ s = <<LF>> \o HeaderFrom(r.lines, j, b)

AtLineBegin(r, b, m, s) ==
    /\ m.state = "GetLineBegin" /\ ~m.skip
    /\ AskedAll(r, m) /\ m.curLine = <<>>
    /\ \E j \in 0 .. Len(r.lines) : Header(r, m, j) /\ s = HeaderFrom(r.lines, j, b)

AtLine(r, b, m, s) ==
    /\ m.state = "GetLine" /\ ~m.skip
    /\ AskedAll(r, m)
    /\ \E j \in 1 .. Len(r.lines) :
           /\ Header(r, m, j - 1)
           /\ Within(m.curLine, r.lines[j], s, Ended(HeaderFrom(r.lines, j, b)))

AtDoubleCRLF(r, b, m, s) ==
    /\ m.state = "GetDoubleCRLF" /\ ~m.skip
    /\ AskedAll(r, m) /\ Header(r, m, Len(r.lines))
    /\ s = <<LF>> \o b

AtContent(r, b, m, s) ==
    /\ m.state = "GetContent" /\ ~m.skip
    /\ AskedAll(r, m) /\ Header(r, m, Len(r.lines)) /\ r.body # <<>>
    /\ m.content \o s = b

\* Not in the content yet.
BeforeContent(r, b, m, s) ==
    /\ m.content = <<>>
    /\ \/ AtMethod(r, b, m, s) \/ AtSlash(r, b, m, s) \/ AtPath(r, b, m, s)
       \/ AtQuery(r, b, m, s) \/ AtVersion(r, b, m, s) \/ AtCRLF(r, b, m, s)
       \/ AtLineBegin(r, b, m, s) \/ AtLine(r, b, m, s) \/ AtDoubleCRLF(r, b, m, s)

\* Done without a content.
DoneBare(r, b, m, s) ==
    /\ ~m.skip
    /\ AskedAll(r, m) /\ Header(r, m, Len(r.lines))
    /\ r.body = <<>> /\ m.content = <<>> /\ Len(s) <= Len(b)

\* A message that began with request r.
Coming(r, b, m, s) ==
    /\ m \in Message
    /\ \/ m.result = 0 /\ (BeforeContent(r, b, m, s) \/ AtContent(r, b, m, s))
       \/ m.result = 1 /\ DoneBare(r, b, m, s)

\* Between two pieces: nothing of the content has come.
Waiting(r, b, m, s) ==
    /\ Coming(r, b, m, s)
    /\ m.result = 0 /\ ~m.skip /\ m.content = <<>>

-----------------------------------------------------------------------------
(* The client's parser.                                                    *)

Response ==
    [state : {"GetHeaderLine", "GetCrlf", "GetCrlf2", "GetContent"},
     line : Text, version : Text, rCode : Text,
     contentLength : Int, content : Text, result : Int]

NoStatus(q) == q.version = <<>> /\ q.contentLength = -1
Status(r, q) == q.version = Version /\ q.rCode = r.code

AtStatus(r, q, s) ==
    /\ q.state = "GetHeaderLine" /\ NoStatus(q)
    /\ Within(q.line, StatusLine(r), s, Ended(HeaderFrom(r.lines, 0, r.body)))

AtStatusEnd(r, q, s) ==
    /\ q.state = "GetCrlf" /\ NoStatus(q)
    /\ q.line = StatusLine(r)
    /\ s = <<LF>> \o HeaderFrom(r.lines, 0, r.body)

AtField(r, q, s) ==
    /\ q.state = "GetHeaderLine" /\ Status(r, q)
    /\ \E j \in 1 .. Len(r.lines) :
           /\ q.contentLength = LengthTo(r.lines, j - 1, -1)
           /\ Within(q.line, r.lines[j], s, Ended(HeaderFrom(r.lines, j, r.body)))

AtFieldEnd(r, q, s) ==
    /\ q.state = "GetCrlf" /\ Status(r, q)
    /\ \E j \in 1 .. Len(r.lines) :
           /\ q.contentLength = LengthTo(r.lines, j - 1, -1)
           /\ q.line = r.lines[j]
           /\ s = <<LF>> \o HeaderFrom(r.lines, j, r.body)

AtLast(r, q, s) ==
    /\ q.state = "GetHeaderLine" /\ Status(r, q)
    /\ q.contentLength = LengthTo(r.lines, Len(r.lines), -1)
    /\ q.line = <<>> /\ s = Ended(r.body)

AtCrlf2(r, q, s) ==
    /\ q.state = "GetCrlf2" /\ Status(r, q)
    /\ q.contentLength = LengthTo(r.lines, Len(r.lines), -1)
    /\ s = <<LF>> \o r.body

AtBody(r, q, s) ==
    /\ q.state = "GetContent" /\ Status(r, q)
    /\ q.contentLength = Len(r.body) /\ r.body # <<>>
    /\ q.content \o s = r.body

BeforeBody(r, q, s) ==
    /\ q.content = <<>>
    /\ \/ AtStatus(r, q, s) \/ AtStatusEnd(r, q, s) \/ AtField(r, q, s)
       \/ AtFieldEnd(r, q, s) \/ AtLast(r, q, s) \/ AtCrlf2(r, q, s)

\* The response is read whole.
Whole(r, q, s) == Status(r, q) /\ q.content = r.body /\ s = <<>>

\* A response that is being read.
Answering(r, q, s) ==
    /\ q \in Response
    /\ \/ q.result = 0 /\ (BeforeBody(r, q, s) \/ AtBody(r, q, s))
       \/ q.result = 1 /\ Whole(r, q, s)

\* Between two pieces: some of it is still to come, or it is done.
Answered(r, q, s) == Answering(r, q, s) /\ (q.result = 0 => s # <<>>)

-----------------------------------------------------------------------------
(* The inductive invariant.                                                *)

\* A text from a place on.
Rest(s, from) == SubSeq(s, from + 1, Len(s))

\* A request stands in a text from a place on.
Stands(r, s, from) == IsPrefix(RequestStream(r), Rest(s, from))

\* How long a request is up to its body, and up to the first of it.
HeadOf(r) == Len(RequestStream(r)) - Len(r.body)
Needed(r) == HeadOf(r) + (IF r.body = <<>> THEN 0 ELSE 1)

\* Places in the stream, and what was handed on.
Places ==
    /\ role \in {"server", "client"} /\ link \in {"open", "closed"}
    /\ stream \in Text
    /\ begin \in 0 .. Len(stream) /\ pos \in begin .. Len(stream)
    /\ posted \in Seq(Range(posted))

\* The server reads the request its message began with, if it began with
\* one, and the first one is posted when the first of its body has come.
ServerReads(s, from, to, open, m, handed) ==
    /\ \A r \in Requests : Stands(r, s, from) =>
           Waiting(r, Rest(s, from + HeadOf(r)), m, Rest(s, to))
    /\ handed = <<>> => from = 0
    /\ \A r \in Requests : Stands(r, s, 0) /\ handed # <<>> => to >= Needed(r)
    /\ \A r \in Requests : Stands(r, s, 0) /\ handed = <<>> /\ to < Len(s) => open = "open"

\* A message that was posted is the request it began with.
Exact(r, s, e) ==
    LET m == e.message
        body == e.from + Len(RequestStream(r)) - Len(r.body)
    IN  /\ m.method = r.method /\ m.query = r.query /\ m.version = Version
        /\ m.lines = r.lines /\ m.path \in Paths(r)
        /\ m.content = IF r.body = <<>> THEN <<>> ELSE SubSeq(s, body + 1, e.to)

AllExact(s, handed) ==
    \A i \in DOMAIN handed : \A r \in Requests :
        Stands(r, s, handed[i].from) => Exact(r, s, handed[i])

\* The client reads the response that was sent.
ClientReads(s, to, open, q, handed) ==
    /\ \E r \in Responses : s = ResponseStream(r)
    /\ \A r \in Responses : s = ResponseStream(r) => Answered(r, q, Rest(s, to))
    /\ handed # <<>> <=> q.result = 1
    /\ q.result = 1 => open = "closed"

ParseIInv ==
    /\ Places
    /\ role = "server" => ServerReads(stream, begin, pos, link, parser, posted)
    /\ role = "server" => AllExact(stream, posted)
    /\ role = "client" => ClientReads(stream, pos, link, parser, posted)

-----------------------------------------------------------------------------
(* Texts.                                                                  *)

LEMMA Characters ==
    /\ SP \in Char /\ CR \in Char /\ LF \in Char
    /\ "/" \in Char /\ "?" \in Char /\ Length \in Char
BY DEF Char

LEMMA OneBefore ==
    ASSUME NEW c \in Char, NEW t \in Text
    PROVE  /\ <<c>> \o t \in Text /\ <<c>> \o t # <<>>
           /\ Head(<<c>> \o t) = c /\ Tail(<<c>> \o t) = t
           /\ Len(<<c>> \o t) = Len(t) + 1
<1> DEFINE o == <<c>>
           w == o \o t
<1>1. o \in Text /\ Len(o) = 1 /\ o[1] = c
    BY DEF Text
<1>2. t \in Seq(Char) /\ o \in Seq(Char) /\ Len(t) \in Nat
    BY <1>1 DEF Text
<1> HIDE DEF o
<1>3. /\ w \in Seq(Char) /\ Len(w) = 1 + Len(t)
      /\ \A i \in 1 .. 1 + Len(t) : w[i] = IF i <= 1 THEN c ELSE t[i - 1]
  <2>1. /\ w \in Seq(Char) /\ Len(w) = Len(o) + Len(t)
        /\ \A i \in 1 .. Len(o) + Len(t) : w[i] = IF i <= Len(o) THEN o[i] ELSE t[i - Len(o)]
      BY <1>2, ConcatProperties
  <2> HIDE DEF w
  <2> QED BY <1>1, <1>2, <2>1
<1> HIDE DEF w
<1>4. w # <<>> /\ w[1] = c
    BY <1>2, <1>3, EmptySeq
<1>5. /\ Tail(w) \in Seq(Char) /\ Len(Tail(w)) = Len(t)
      /\ \A i \in 1 .. Len(Tail(w)) : Tail(w)[i] = w[i + 1]
    BY <1>2, <1>3, <1>4, HeadTailProperties
<1>6. \A i \in 1 .. Len(t) : w[i + 1] = t[i]
    BY <1>2, <1>3
<1>7. Tail(w) = t
    BY <1>2, <1>5, <1>6, SeqEqual
<1>8. Head(w) = c
    BY <1>3, <1>4
<1> QED BY <1>2, <1>3, <1>4, <1>7, <1>8 DEF w, o, Text

LEMMA Associative ==
    ASSUME NEW a \in Text, NEW b \in Text, NEW c \in Text
    PROVE  (a \o b) \o c = a \o (b \o c)
BY ConcatAssociative DEF Text

LEMMA JoinText ==
    ASSUME NEW a \in Text, NEW b \in Text
    PROVE  a \o b \in Text /\ Len(a \o b) = Len(a) + Len(b) /\ Len(a) \in Nat /\ Len(b) \in Nat
BY ConcatProperties DEF Text

LEMMA EmptyText == /\ <<>> \in Text /\ Len(<<>>) = 0
                   /\ \A t \in Text : <<>> \o t = t /\ t \o <<>> = t
BY EmptySeq, ConcatEmptySeq DEF Text

LEMMA WithinBegins ==
    ASSUME NEW w \in Text, NEW t \in Text
    PROVE  Within(<<>>, w, w \o t, t)
<1>1. 0 \in 0 .. Len(w)
    BY DEF Text
<1>2. SubSeq(w, 1, 0) = <<>>
    BY SubSeqEmpty
<1>3. SubSeq(w, 0 + 1, Len(w)) = w
    BY SubSeqFull DEF Text
<1> QED BY <1>1, <1>2, <1>3 DEF Within

\* The part is over, or the next character is one of it.
WithinNext(done, whole, s, after) ==
    \/ done = whole /\ s = after
    \/ /\ s # <<>> /\ \E i \in 1 .. Len(whole) : Head(s) = whole[i]
       /\ Within(Append(done, Head(s)), whole, Tail(s), after)

LEMMA WithinStep ==
    ASSUME NEW whole \in Text, NEW after \in Text, NEW done, NEW s,
           Within(done, whole, s, after)
    PROVE  WithinNext(done, whole, s, after)
<1> DEFINE L == Len(whole)
<1>1. PICK n \in 0 .. L : /\ done = SubSeq(whole, 1, n)
                          /\ s = SubSeq(whole, n + 1, L) \o after
    BY DEF Within
<1>2. L \in Nat /\ whole \in Seq(Char)
    BY DEF Text
<1>3. CASE n = L
  <2>1. SubSeq(whole, 1, n) = whole
      BY <1>2, <1>3, SubSeqFull
  <2>2. SubSeq(whole, n + 1, L) = <<>>
      BY <1>2, <1>3, SubSeqEmpty
  <2> QED BY <1>1, <2>1, <2>2, EmptyText DEF WithinNext
<1>4. CASE n # L
  <2> DEFINE i == n + 1
             c == whole[i]
             v == SubSeq(whole, i + 1, L)
  <2>1. i \in 1 .. L /\ L \in i .. L /\ i \in 1 .. i /\ 1 \in 1 .. L /\ i \in 1 .. Len(whole)
        /\ i - 1 = n /\ i \in Nat /\ i <= L
      BY <1>2, <1>4
  <2>2. c \in Char
      BY <1>2, <2>1, ElementOfSeq
  <2>3. SubSeq(whole, i, L) = <<c>> \o v
      BY <1>2, <2>1, SubSeqRecursiveFirst
  <2>4. SubSeq(whole, 1, i) = SubSeq(whole, 1, i - 1) \o <<c>>
      BY <1>2, <2>1, SubSeqRecursiveSecond
  <2>5. v \in Text
      BY <1>2, <2>1, PieceIs DEF Text
  <2>6. done \in Seq(Char)
    <3>1. SubSeq(whole, 1, n) \in Seq(Char)
        BY <1>2, CutIs
    <3> QED BY <1>1, <3>1
  <2>7. i \in 0 .. L
      BY <1>2, <2>1
  <2> HIDE DEF c, v
  <2>8. SubSeq(whole, 1, i) = Append(done, c)
    <3>1. SubSeq(whole, 1, i) = done \o <<c>>
        BY <1>1, <2>1, <2>4
    <3> QED BY <2>2, <2>6, <3>1, AppendIsConcat
  <2>9. s = <<c>> \o (v \o after)
    <3>1. s = (<<c>> \o v) \o after
        BY <1>1, <2>3
    <3>2. <<c>> \in Text
        BY <2>2 DEF Text
    <3> QED BY <2>5, <3>1, <3>2, Associative
  <2>10. v \o after \in Text
      BY <2>5, JoinText
  <2>11. s # <<>> /\ Head(s) = c /\ Tail(s) = v \o after
      BY <2>2, <2>9, <2>10, OneBefore
  <2>12. Within(Append(done, c), whole, v \o after, after)
      BY <2>7, <2>8 DEF Within, v
  <2> QED BY <2>1, <2>11, <2>12 DEF WithinNext, c
<1> QED BY <1>3, <1>4

LEMMA WithinLength ==
    ASSUME NEW whole \in Text, NEW after \in Text, NEW done, NEW s,
           Within(done, whole, s, after)
    PROVE  s \in Text /\ done \in Text /\ Len(s) >= Len(after)
<1> DEFINE L == Len(whole)
<1>1. PICK n \in 0 .. L : /\ done = SubSeq(whole, 1, n)
                          /\ s = SubSeq(whole, n + 1, L) \o after
    BY DEF Within
<1>2. SubSeq(whole, 1, n) \in Text /\ SubSeq(whole, n + 1, L) \in Text
    BY CutIs DEF Text
<1> QED BY <1>1, <1>2, JoinText

-----------------------------------------------------------------------------
(* The header, from a line on.                                             *)

\* The lines from j + 1 on, each with its end.
LinesFrom(lines, j) == [i \in 1 .. Len(lines) - j |-> lines[j + i] \o CRLF]

LEMMA PairIs ==
    ASSUME NEW S, NEW x \in S, NEW y \in S
    PROVE  Append(<<x>>, y) = <<x, y>>
<1> DEFINE o == <<x>>
           a == Append(o, y)
           p == <<x, y>>
<1>1. o \in Seq(S) /\ Len(o) = 1 /\ o[1] = x
    OBVIOUS
<1>2. p \in Seq(S) /\ Len(p) = 2 /\ p[1] = x /\ p[2] = y
    OBVIOUS
<1> HIDE DEF o, p
<1>a. o \in Seq(S) /\ y \in S
    BY <1>1
<1>3. /\ a \in Seq(S) /\ Len(a) = Len(o) + 1 /\ a[Len(o) + 1] = y
      /\ \A i \in 1 .. Len(o) : a[i] = o[i]
    BY ONLY <1>a, AppendProperties DEF a
<1> HIDE DEF a
<1>4. Len(a) = Len(p)
    BY <1>1, <1>2, <1>3
<1>5. \A i \in 1 .. Len(a) : a[i] = p[i]
    BY <1>1, <1>2, <1>3
<1>6. a = p
    BY <1>2, <1>3, <1>4, <1>5, SeqEqual
<1> QED BY <1>6 DEF a, o, p

LEMMA Separator ==
    ASSUME NEW t \in Text
    PROVE  /\ CRLF \in Text /\ CRLF \o t = Ended(t) /\ Ended(t) \in Text
           /\ <<LF>> \o t \in Text /\ Len(Ended(t)) = Len(t) + 2 /\ Len(<<LF>> \o t) = Len(t) + 1
<1>1. CR \in Char /\ LF \in Char
    BY Characters
<1> DEFINE c == <<CR>>
           l == <<LF>>
           u == l \o t
<1>2. c \in Text /\ l \in Text /\ CRLF \in Text
    BY <1>1 DEF Text, CRLF
<1>3. CRLF = c \o l
  <2>1. Append(c, LF) = c \o l
      BY <1>1, <1>2, AppendIsConcat DEF Text
  <2>2. Append(c, LF) = CRLF
      BY <1>1, PairIs DEF CRLF
  <2> QED BY <2>1, <2>2
<1>4. u \in Text /\ Len(u) = Len(t) + 1
    BY <1>1, OneBefore
<1>5. c \o u \in Text /\ Len(c \o u) = Len(u) + 1
    BY <1>1, <1>4, OneBefore
<1>6. Ended(t) = c \o u
    BY DEF Ended
<1>7. CRLF \o t = c \o u
    BY <1>2, <1>3, Associative
<1>8. Len(t) \in Nat
    BY DEF Text
<1> HIDE DEF c, l
<1>9. Len(c \o u) = Len(t) + 2
    BY <1>4, <1>5, <1>8
<1> QED BY <1>2, <1>4, <1>5, <1>6, <1>7, <1>9 DEF l

LEMMA LinesType ==
    ASSUME NEW lines \in Seq(Text), NEW j \in 0 .. Len(lines)
    PROVE  LinesFrom(lines, j) \in Seq(Text) /\ FlattenSeq(LinesFrom(lines, j)) \in Text
<1>1. \A i \in 1 .. Len(lines) - j : lines[j + i] \o CRLF \in Text
  <2> SUFFICES ASSUME NEW i \in 1 .. Len(lines) - j PROVE lines[j + i] \o CRLF \in Text
      OBVIOUS
  <2>1. j + i \in 1 .. Len(lines)
      OBVIOUS
  <2>2. lines[j + i] \in Text
      BY <2>1, ElementOfSeq
  <2>3. CRLF \in Text
      BY EmptyText, Separator
  <2> QED BY <2>2, <2>3, JoinText
<1>2. LinesFrom(lines, j) \in Seq(Text)
  <2>1. Len(lines) - j \in Nat
      OBVIOUS
  <2> QED BY <1>1, <2>1 DEF LinesFrom
<1>3. FlattenSeq(LinesFrom(lines, j)) \in Seq(Char)
    BY <1>2, FlattenType DEF Text
<1> QED BY <1>2, <1>3 DEF Text

LEMMA HeaderIs ==
    \A lines, j, b : HeaderFrom(lines, j, b) = FlattenSeq(LinesFrom(lines, j)) \o Ended(b)
BY DEF HeaderFrom, LinesFrom

LEMMA HeaderType ==
    ASSUME NEW lines \in Seq(Text), NEW j \in 0 .. Len(lines), NEW b \in Text
    PROVE  HeaderFrom(lines, j, b) \in Text /\ Len(HeaderFrom(lines, j, b)) >= Len(b) + 2
<1> DEFINE f == FlattenSeq(LinesFrom(lines, j))
           e == Ended(b)
           h == HeaderFrom(lines, j, b)
<1>1. f \in Text /\ e \in Text /\ Len(e) = Len(b) + 2 /\ Len(b) \in Nat
    BY LinesType, Separator DEF Text
<1>2. h = f \o e
    BY HeaderIs
<1> HIDE DEF f, e, h
<1>3. h \in Text /\ Len(h) = Len(f) + Len(e) /\ Len(f) \in Nat
    BY <1>1, <1>2, JoinText
<1>4. Len(h) >= Len(b) + 2
    BY <1>1, <1>3
<1> QED BY <1>3, <1>4 DEF h

LEMMA HeaderLast ==
    ASSUME NEW lines \in Seq(Text), NEW b \in Text
    PROVE  HeaderFrom(lines, Len(lines), b) = Ended(b)
<1>1. Len(lines) \in Nat /\ Len(lines) - Len(lines) = 0
    OBVIOUS
<1>2. LinesFrom(lines, Len(lines)) = <<>>
    BY <1>1 DEF LinesFrom
<1>3. FlattenSeq(<<>>) = <<>>
    BY EmptySeq DEF FlattenSeq
<1>4. Ended(b) \in Text
    BY Separator
<1> QED BY <1>2, <1>3, <1>4, HeaderIs, EmptyText

LEMMA HeaderNext ==
    ASSUME NEW lines \in Seq(Text), NEW j \in 1 .. Len(lines), NEW b \in Text
    PROVE  HeaderFrom(lines, j - 1, b) = lines[j] \o Ended(HeaderFrom(lines, j, b))
<1> DEFINE k == j - 1
           x == lines[j] \o CRLF
           o == <<x>>
           f == LinesFrom(lines, j)
           g == LinesFrom(lines, k)
           e == Ended(b)
           h == HeaderFrom(lines, j, b)
<1>1. Len(lines) \in Nat /\ j \in 0 .. Len(lines) /\ k \in 0 .. Len(lines)
    OBVIOUS
<1>2. lines[j] \in Text /\ CRLF \in Text
    BY ElementOfSeq, EmptyText, Separator
<1>3. x \in Text
    BY <1>2, JoinText
<1>4. f \in Seq(Text) /\ FlattenSeq(f) \in Text /\ g \in Seq(Text) /\ FlattenSeq(g) \in Text
    BY <1>1, LinesType
<1>5. /\ Len(f) = Len(lines) - j /\ Len(g) = Len(lines) - k
      /\ \A i \in 1 .. Len(lines) - j : f[i] = lines[j + i] \o CRLF
      /\ \A i \in 1 .. Len(lines) - k : g[i] = lines[k + i] \o CRLF
    BY <1>1 DEF LinesFrom
<1>6. o \in Seq(Text) /\ Len(o) = 1 /\ o[1] = x
    BY <1>3
<1> HIDE DEF f, g
<1>7. g = o \o f
  <2> DEFINE y == o \o f
             R == Text
  <2> HIDE DEF R, o
  <2>1. y \in Seq(R) /\ Joined(y, o, f)
      BY <1>4, <1>6, JoinIs DEF R
  <2>2. o \in Seq(R) /\ f \in Seq(R) /\ g \in Seq(R)
      BY <1>4, <1>6 DEF R
  <2> HIDE DEF y
  <2>3. Len(y) = Len(g)
      BY <1>1, <1>5, <1>6, <2>1 DEF Joined
  <2>4. ASSUME NEW i \in 1 .. Len(g) PROVE g[i] = y[i]
    <3>1. CASE i = 1
      <4>a. \A l \in 1 .. Len(o) : y[l] = o[l]
          BY <2>1 DEF Joined
      <4>b. 1 \in 1 .. Len(o)
          BY <1>6
      <4>1. y[1] = o[1]
          BY <4>a, <4>b, Zenon
      <4>2. g[1] = lines[k + 1] \o CRLF /\ k + 1 = j
          BY <1>1, <1>5
      <4> QED BY <1>6, <3>1, <4>1, <4>2
    <3>2. CASE i # 1
      <4> DEFINE n == i - 1
      <4>1. n \in 1 .. Len(f) /\ Len(o) + n = i /\ k + i = j + n /\ n \in 1 .. Len(lines) - j
            /\ i \in 1 .. Len(lines) - k
          BY <1>1, <1>5, <1>6, <3>2
      <4> HIDE DEF n, k
      <4>2. y[i] = f[n]
          BY <2>1, <4>1 DEF Joined
      <4> QED BY <1>5, <4>1, <4>2
    <3> QED BY <3>1, <3>2
  <2>5. g = y
      BY <2>1, <2>2, <2>3, <2>4, SeqEqual
  <2> QED BY <2>5 DEF y
<1>8. FlattenSeq(o) = x
  <2>1. <<>> \in Seq(Seq(Char))
      OBVIOUS
  <2>2. FlattenSeq(Append(<<>>, x)) = FlattenSeq(<<>>) \o x
      BY <1>3, <2>1, FlattenAppend DEF Text
  <2>3. Append(<<>>, x) = o
      OBVIOUS
  <2>4. FlattenSeq(<<>>) = <<>>
      BY EmptySeq DEF FlattenSeq
  <2> QED BY <1>3, <2>2, <2>3, <2>4, EmptyText
<1>9. FlattenSeq(o \o f) = FlattenSeq(o) \o FlattenSeq(f)
    BY <1>4, <1>6, FlattenConcat DEF Text
<1>10. e \in Text
    BY Separator
<1>11. h \in Text
    BY <1>1, HeaderType
<1>12. h = FlattenSeq(f) \o e
    BY HeaderIs DEF f
<1>13. HeaderFrom(lines, k, b) = FlattenSeq(g) \o e
    BY HeaderIs DEF g
<1>14. FlattenSeq(g) \o e = x \o h
  <2> DEFINE t == FlattenSeq(f)
  <2>1. FlattenSeq(g) = x \o t
      BY <1>7, <1>8, <1>9
  <2>2. t \in Text /\ h = t \o e
      BY <1>4, <1>12
  <2> HIDE DEF x, e, h, t
  <2>3. (x \o t) \o e = x \o (t \o e)
      BY <1>3, <1>10, <2>2, Associative
  <2> QED BY <2>1, <2>2, <2>3
<1>15. x \o h = lines[j] \o (CRLF \o h)
    BY <1>2, <1>11, Associative
<1>16. CRLF \o h = Ended(h)
    BY <1>11, Separator
<1> QED BY <1>13, <1>14, <1>15, <1>16

LEMMA HeaderAll ==
    ASSUME NEW lines \in Seq(Text), NEW b \in Text
    PROVE  HeadersAndBody(lines, b) = HeaderFrom(lines, 0, b)
<1>1. Len(lines) \in Nat /\ DOMAIN lines = 1 .. Len(lines)
    OBVIOUS
<1>2. [i \in DOMAIN lines |-> lines[i] \o CRLF] = LinesFrom(lines, 0)
    BY <1>1 DEF LinesFrom
<1>3. CRLF \o b = Ended(b)
    BY Separator
<1> QED BY <1>2, <1>3, HeaderIs DEF HeadersAndBody

-----------------------------------------------------------------------------
(* The length a header gives.                                              *)

LEMMA LargestIs ==
    ASSUME NEW j \in Nat, NEW T \in SUBSET (1 .. j), T # {}
    PROVE  Max(T) \in T /\ \A y \in T : Max(T) >= y
<1> DEFINE U == {j - x : x \in T}
<1>0. \A x \in T : x \in Int /\ j - x \in Nat
  <2>1. \A x \in T : x \in 1 .. j
      OBVIOUS
  <2> QED BY <2>1
<1>1. U \in SUBSET Nat /\ U # {}
    BY <1>0
<1>2. PICK u \in U : \A v \in U : u <= v
  <2> HIDE DEF U
  <2> QED BY <1>1, Smallest
<1>3. PICK x \in T : u = j - x
    OBVIOUS
<1>4. \A y \in T : x >= y
  <2> SUFFICES ASSUME NEW y \in T PROVE x >= y
      OBVIOUS
  <2>1. u <= j - y
      BY <1>2
  <2>2. x \in Int /\ y \in Int
      BY <1>0
  <2> QED BY <1>3, <2>1, <2>2
<1> QED BY <1>4 DEF Max

LEMMA SmallestIs ==
    ASSUME NEW T \in SUBSET Nat, T # {}
    PROVE  Min(T) \in T /\ \A y \in T : Min(T) <= y
BY Smallest DEF Min

\* The lines among the first j that give a length.
Giving(lines, j) == {i \in 1 .. j : lines[i][1] = Length}

LEMMA LengthIs ==
    \A lines, j, none :
        LengthTo(lines, j, none) = IF Giving(lines, j) = {} THEN none
                                   ELSE atoi(lines[Max(Giving(lines, j))][2])
BY DEF LengthTo, Giving

LEMMA LengthZero == \A lines, none : LengthTo(lines, 0, none) = none
<1> SUFFICES ASSUME NEW lines, NEW none PROVE LengthTo(lines, 0, none) = none
    OBVIOUS
<1>1. Giving(lines, 0) = {}
    BY DEF Giving
<1> QED BY <1>1, LengthIs

LEMMA LengthNext ==
    ASSUME NEW lines, NEW j \in Nat \ {0}, NEW none
    PROVE  LengthTo(lines, j, none) = IF lines[j][1] = Length THEN atoi(lines[j][2])
                                      ELSE LengthTo(lines, j - 1, none)
<1>1. CASE lines[j][1] = Length
  <2> DEFINE T == Giving(lines, j)
  <2>1. j \in T /\ T \in SUBSET (1 .. j)
      BY <1>1 DEF Giving
  <2> HIDE DEF T
  <2>2. Max(T) \in T /\ Max(T) >= j
      BY <2>1, LargestIs
  <2>3. Max(T) = j /\ T # {}
    <3>1. Max(T) \in 1 .. j
        BY <2>1, <2>2
    <3> QED BY <2>1, <2>2, <3>1
  <2> QED BY <1>1, <2>3, LengthIs DEF T
<1>2. CASE lines[j][1] # Length
  <2>1. Giving(lines, j) = Giving(lines, j - 1)
    <3>1. \A i : i \in 1 .. j <=> i \in 1 .. j - 1 \/ i = j
        OBVIOUS
    <3> QED BY <1>2, <3>1 DEF Giving
  <2> QED BY <1>2, <2>1, LengthIs
<1> QED BY <1>1, <1>2

LEMMA LengthAll ==
    ASSUME NEW lines \in Seq(Text), NEW none
    PROVE  LengthTo(lines, Len(lines), none) = LengthIn(lines, none)
<1>1. DOMAIN lines = 1 .. Len(lines)
    OBVIOUS
<1> QED BY <1>1, LengthIs DEF LengthIn, Giving

LEMMA LengthGiven ==
    ASSUME NEW lines
    PROVE  \/ LengthIn(lines, -1) = LengthIn(lines, 0)
           \/ LengthIn(lines, -1) = -1 /\ LengthIn(lines, 0) = 0
BY DEF LengthIn

LEMMA DigitValue == ASSUME NEW d \in {ToString(n) : n \in 0 .. 9} PROVE atoi(d) \in Int
<1>1. PICK n \in 0 .. 9 : ToString(n) = d
    OBVIOUS
<1>2. atoi(d) \in 0 .. 9
    BY <1>1 DEF atoi
<1> QED BY <1>2

-----------------------------------------------------------------------------
(* Requests and responses.                                                 *)

LEMMA VersionIs == Version \in Text /\ Version # <<>> /\ Without(Version, {SP, CR})
BY StreamsAssumption

LEMMA RequestParts ==
    ASSUME NEW r \in Requests
    PROVE  /\ r.method \in Text /\ r.path \in Text /\ r.query \in Text
           /\ r.lines \in Seq(Text) /\ r.body \in Text
           /\ Without(r.method, {SP}) /\ Without(r.path, {SP, "?"}) /\ Without(r.query, {SP})
           /\ \A i \in 1 .. Len(r.lines) : r.lines[i] \in Text /\ HeaderLine(r.lines[i])
           /\ LengthTo(r.lines, Len(r.lines), 0) = Len(r.body)
<1>1. r \in [method : Text, path : Text, query : Text, lines : Seq(Text), body : Text]
    BY StreamsAssumption
<1>2. /\ r.method \in Text /\ r.path \in Text /\ r.query \in Text
      /\ r.lines \in Seq(Text) /\ r.body \in Text
    BY <1>1
<1>3. \A i \in 1 .. Len(r.lines) : r.lines[i] \in Text
    BY <1>2, ElementOfSeq
<1>4. DOMAIN r.lines = 1 .. Len(r.lines)
    BY <1>2
<1>5. /\ \A i \in 1 .. Len(r.lines) : HeaderLine(r.lines[i])
      /\ Len(r.body) = LengthIn(r.lines, 0)
    BY <1>4, StreamsAssumption
<1>6. LengthTo(r.lines, Len(r.lines), 0) = LengthIn(r.lines, 0)
    BY <1>2, LengthAll
<1>7. Without(r.method, {SP}) /\ Without(r.path, {SP, "?"}) /\ Without(r.query, {SP})
    BY StreamsAssumption
<1> QED BY <1>2, <1>3, <1>5, <1>6, <1>7

LEMMA ResponseParts ==
    ASSUME NEW r \in Responses
    PROVE  /\ r.code \in Text /\ r.reason \in Text
           /\ r.lines \in Seq(Text) /\ r.body \in Text
           /\ Without(r.code, {SP, CR}) /\ Without(r.reason, {CR})
           /\ \A i \in 1 .. Len(r.lines) : r.lines[i] \in Text /\ HeaderLine(r.lines[i])
           /\ \/ LengthTo(r.lines, Len(r.lines), -1) = Len(r.body)
              \/ LengthTo(r.lines, Len(r.lines), -1) = -1 /\ Len(r.body) = 0
<1>1. r \in [code : Text, reason : Text, lines : Seq(Text), body : Text]
    BY StreamsAssumption
<1>2. /\ r.code \in Text /\ r.reason \in Text
      /\ r.lines \in Seq(Text) /\ r.body \in Text
    BY <1>1
<1>3. \A i \in 1 .. Len(r.lines) : r.lines[i] \in Text
    BY <1>2, ElementOfSeq
<1>4. DOMAIN r.lines = 1 .. Len(r.lines)
    BY <1>2
<1>5. /\ \A i \in 1 .. Len(r.lines) : HeaderLine(r.lines[i])
      /\ Len(r.body) = LengthIn(r.lines, 0)
    BY <1>4, StreamsAssumption
<1>6. LengthTo(r.lines, Len(r.lines), -1) = LengthIn(r.lines, -1)
    BY <1>2, LengthAll
<1>7. Without(r.code, {SP, CR}) /\ Without(r.reason, {CR})
    BY StreamsAssumption
<1> QED BY <1>2, <1>3, <1>5, <1>6, <1>7, LengthGiven

LEMMA QueryType ==
    ASSUME NEW r \in Requests, NEW b \in Text
    PROVE  /\ FromVersion(r, b) = Version \o Ended(HeaderFrom(r.lines, 0, b))
           /\ FromVersion(r, b) \in Text /\ FromQuery(r, b) \in Text
           /\ FromPath(r, b) \in Text /\ RequestText(r, b) \in Text
           /\ Len(FromVersion(r, b)) > Len(b) /\ Len(FromQuery(r, b)) > Len(b)
           /\ Len(FromPath(r, b)) > Len(b)
<1> DEFINE h == HeaderFrom(r.lines, 0, b)
           e == Ended(h)
           v == FromVersion(r, b)
           sv == <<SP>> \o v
           qv == r.query \o sv
           mv == <<"?">> \o qv
           q == FromQuery(r, b)
           p == FromPath(r, b)
           lp == <<"/">> \o p
           slp == <<SP>> \o lp
<1>1. /\ r.method \in Text /\ r.path \in Text /\ r.query \in Text /\ r.lines \in Seq(Text)
      /\ SP \in Char /\ "/" \in Char /\ "?" \in Char /\ Version \in Text
    BY RequestParts, Characters, VersionIs
<1>2. h \in Text /\ Len(h) >= Len(b) + 2 /\ Len(b) \in Nat
  <2>1. 0 \in 0 .. Len(r.lines)
      BY <1>1
  <2> QED BY <1>1, <2>1, HeaderType DEF Text
<1> HIDE DEF h
<1>3. e \in Text /\ Len(e) = Len(h) + 2
    BY <1>2, Separator
<1>4. v = Version \o e
    BY <1>1, <1>2, HeaderAll, Separator DEF FromVersion, h
<1> HIDE DEF e, v
<1>5. v \in Text /\ Len(v) = Len(Version) + Len(e) /\ Len(Version) \in Nat
    BY <1>1, <1>3, <1>4, JoinText
<1>6. sv \in Text /\ Len(sv) = Len(v) + 1
    BY <1>1, <1>5, OneBefore
<1> HIDE DEF sv
<1>7. qv \in Text /\ Len(qv) = Len(r.query) + Len(sv) /\ Len(r.query) \in Nat
    BY <1>1, <1>6, JoinText
<1> HIDE DEF qv
<1>8. mv \in Text /\ Len(mv) = Len(qv) + 1
    BY <1>1, <1>7, OneBefore
<1> HIDE DEF mv
<1>9. q = IF r.query = <<>> THEN sv ELSE mv
    BY DEF FromQuery, sv, qv, mv, v
<1>10. q \in Text /\ Len(q) > Len(b)
  <2>1. Len(sv) > Len(b) /\ Len(sv) \in Nat
      BY <1>2, <1>3, <1>5, <1>6
  <2>2. Len(mv) > Len(b)
      BY <1>2, <1>7, <1>8, <2>1
  <2> HIDE DEF q
  <2>3. CASE r.query = <<>>
      BY <1>6, <1>9, <2>1, <2>3
  <2>4. CASE r.query # <<>>
      BY <1>8, <1>9, <2>2, <2>4
  <2> QED BY <2>3, <2>4
<1> HIDE DEF q
<1>11. p = r.path \o q
    BY DEF FromPath, q
<1> HIDE DEF p
<1>12. p \in Text /\ Len(p) = Len(r.path) + Len(q) /\ Len(r.path) \in Nat /\ Len(q) \in Nat
    BY <1>1, <1>10, <1>11, JoinText
<1>13. lp \in Text
    BY <1>1, <1>12, OneBefore
<1> HIDE DEF lp
<1>14. slp \in Text
    BY <1>1, <1>13, OneBefore
<1> HIDE DEF slp
<1>15. RequestText(r, b) = r.method \o slp
    BY DEF RequestText, slp, lp, p, FromPath, q
<1>16. RequestText(r, b) \in Text
    BY <1>1, <1>14, <1>15, JoinText
<1>17. Len(v) > Len(b) /\ Len(p) > Len(b)
    BY <1>2, <1>3, <1>5, <1>10, <1>12
<1> QED BY <1>4, <1>5, <1>10, <1>12, <1>16, <1>17 DEF v, q, p, e, h

\* What follows a text follows its last part.
Grows(t, x, u) == t \in Text /\ x \in Text /\ u \in Text /\ t \o x = u

LEMMA Extend ==
    ASSUME NEW a \in Text, NEW t, NEW x, NEW u, Grows(t, x, u)
    PROVE  Grows(a \o t, x, a \o u)
<1>1. t \in Text /\ x \in Text /\ u \in Text /\ t \o x = u
    BY DEF Grows
<1>2. a \o t \in Text /\ a \o u \in Text
    BY <1>1, JoinText
<1>3. (a \o t) \o x = a \o u
    BY <1>1, Associative
<1> QED BY <1>1, <1>2, <1>3 DEF Grows

LEMMA ExtendOne ==
    ASSUME NEW c \in Char, NEW t, NEW x, NEW u, Grows(t, x, u)
    PROVE  Grows(<<c>> \o t, x, <<c>> \o u)
<1> DEFINE a == <<c>>
<1>1. a \in Text
    BY DEF Text
<1> HIDE DEF a
<1>2. Grows(a \o t, x, a \o u)
    BY <1>1, Extend
<1> QED BY <1>2 DEF a

LEMMA EndedAppend ==
    ASSUME NEW b, NEW x, NEW c, Grows(b, x, c)
    PROVE  Grows(Ended(b), x, Ended(c))
<1>1. CR \in Char /\ LF \in Char
    BY Characters
<1> DEFINE u == <<LF>> \o b
           w == <<LF>> \o c
<1>2. Grows(u, x, w)
    BY <1>1, ExtendOne
<1> HIDE DEF u, w
<1>3. Grows(<<CR>> \o u, x, <<CR>> \o w)
    BY <1>1, <1>2, ExtendOne
<1> QED BY <1>3 DEF Ended, u, w

LEMMA HeaderAppend ==
    ASSUME NEW lines \in Seq(Text), NEW b, NEW x, NEW c, Grows(b, x, c)
    PROVE  Grows(HeadersAndBody(lines, b), x, HeadersAndBody(lines, c))
<1> DEFINE f == FlattenSeq(LinesFrom(lines, 0))
           e == Ended(b)
           d == Ended(c)
<1>1. 0 \in 0 .. Len(lines) /\ b \in Text /\ c \in Text
    BY DEF Grows
<1>2. f \in Text
    BY <1>1, LinesType
<1>3. Grows(e, x, d)
    BY EndedAppend
<1>4. HeadersAndBody(lines, b) = f \o e /\ HeadersAndBody(lines, c) = f \o d
    BY <1>1, HeaderAll, HeaderIs
<1> HIDE DEF f, e, d
<1>5. Grows(f \o e, x, f \o d)
    BY <1>2, <1>3, Extend
<1> QED BY <1>4, <1>5

LEMMA QueryAppend ==
    ASSUME NEW r \in Requests, NEW b, NEW x, NEW c, Grows(b, x, c)
    PROVE  Grows(FromQuery(r, b), x, FromQuery(r, c))
<1> DEFINE h(t) == HeadersAndBody(r.lines, t)
           e(t) == CRLF \o h(t)
           v(t) == Version \o e(t)
           sv(t) == <<SP>> \o v(t)
           qv(t) == r.query \o sv(t)
           mv(t) == <<"?">> \o qv(t)
<1>1. /\ r.query \in Text /\ r.lines \in Seq(Text)
      /\ SP \in Char /\ "/" \in Char /\ "?" \in Char /\ Version \in Text /\ CRLF \in Text
    BY RequestParts, Characters, VersionIs, EmptyText, Separator
<1>2. Grows(h(b), x, h(c))
    BY <1>1, HeaderAppend
<1> HIDE DEF h
<1>3. Grows(e(b), x, e(c))
    BY <1>1, <1>2, Extend
<1> HIDE DEF e
<1>4. Grows(v(b), x, v(c))
    BY <1>1, <1>3, Extend
<1> HIDE DEF v
<1>5. Grows(sv(b), x, sv(c))
    BY <1>1, <1>4, ExtendOne
<1> HIDE DEF sv
<1>6. Grows(qv(b), x, qv(c))
    BY <1>1, <1>5, Extend
<1> HIDE DEF qv
<1>7. Grows(mv(b), x, mv(c))
    BY <1>1, <1>6, ExtendOne
<1> HIDE DEF mv
<1>8. \A t : FromQuery(r, t) = IF r.query = <<>> THEN sv(t) ELSE mv(t)
    BY DEF FromQuery, FromVersion, mv, qv, sv, v, e, h
<1> QED BY <1>5, <1>7, <1>8

LEMMA TextAppend ==
    ASSUME NEW r \in Requests, NEW b \in Text, NEW x \in Text
    PROVE  RequestText(r, b) \in Text /\ RequestText(r, b) \o x = RequestText(r, b \o x)
<1> DEFINE c == b \o x
           q(t) == FromQuery(r, t)
           p(t) == r.path \o q(t)
           lp(t) == <<"/">> \o p(t)
           slp(t) == <<SP>> \o lp(t)
           w(t) == r.method \o slp(t)
<1>0. Grows(b, x, c)
    BY JoinText DEF Grows
<1> HIDE DEF c
<1>1. r.method \in Text /\ r.path \in Text /\ SP \in Char /\ "/" \in Char
    BY RequestParts, Characters
<1>2. Grows(q(b), x, q(c))
    BY <1>0, QueryAppend
<1> HIDE DEF q
<1>3. Grows(p(b), x, p(c))
    BY <1>1, <1>2, Extend
<1> HIDE DEF p
<1>4. Grows(lp(b), x, lp(c))
    BY <1>1, <1>3, ExtendOne
<1> HIDE DEF lp
<1>5. Grows(slp(b), x, slp(c))
    BY <1>1, <1>4, ExtendOne
<1> HIDE DEF slp
<1>6. Grows(w(b), x, w(c))
    BY <1>1, <1>5, Extend
<1>7. \A t : RequestText(r, t) = w(t)
    BY DEF RequestText, slp, lp, p, q
<1> HIDE DEF w
<1> QED BY <1>6, <1>7 DEF Grows, c

\* A request that stands in a text from a place on, with what follows.
Standing(r, s, from, b) ==
    /\ HeadOf(r) \in Nat /\ from + HeadOf(r) + Len(b) = Len(s)
    /\ b \in Text /\ Len(r.body) <= Len(b)
    /\ SubSeq(s, from + 1, Len(s)) = RequestText(r, b)
    /\ RequestText(r, b) \in Text

LEMMA StandsText ==
    ASSUME NEW s \in Text, NEW from \in 0 .. Len(s), NEW r \in Requests,
           IsPrefix(RequestStream(r), SubSeq(s, from + 1, Len(s)))
    PROVE  Standing(r, s, from, SubSeq(s, from + HeadOf(r) + 1, Len(s)))
<1> DEFINE q == SubSeq(s, from + 1, Len(s))
           p == RequestStream(r)
           g == RequestText(r, <<>>)
           n == Len(p)
           x == SubSeq(q, n + 1, Len(q))
           c == r.body \o x
<1>1. s \in Seq(Char) /\ Len(s) \in Nat /\ from \in Nat /\ from <= Len(s)
    BY DEF Text
<1>2. q \in Seq(Char) /\ Len(q) = Len(s) - from /\ \A i \in 1 .. Len(s) - from : q[i] = s[from + i]
    BY <1>1, PieceIs
<1>3. r.body \in Text /\ <<>> \in Text
    BY RequestParts, EmptyText
<1>4. g \in Text /\ p \in Text /\ p = g \o r.body
  <2>1. g \in Text /\ g \o r.body = RequestText(r, <<>> \o r.body)
      BY <1>3, TextAppend
  <2>2. <<>> \o r.body = r.body
      BY <1>3, EmptyText
  <2>3. p \in Text
      BY <1>3, TextAppend DEF RequestStream
  <2> QED BY <2>1, <2>2, <2>3 DEF RequestStream
<1> HIDE DEF g, p
<1>5. n \in Nat /\ Len(g) \in Nat /\ Len(r.body) \in Nat /\ n = Len(g) + Len(r.body)
    BY <1>3, <1>4, JoinText
<1>6. n <= Len(q) /\ SubSeq(p, 1, n) = SubSeq(q, 1, n)
    BY DEF IsPrefix, p
<1> HIDE DEF q
<1>7. n \in 0 .. Len(q)
    BY <1>1, <1>2, <1>5, <1>6
<1>8. SubSeq(p, 1, n) = p
    BY <1>4, SubSeqFull DEF Text
<1>9. SubSeq(q, 1, n) \o x = q /\ x \in Seq(Char)
    BY <1>2, <1>7, CutIs
<1>10. q = p \o x /\ x \in Text
    BY <1>6, <1>8, <1>9 DEF Text
<1> HIDE DEF x, n
<1>11. c \in Text /\ Len(c) = Len(r.body) + Len(x) /\ Len(x) \in Nat /\ Len(c) \in Nat
    BY <1>3, <1>10, JoinText
<1>12. q = g \o c
  <2> DEFINE d == r.body
  <2>1. d \in Text /\ q = (g \o d) \o x
      BY <1>3, <1>4, <1>10
  <2> HIDE DEF d
  <2>a. g \in Text /\ d \in Text /\ x \in Text
      BY <1>4, <1>10, <2>1
  <2>2. (g \o d) \o x = g \o (d \o x)
      BY ONLY <2>a, Associative
  <2> QED BY <2>1, <2>2 DEF d
<1>13. RequestText(r, c) = g \o c /\ RequestText(r, c) \in Text
  <2>1. g \o c = RequestText(r, <<>> \o c)
      BY <1>3, <1>11, TextAppend DEF g
  <2>2. <<>> \o c = c
      BY <1>11, EmptyText
  <2>3. RequestText(r, c) \in Text
      BY <1>11, TextAppend
  <2> QED BY <2>1, <2>2, <2>3
<1> HIDE DEF c
<1>14. HeadOf(r) = Len(g)
    BY <1>5 DEF HeadOf, n, p
<1> DEFINE k == from + Len(g)
           b == SubSeq(s, k + 1, Len(s))
<1>15. g \in Seq(Char) /\ c \in Seq(Char)
    BY <1>4, <1>11 DEF Text
<1>16. Joined(q, g, c)
    BY <1>12, <1>15, JoinIs
<1>17. k \in Nat /\ k <= Len(s) /\ Len(c) = Len(s) - k
  <2>1. Len(q) = Len(g) + Len(c)
      BY <1>16 DEF Joined
  <2>2. Len(q) = Len(s) - from /\ Len(c) \in Nat /\ Len(g) \in Nat
      BY <1>2, <1>5, <1>11
  <2> QED BY <1>1, <2>1, <2>2
<1>18. b \in Seq(Char) /\ Len(b) = Len(s) - k /\ \A i \in 1 .. Len(s) - k : b[i] = s[k + i]
    BY <1>1, <1>17, PieceIs
<1>19. ASSUME NEW i \in 1 .. Len(c) PROVE c[i] = b[i]
  <2>1. q[Len(g) + i] = c[i]
      BY <1>16 DEF Joined
  <2>2. Len(g) + i \in 1 .. Len(s) - from /\ from + (Len(g) + i) = k + i /\ i \in 1 .. Len(s) - k
      BY <1>1, <1>5, <1>11, <1>17
  <2>3. q[Len(g) + i] = s[from + (Len(g) + i)]
      BY <1>2, <2>2
  <2> HIDE DEF k, b
  <2> QED BY <1>18, <2>1, <2>2, <2>3
<1> HIDE DEF b
<1>20. b = c
  <2>1. Len(c) = Len(b)
      BY <1>17, <1>18
  <2> QED BY <1>15, <1>18, <1>19, <2>1, SeqEqual
<1>21. from + HeadOf(r) + Len(b) = Len(s) /\ Len(r.body) <= Len(b)
    BY <1>1, <1>5, <1>11, <1>14, <1>17, <1>20
<1>22. Standing(r, s, from, b)
    BY <1>5, <1>11, <1>12, <1>13, <1>14, <1>20, <1>21 DEF Standing, q
<1> QED BY <1>14, <1>22 DEF b, k

-----------------------------------------------------------------------------
(* The steps of the server's parser: from each state a character leads to  *)
(* where the text that is still to come says.                              *)

\* Before the content a character leads to a state before the content.
LEMMA ToBefore ==
    ASSUME NEW r, NEW b, NEW q \in Message, NEW t, q.result = 0, q.content = <<>>,
           \/ AtMethod(r, b, q, t) \/ AtSlash(r, b, q, t) \/ AtPath(r, b, q, t)
           \/ AtQuery(r, b, q, t) \/ AtVersion(r, b, q, t) \/ AtCRLF(r, b, q, t)
           \/ AtLineBegin(r, b, q, t) \/ AtLine(r, b, q, t) \/ AtDoubleCRLF(r, b, q, t)
    PROVE  Coming(r, b, q, t)
BY DEF Coming, BeforeContent

LEMMA NextCharacter ==
    ASSUME NEW s \in Text, s # <<>>
    PROVE  Head(s) \in Char /\ Tail(s) \in Text /\ Len(Tail(s)) = Len(s) - 1
BY HeadTailProperties DEF Text

\* A character of a part is none of those the part is without.
LEMMA NotIn ==
    ASSUME NEW whole \in Text, NEW chars, Without(whole, chars), NEW i \in 1 .. Len(whole)
    PROVE  whole[i] \notin chars
<1>1. DOMAIN whole = 1 .. Len(whole)
    BY DEF Text
<1> QED BY <1>1 DEF Without

LEMMA AppendText ==
    ASSUME NEW t \in Text, NEW c \in Char
    PROVE  Append(t, c) \in Text
BY AppendProperties DEF Text

LEMMA StepMethod ==
    ASSUME NEW r \in Requests, NEW b \in Text, NEW m \in Message, NEW s \in Text, s # <<>>,
           m.result = 0, m.content = <<>>, AtMethod(r, b, m, s)
    PROVE  Coming(r, b, OneCharacter(m, Head(s)), Tail(s))
<1> DEFINE c == Head(s)
           t == Tail(s)
           q == OneCharacter(m, c)
           p == FromPath(r, b)
           lp == <<"/">> \o p
           after == <<SP>> \o lp
<1>1. m.state = "Idle" /\ ~m.skip /\ m.path = <<>> /\ m.query = <<>> /\ NoVersion(r, m)
    BY DEF AtMethod
<1>2. c \in Char /\ t \in Text
    BY NextCharacter
<1>3. p \in Text /\ r.method \in Text /\ Without(r.method, {SP}) /\ SP \in Char /\ "/" \in Char
    BY QueryType, RequestParts, Characters
<1> HIDE DEF p
<1>4. lp \in Text
    BY <1>3, OneBefore
<1> HIDE DEF lp
<1>5. after \in Text /\ Head(after) = SP /\ Tail(after) = lp
    BY <1>3, <1>4, OneBefore
<1> HIDE DEF after
<1>6. Within(m.method, r.method, s, after)
    BY DEF AtMethod, after, lp, p
<1>7. WithinNext(m.method, r.method, s, after)
    BY <1>3, <1>5, <1>6, WithinStep
<1> HIDE DEF c, t
<1>8. CASE m.method = r.method /\ s = after
  <2>1. c = SP /\ t = lp
      BY <1>5, <1>8 DEF c, t
  <2>2. q = [m EXCEPT !.state = "GetPath", !.skip = TRUE]
      BY <1>1, <2>1 DEF OneCharacter
  <2> HIDE DEF q
  <2>3. /\ q \in Message /\ q.state = "GetPath" /\ q.skip /\ q.method = m.method
        /\ q.path = m.path /\ q.query = m.query /\ q.version = m.version /\ q.lines = m.lines
        /\ q.contentLength = m.contentLength /\ q.result = 0 /\ q.content = <<>>
      BY <2>2 DEF Message
  <2>4. NoVersion(r, q)
      BY <1>1, <2>3 DEF NoVersion, Header
  <2>5. AtSlash(r, b, q, t)
      BY <1>1, <1>8, <2>1, <2>3, <2>4 DEF AtSlash, lp, p
  <2> QED BY <2>3, <2>5, ToBefore DEF q, c, t
<1>9. CASE /\ \E i \in 1 .. Len(r.method) : c = r.method[i]
           /\ Within(Append(m.method, c), r.method, t, after)
  <2>1. c # SP
      BY <1>3, <1>9, NotIn
  <2>2. q = [m EXCEPT !.method = Append(@, c)]
      BY <1>1, <2>1 DEF OneCharacter
  <2>3. Append(m.method, c) \in Text
      BY <1>2, AppendText DEF Message
  <2> HIDE DEF q
  <2>4. /\ q \in Message /\ q.state = "Idle" /\ ~q.skip /\ q.method = Append(m.method, c)
        /\ q.path = m.path /\ q.query = m.query /\ q.version = m.version /\ q.lines = m.lines
        /\ q.contentLength = m.contentLength /\ q.result = 0 /\ q.content = <<>>
      BY <1>1, <2>2, <2>3 DEF Message
  <2>5. NoVersion(r, q)
      BY <1>1, <2>4 DEF NoVersion, Header
  <2>6. AtMethod(r, b, q, t)
      BY <1>1, <1>9, <2>4, <2>5 DEF AtMethod, after, lp, p
  <2> QED BY <2>4, <2>6, ToBefore DEF q, c, t
<1> QED BY <1>7, <1>8, <1>9 DEF WithinNext, c, t

LEMMA StepSlash ==
    ASSUME NEW r \in Requests, NEW b \in Text, NEW m \in Message, NEW s \in Text, s # <<>>,
           m.result = 0, m.content = <<>>, AtSlash(r, b, m, s)
    PROVE  Coming(r, b, OneCharacter(m, Head(s)), Tail(s))
<1> DEFINE c == Head(s)
           t == Tail(s)
           q == OneCharacter(m, c)
           p == FromPath(r, b)
<1>1. /\ m.state = "GetPath" /\ m.skip /\ m.method = r.method /\ m.path = <<>> /\ m.query = <<>>
      /\ NoVersion(r, m) /\ s = <<"/">> \o p
    BY DEF AtSlash
<1>2. p \in Text /\ r.path \in Text /\ "/" \in Char /\ FromQuery(r, b) \in Text
    BY QueryType, RequestParts, Characters
<1>3. t = p
  <2> HIDE DEF p
  <2> QED BY <1>1, <1>2, OneBefore
<1>4. q = [m EXCEPT !.skip = FALSE]
    BY <1>1 DEF OneCharacter
<1> HIDE DEF q
<1>5. /\ q \in Message /\ q.state = "GetPath" /\ ~q.skip /\ q.method = m.method
      /\ q.path = m.path /\ q.query = m.query /\ q.version = m.version /\ q.lines = m.lines
      /\ q.contentLength = m.contentLength /\ q.result = 0 /\ q.content = <<>>
    BY <1>1, <1>4 DEF Message
<1>6. NoVersion(r, q)
    BY <1>1, <1>5 DEF NoVersion, Header
<1>7. Within(<<>>, r.path, t, FromQuery(r, b))
    BY <1>2, <1>3, WithinBegins DEF FromPath
<1>8. AtPath(r, b, q, t)
    BY <1>1, <1>5, <1>6, <1>7 DEF AtPath, Paths
<1> QED BY <1>5, <1>8, ToBefore DEF q

LEMMA PathsText ==
    ASSUME NEW r \in Requests, NEW path \in Paths(r)
    PROVE  path \in Text /\ Without(path, {SP, "?"})
<1>1. r.path \in Text /\ Without(r.path, {SP, "?"}) /\ "/" \in Char
    BY RequestParts, Characters
<1>2. CASE path = r.path
    BY <1>1, <1>2
<1>3. CASE path = <<"/">> \o r.path
  <2> DEFINE o == <<"/">>
             u == r.path
             w == o \o u
  <2>1. o \in Seq(Char) /\ Len(o) = 1 /\ o[1] = "/" /\ u \in Seq(Char)
      BY <1>1 DEF Text
  <2> HIDE DEF o
  <2>2. w \in Seq(Char) /\ Joined(w, o, u)
      BY <2>1, JoinIs
  <2>3. \A i \in 1 .. Len(u) : u[i] \notin {SP, "?"}
      BY <1>1, NotIn
  <2> HIDE DEF u, w
  <2>4. ASSUME NEW i \in DOMAIN w PROVE w[i] \notin {SP, "?"}
    <3>1. i \in 1 .. Len(u) + 1 /\ Len(u) \in Nat
        BY <2>1, <2>2 DEF Joined
    <3>2. CASE i = 1
      <4>1. w[i] = "/"
          BY <2>1, <2>2, <3>2 DEF Joined
      <4> QED BY <4>1 DEF SP
    <3>3. CASE i # 1
      <4> DEFINE j == i - 1
      <4>1. j \in 1 .. Len(u) /\ Len(o) + j = i
          BY <2>1, <3>1, <3>3
      <4> HIDE DEF j
      <4>2. w[i] = u[j]
          BY <2>2, <4>1 DEF Joined
      <4> QED BY <2>3, <4>1, <4>2
    <3> QED BY <3>2, <3>3
  <2>5. Without(w, {SP, "?"})
      BY <2>4 DEF Without
  <2> QED BY <1>3, <2>2, <2>5 DEF Text, w, o, u
<1> QED BY <1>2, <1>3 DEF Paths

LEMMA StepPath ==
    ASSUME NEW r \in Requests, NEW b \in Text, NEW m \in Message, NEW s \in Text, s # <<>>,
           m.result = 0, m.content = <<>>, AtPath(r, b, m, s)
    PROVE  Coming(r, b, OneCharacter(m, Head(s)), Tail(s))
<1> DEFINE c == Head(s)
           t == Tail(s)
           q == OneCharacter(m, c)
           v == FromVersion(r, b)
           sv == <<SP>> \o v
           qv == r.query \o sv
           mv == <<"?">> \o qv
           after == FromQuery(r, b)
<1>1. /\ m.state = "GetPath" /\ ~m.skip /\ m.method = r.method /\ m.query = <<>>
      /\ NoVersion(r, m)
    BY DEF AtPath
<1>2. PICK path \in Paths(r) : Within(m.path, path, s, after)
    BY DEF AtPath
<1>3. path \in Text /\ Without(path, {SP, "?"})
    BY PathsText
<1>4. c \in Char /\ t \in Text
    BY NextCharacter
<1>5. /\ v \in Text /\ after \in Text /\ r.query \in Text /\ SP \in Char /\ "?" \in Char
      /\ v = Version \o Ended(HeaderFrom(r.lines, 0, b))
    BY QueryType, RequestParts, Characters
<1>6. after = IF r.query = <<>> THEN sv ELSE mv
    BY DEF FromQuery
<1> HIDE DEF v, after
<1>7. sv \in Text /\ Head(sv) = SP /\ Tail(sv) = v
    BY <1>5, OneBefore
<1> HIDE DEF sv
<1>8. qv \in Text
    BY <1>5, <1>7, JoinText
<1>9. Within(<<>>, r.query, qv, sv)
    BY <1>5, <1>7, WithinBegins
<1> HIDE DEF qv
<1>10. mv \in Text /\ Head(mv) = "?" /\ Tail(mv) = qv
    BY <1>5, <1>8, OneBefore
<1> HIDE DEF mv
<1>11. WithinNext(m.path, path, s, after)
    BY <1>2, <1>3, <1>5, WithinStep
<1> HIDE DEF c, t
<1>12. CASE m.path = path /\ s = after /\ r.query = <<>>
  <2>1. c = SP /\ t = v
      BY <1>6, <1>7, <1>12 DEF c, t
  <2>2. q = [m EXCEPT !.state = "GetVersion"]
      BY <1>1, <2>1 DEF OneCharacter, SP
  <2> HIDE DEF q
  <2>3. /\ q \in Message /\ q.state = "GetVersion" /\ ~q.skip /\ q.method = m.method
        /\ q.path = m.path /\ q.query = m.query /\ q.version = m.version /\ q.lines = m.lines
        /\ q.contentLength = m.contentLength /\ q.result = 0 /\ q.content = <<>>
      BY <1>1, <2>2 DEF Message
  <2>4. Header(r, q, 0) /\ q.version = <<>>
      BY <1>1, <2>3 DEF NoVersion, Header
  <2>5. Asked(r, q)
      BY <1>1, <1>12, <2>3 DEF Asked
  <2>6. Within(q.version, Version, t, Ended(HeaderFrom(r.lines, 0, b)))
    <3> DEFINE e == Ended(HeaderFrom(r.lines, 0, b))
    <3>1. e \in Text
      <4>1. 0 \in 0 .. Len(r.lines) /\ r.lines \in Seq(Text)
          BY RequestParts
      <4> QED BY <4>1, HeaderType, Separator
    <3> HIDE DEF e
    <3>2. Within(<<>>, Version, Version \o e, e)
        BY <3>1, VersionIs, WithinBegins
    <3> QED BY <1>5, <2>1, <2>4, <3>2 DEF e
  <2>7. AtVersion(r, b, q, t)
      BY <2>3, <2>4, <2>5, <2>6 DEF AtVersion
  <2> QED BY <2>3, <2>7, ToBefore DEF q, c, t
<1>13. CASE m.path = path /\ s = after /\ r.query # <<>>
  <2>1. c = "?" /\ t = qv
      BY <1>6, <1>10, <1>13 DEF c, t
  <2>2. q = [m EXCEPT !.state = "GetQuery"]
      BY <1>1, <2>1 DEF OneCharacter
  <2> HIDE DEF q
  <2>3. /\ q \in Message /\ q.state = "GetQuery" /\ ~q.skip /\ q.method = m.method
        /\ q.path = m.path /\ q.query = m.query /\ q.version = m.version /\ q.lines = m.lines
        /\ q.contentLength = m.contentLength /\ q.result = 0 /\ q.content = <<>>
      BY <1>1, <2>2 DEF Message
  <2>4. NoVersion(r, q)
      BY <1>1, <2>3 DEF NoVersion, Header
  <2>5. AtQuery(r, b, q, t)
      BY <1>1, <1>9, <1>13, <2>1, <2>3, <2>4 DEF AtQuery, sv, v
  <2> QED BY <2>3, <2>5, ToBefore DEF q, c, t
<1>14. CASE /\ \E i \in 1 .. Len(path) : c = path[i]
            /\ Within(Append(m.path, c), path, t, after)
  <2>1. c # SP /\ c # "?"
    <3>1. c \notin {SP, "?"}
        BY <1>3, <1>14, NotIn
    <3> QED BY <3>1
  <2>2. q = [m EXCEPT !.path = Append(@, c)]
      BY <1>1, <2>1 DEF OneCharacter
  <2>3. Append(m.path, c) \in Text
      BY <1>4, AppendText DEF Message
  <2> HIDE DEF q
  <2>4. /\ q \in Message /\ q.state = "GetPath" /\ ~q.skip /\ q.method = m.method
        /\ q.path = Append(m.path, c) /\ q.query = m.query /\ q.version = m.version
        /\ q.lines = m.lines /\ q.contentLength = m.contentLength /\ q.result = 0
        /\ q.content = <<>>
      BY <1>1, <2>2, <2>3 DEF Message
  <2>5. NoVersion(r, q)
      BY <1>1, <2>4 DEF NoVersion, Header
  <2>6. AtPath(r, b, q, t)
      BY <1>1, <1>14, <2>4, <2>5 DEF AtPath, after
  <2> QED BY <2>4, <2>6, ToBefore DEF q, c, t
<1> QED BY <1>11, <1>12, <1>13, <1>14 DEF WithinNext, c, t

LEMMA StepQuery ==
    ASSUME NEW r \in Requests, NEW b \in Text, NEW m \in Message, NEW s \in Text, s # <<>>,
           m.result = 0, m.content = <<>>, AtQuery(r, b, m, s)
    PROVE  Coming(r, b, OneCharacter(m, Head(s)), Tail(s))
<1> DEFINE c == Head(s)
           t == Tail(s)
           q == OneCharacter(m, c)
           v == FromVersion(r, b)
           e == Ended(HeaderFrom(r.lines, 0, b))
           after == <<SP>> \o v
<1>1. /\ m.state = "GetQuery" /\ ~m.skip /\ m.method = r.method /\ m.path \in Paths(r)
      /\ NoVersion(r, m) /\ Within(m.query, r.query, s, after)
    BY DEF AtQuery
<1>2. c \in Char /\ t \in Text
    BY NextCharacter
<1>3. /\ v \in Text /\ r.query \in Text /\ Without(r.query, {SP}) /\ SP \in Char
      /\ v = Version \o e
    BY QueryType, RequestParts, Characters
<1>4. e \in Text
  <2>1. 0 \in 0 .. Len(r.lines) /\ r.lines \in Seq(Text)
      BY RequestParts
  <2> QED BY <2>1, HeaderType, Separator
<1> HIDE DEF v, e
<1>5. after \in Text /\ Head(after) = SP /\ Tail(after) = v
    BY <1>3, OneBefore
<1> HIDE DEF after
<1>6. WithinNext(m.query, r.query, s, after)
    BY <1>1, <1>3, <1>5, WithinStep
<1> HIDE DEF c, t
<1>7. CASE m.query = r.query /\ s = after
  <2>1. c = SP /\ t = v
      BY <1>5, <1>7 DEF c, t
  <2>2. q = [m EXCEPT !.state = "GetVersion"]
      BY <1>1, <2>1 DEF OneCharacter
  <2> HIDE DEF q
  <2>3. /\ q \in Message /\ q.state = "GetVersion" /\ ~q.skip /\ q.method = m.method
        /\ q.path = m.path /\ q.query = m.query /\ q.version = m.version /\ q.lines = m.lines
        /\ q.contentLength = m.contentLength /\ q.result = 0 /\ q.content = <<>>
      BY <1>1, <2>2 DEF Message
  <2>4. Header(r, q, 0) /\ q.version = <<>>
      BY <1>1, <2>3 DEF NoVersion, Header
  <2>5. Asked(r, q)
      BY <1>1, <1>7, <2>3 DEF Asked
  <2>6. Within(<<>>, Version, v, e)
      BY <1>3, <1>4, VersionIs, WithinBegins
  <2>7. AtVersion(r, b, q, t)
      BY <2>1, <2>3, <2>4, <2>5, <2>6 DEF AtVersion, e
  <2> QED BY <2>3, <2>7, ToBefore DEF q, c, t
<1>8. CASE /\ \E i \in 1 .. Len(r.query) : c = r.query[i]
           /\ Within(Append(m.query, c), r.query, t, after)
  <2>1. c # SP
      BY <1>3, <1>8, NotIn
  <2>2. q = [m EXCEPT !.query = Append(@, c)]
      BY <1>1, <2>1 DEF OneCharacter
  <2>3. Append(m.query, c) \in Text
      BY <1>2, AppendText DEF Message
  <2> HIDE DEF q
  <2>4. /\ q \in Message /\ q.state = "GetQuery" /\ ~q.skip /\ q.method = m.method
        /\ q.path = m.path /\ q.query = Append(m.query, c) /\ q.version = m.version
        /\ q.lines = m.lines /\ q.contentLength = m.contentLength /\ q.result = 0
        /\ q.content = <<>>
      BY <1>1, <2>2, <2>3 DEF Message
  <2>5. NoVersion(r, q)
      BY <1>1, <2>4 DEF NoVersion, Header
  <2>6. AtQuery(r, b, q, t)
      BY <1>1, <1>8, <2>4, <2>5 DEF AtQuery, after, v
  <2> QED BY <2>4, <2>6, ToBefore DEF q, c, t
<1> QED BY <1>6, <1>7, <1>8 DEF WithinNext, c, t

LEMMA StepVersion ==
    ASSUME NEW r \in Requests, NEW b \in Text, NEW m \in Message, NEW s \in Text, s # <<>>,
           m.result = 0, m.content = <<>>, AtVersion(r, b, m, s)
    PROVE  Coming(r, b, OneCharacter(m, Head(s)), Tail(s))
<1> DEFINE c == Head(s)
           t == Tail(s)
           q == OneCharacter(m, c)
           h == HeaderFrom(r.lines, 0, b)
           lh == <<LF>> \o h
           after == <<CR>> \o lh
<1>1. /\ m.state = "GetVersion" /\ ~m.skip /\ Asked(r, m) /\ Header(r, m, 0)
      /\ Within(m.version, Version, s, after)
    BY DEF AtVersion, Ended
<1>2. c \in Char /\ t \in Text
    BY NextCharacter
<1>3. CR \in Char /\ LF \in Char /\ 0 \in 0 .. Len(r.lines) /\ r.lines \in Seq(Text)
    BY Characters, RequestParts
<1>4. h \in Text
    BY <1>3, HeaderType
<1> HIDE DEF h
<1>5. lh \in Text
    BY <1>3, <1>4, OneBefore
<1> HIDE DEF lh
<1>6. after \in Text /\ Head(after) = CR /\ Tail(after) = lh
    BY <1>3, <1>5, OneBefore
<1> HIDE DEF after
<1>7. WithinNext(m.version, Version, s, after)
    BY <1>1, <1>6, VersionIs, WithinStep
<1> HIDE DEF c, t
<1>8. CASE m.version = Version /\ s = after
  <2>1. c = CR /\ t = lh
      BY <1>6, <1>8 DEF c, t
  <2>2. q = [m EXCEPT !.state = "GetCRLF"]
      BY <1>1, <1>8, <2>1 DEF OneCharacter
  <2> HIDE DEF q
  <2>3. /\ q \in Message /\ q.state = "GetCRLF" /\ ~q.skip /\ q.method = m.method
        /\ q.path = m.path /\ q.query = m.query /\ q.version = m.version /\ q.lines = m.lines
        /\ q.contentLength = m.contentLength /\ q.result = 0 /\ q.content = <<>>
      BY <1>1, <2>2 DEF Message
  <2>4. Header(r, q, 0) /\ AskedAll(r, q)
      BY <1>1, <1>8, <2>3 DEF Header, Asked, AskedAll
  <2>5. AtCRLF(r, b, q, t)
      BY <1>3, <2>1, <2>3, <2>4 DEF AtCRLF, lh, h
  <2> QED BY <2>3, <2>5, ToBefore DEF q, c, t
<1>9. CASE /\ \E i \in 1 .. Len(Version) : c = Version[i]
           /\ Within(Append(m.version, c), Version, t, after)
  <2>1. c # CR
    <3>1. c \notin {SP, CR}
        BY <1>9, VersionIs, NotIn
    <3> QED BY <3>1
  <2>2. q = [m EXCEPT !.version = Append(@, c)]
      BY <1>1, <2>1 DEF OneCharacter
  <2>3. Append(m.version, c) \in Text
      BY <1>2, AppendText DEF Message
  <2> HIDE DEF q
  <2>4. /\ q \in Message /\ q.state = "GetVersion" /\ ~q.skip /\ q.method = m.method
        /\ q.path = m.path /\ q.query = m.query /\ q.version = Append(m.version, c)
        /\ q.lines = m.lines /\ q.contentLength = m.contentLength /\ q.result = 0
        /\ q.content = <<>>
      BY <1>1, <2>2, <2>3 DEF Message
  <2>5. Header(r, q, 0) /\ Asked(r, q)
      BY <1>1, <2>4 DEF Header, Asked
  <2>6. AtVersion(r, b, q, t)
      BY <1>9, <2>4, <2>5 DEF AtVersion, Ended, after, lh, h
  <2> QED BY <2>4, <2>6, ToBefore DEF q, c, t
<1> QED BY <1>7, <1>8, <1>9 DEF WithinNext, c, t

LEMMA StepCRLF ==
    ASSUME NEW r \in Requests, NEW b \in Text, NEW m \in Message, NEW s \in Text, s # <<>>,
           m.result = 0, m.content = <<>>, AtCRLF(r, b, m, s)
    PROVE  Coming(r, b, OneCharacter(m, Head(s)), Tail(s))
<1> DEFINE c == Head(s)
           t == Tail(s)
           q == OneCharacter(m, c)
<1>1. m.state = "GetCRLF" /\ ~m.skip /\ AskedAll(r, m)
    BY DEF AtCRLF
<1>2. PICK j \in 0 .. Len(r.lines) : Header(r, m, j) /\ s = <<LF>> \o HeaderFrom(r.lines, j, b)
    BY DEF AtCRLF
<1> DEFINE h == HeaderFrom(r.lines, j, b)
<1>3. h \in Text /\ LF \in Char
    BY RequestParts, HeaderType, Characters
<1>4. c = LF /\ t = h
  <2> HIDE DEF h
  <2>1. s = <<LF>> \o h
      BY <1>2 DEF h
  <2> QED BY <1>3, <2>1, OneBefore
<1> HIDE DEF c, t, h
<1>5. q = [m EXCEPT !.state = "GetLineBegin", !.curLine = <<>>]
    BY <1>1, <1>4 DEF OneCharacter
<1> HIDE DEF q
<1>6. /\ q \in Message /\ q.state = "GetLineBegin" /\ ~q.skip /\ q.method = m.method
      /\ q.path = m.path /\ q.query = m.query /\ q.version = m.version /\ q.lines = m.lines
      /\ q.contentLength = m.contentLength /\ q.result = 0 /\ q.content = <<>>
      /\ q.curLine = <<>>
    BY <1>1, <1>5, EmptyText DEF Message
<1>7. Header(r, q, j) /\ AskedAll(r, q)
    BY <1>1, <1>2, <1>6 DEF Header, Asked, AskedAll
<1>8. AtLineBegin(r, b, q, t)
    BY <1>4, <1>6, <1>7 DEF AtLineBegin, h
<1> QED BY <1>6, <1>8, ToBefore DEF q, c, t

\* Behind the last line comes the end of the header, behind another the next.
LEMMA StepLineBegin ==
    ASSUME NEW r \in Requests, NEW b \in Text, NEW m \in Message, NEW s \in Text, s # <<>>,
           m.result = 0, m.content = <<>>, AtLineBegin(r, b, m, s)
    PROVE  Coming(r, b, OneCharacter(m, Head(s)), Tail(s))
<1> DEFINE c == Head(s)
           t == Tail(s)
           q == OneCharacter(m, c)
           L == Len(r.lines)
<1>1. m.state = "GetLineBegin" /\ ~m.skip /\ AskedAll(r, m) /\ m.curLine = <<>>
    BY DEF AtLineBegin
<1>2. PICK j \in 0 .. L : Header(r, m, j) /\ s = HeaderFrom(r.lines, j, b)
    BY DEF AtLineBegin
<1>3. c \in Char /\ t \in Text /\ CR \in Char /\ L \in Nat /\ r.lines \in Seq(Text)
    BY NextCharacter, Characters, RequestParts
<1>4. CASE j = L
  <2> DEFINE lb == <<LF>> \o b
  <2>1. s = <<CR>> \o lb
      BY <1>2, <1>3, <1>4, HeaderLast DEF Ended
  <2>2. lb \in Text
      BY Separator
  <2> HIDE DEF lb
  <2>3. c = CR /\ t = lb
      BY <1>3, <2>1, <2>2, OneBefore
  <2> HIDE DEF c, t
  <2>4. q = [m EXCEPT !.state = "GetDoubleCRLF"]
      BY <1>1, <2>3 DEF OneCharacter
  <2> HIDE DEF q
  <2>5. /\ q \in Message /\ q.state = "GetDoubleCRLF" /\ ~q.skip /\ q.method = m.method
        /\ q.path = m.path /\ q.query = m.query /\ q.version = m.version /\ q.lines = m.lines
        /\ q.contentLength = m.contentLength /\ q.result = 0 /\ q.content = <<>>
      BY <1>1, <2>4 DEF Message
  <2>6. Header(r, q, L) /\ AskedAll(r, q)
      BY <1>1, <1>2, <1>4, <2>5 DEF Header, Asked, AskedAll
  <2>7. AtDoubleCRLF(r, b, q, t)
      BY <2>3, <2>5, <2>6 DEF AtDoubleCRLF, lb
  <2> QED BY <2>5, <2>7, ToBefore DEF q, c, t
<1>5. CASE j # L
  <2> DEFINE i == j + 1
             h == HeaderFrom(r.lines, i, b)
             after == Ended(h)
             line == r.lines[i]
  <2>1. i \in 1 .. L /\ i - 1 = j /\ i \in 0 .. L
      BY <1>3, <1>5
  <2> HIDE DEF i
  <2>2. h \in Text /\ line \in Text /\ HeaderLine(line)
      BY <1>3, <2>1, HeaderType, RequestParts
  <2>3. s = line \o after
      BY <1>2, <1>3, <2>1, HeaderNext
  <2>4. after \in Text
      BY <2>2, Separator
  <2>5. line # <<>> /\ Without(line, {CR})
      BY <2>2 DEF HeaderLine
  <2> HIDE DEF h, after, line
  <2>6. Within(<<>>, line, s, after)
      BY <2>2, <2>3, <2>4, WithinBegins
  <2>7. WithinNext(<<>>, line, s, after)
      BY <2>2, <2>4, <2>6, WithinStep
  <2> HIDE DEF c, t
  <2>8. /\ \E k \in 1 .. Len(line) : c = line[k]
        /\ Within(Append(<<>>, c), line, t, after)
      BY <2>5, <2>7 DEF WithinNext, c, t
  <2>9. c # CR
      BY <2>2, <2>5, <2>8, NotIn
  <2>10. q = [m EXCEPT !.state = "GetLine", !.curLine = Append(@, c)]
      BY <1>1, <2>9 DEF OneCharacter
  <2>11. Append(<<>>, c) \in Text
      BY <1>3, EmptyText, AppendText
  <2> HIDE DEF q
  <2>12. /\ q \in Message /\ q.state = "GetLine" /\ ~q.skip /\ q.method = m.method
         /\ q.path = m.path /\ q.query = m.query /\ q.version = m.version /\ q.lines = m.lines
         /\ q.contentLength = m.contentLength /\ q.result = 0 /\ q.content = <<>>
         /\ q.curLine = Append(<<>>, c)
      BY <1>1, <2>10, <2>11 DEF Message
  <2>13. Header(r, q, i - 1) /\ AskedAll(r, q)
      BY <1>1, <1>2, <2>1, <2>12 DEF Header, Asked, AskedAll
  <2>14. AtLine(r, b, q, t)
      BY <2>1, <2>8, <2>12, <2>13 DEF AtLine, after, h, line
  <2> QED BY <2>12, <2>14, ToBefore DEF q, c, t
<1> QED BY <1>4, <1>5

\* The header with one line more.
LEMMA HeaderMore ==
    ASSUME NEW r \in Requests, NEW m \in Message, NEW j \in 1 .. Len(r.lines),
           Header(r, m, j - 1), m.curLine = r.lines[j],
           NEW q, q.lines = Append(m.lines, m.curLine),
           q.contentLength = IF m.curLine[1] = Length THEN atoi(m.curLine[2])
                             ELSE m.contentLength
    PROVE  Header(r, q, j)
<1> DEFINE l == m.curLine
           ls == m.lines
           a == Append(ls, l)
<1>1. l \in Text /\ ls \in Seq(Text) /\ Len(r.lines) \in Nat /\ j \in Nat \ {0}
    BY RequestParts DEF Message
<1>2. Len(ls) = j - 1 /\ \A i \in 1 .. j - 1 : ls[i] = r.lines[i]
    BY DEF Header
<1> HIDE DEF l, ls
<1>3. /\ Len(a) = Len(ls) + 1 /\ a[Len(ls) + 1] = l
      /\ \A i \in 1 .. Len(ls) : a[i] = ls[i]
    BY <1>1, AppendProperties
<1> HIDE DEF a
<1>4. Len(a) = j /\ a[j] = l
    BY <1>1, <1>2, <1>3
<1>5. ASSUME NEW i \in 1 .. j PROVE a[i] = r.lines[i]
  <2>1. CASE i = j
      BY <1>4, <2>1 DEF l
  <2>2. CASE i # j
    <3>1. i \in 1 .. j - 1
        BY <1>1, <2>2
    <3> QED BY <1>2, <1>3, <3>1
  <2> QED BY <2>1, <2>2
<1>6. q.contentLength = LengthTo(r.lines, j, 0)
  <2>1. m.contentLength = LengthTo(r.lines, j - 1, 0)
      BY DEF Header
  <2> QED BY <1>1, <2>1, LengthNext
<1>7. q.lines = a
    BY DEF a, l, ls
<1> QED BY <1>4, <1>5, <1>6, <1>7 DEF Header

LEMMA StepLine ==
    ASSUME NEW r \in Requests, NEW b \in Text, NEW m \in Message, NEW s \in Text, s # <<>>,
           m.result = 0, m.content = <<>>, AtLine(r, b, m, s)
    PROVE  Coming(r, b, OneCharacter(m, Head(s)), Tail(s))
<1> DEFINE c == Head(s)
           t == Tail(s)
           q == OneCharacter(m, c)
<1>1. m.state = "GetLine" /\ ~m.skip /\ AskedAll(r, m)
    BY DEF AtLine
<1>2. PICK j \in 1 .. Len(r.lines) :
          /\ Header(r, m, j - 1)
          /\ Within(m.curLine, r.lines[j], s, Ended(HeaderFrom(r.lines, j, b)))
    BY DEF AtLine
<1> DEFINE h == HeaderFrom(r.lines, j, b)
           lh == <<LF>> \o h
           after == <<CR>> \o lh
           line == r.lines[j]
<1>3. /\ c \in Char /\ t \in Text /\ CR \in Char /\ LF \in Char /\ r.lines \in Seq(Text)
      /\ j \in 0 .. Len(r.lines) /\ line \in Text /\ HeaderLine(line)
    BY NextCharacter, Characters, RequestParts
<1>4. h \in Text
    BY <1>3, HeaderType
<1> HIDE DEF h
<1>5. lh \in Text
    BY <1>3, <1>4, OneBefore
<1> HIDE DEF lh
<1>6. after \in Text /\ Head(after) = CR /\ Tail(after) = lh
    BY <1>3, <1>5, OneBefore
<1>7. Within(m.curLine, line, s, after)
    BY <1>2 DEF Ended, lh, h
<1> HIDE DEF after, line
<1>8. WithinNext(m.curLine, line, s, after)
    BY <1>3, <1>6, <1>7, WithinStep
<1> HIDE DEF c, t
<1>9. CASE m.curLine = line /\ s = after
  <2>1. c = CR /\ t = lh
      BY <1>6, <1>9 DEF c, t
  <2>2. q = addHeader(m)
      BY <1>1, <2>1 DEF OneCharacter
  <2>3. m.curLine[1] = Length => atoi(m.curLine[2]) \in Int
      BY <1>3, <1>9, DigitValue DEF HeaderLine
  <2>4. Append(m.lines, m.curLine) \in Seq(Text)
    <3>1. m.lines \in Seq(Text) /\ m.curLine \in Text
        BY DEF Message
    <3> QED BY <3>1, AppendProperties
  <2>5. q = [m EXCEPT !.lines = Append(m.lines, m.curLine),
                      !.contentLength = IF m.curLine[1] = Length THEN atoi(m.curLine[2])
                                        ELSE m.contentLength,
                      !.state = "GetCRLF"]
      BY <2>2 DEF addHeader
  <2> DEFINE len == IF m.curLine[1] = Length THEN atoi(m.curLine[2]) ELSE m.contentLength
             ls == Append(m.lines, m.curLine)
  <2>6. len \in Int /\ ls \in Seq(Text)
      BY <2>3, <2>4 DEF Message
  <2>7. q = [m EXCEPT !.lines = ls, !.contentLength = len, !.state = "GetCRLF"]
      BY <2>5
  <2> HIDE DEF q, len, ls
  <2>8. /\ q \in Message /\ q.state = "GetCRLF" /\ ~q.skip /\ q.method = m.method
        /\ q.path = m.path /\ q.query = m.query /\ q.version = m.version /\ q.lines = ls
        /\ q.contentLength = len /\ q.result = 0 /\ q.content = <<>>
      BY <1>1, <2>6, <2>7 DEF Message
  <2>9. Header(r, q, j)
      BY <1>2, <1>9, <2>8, HeaderMore DEF len, ls, line
  <2>10. AskedAll(r, q)
      BY <1>1, <2>8 DEF Asked, AskedAll
  <2>11. AtCRLF(r, b, q, t)
      BY <1>3, <2>1, <2>8, <2>9, <2>10 DEF AtCRLF, lh, h
  <2> QED BY <2>8, <2>11, ToBefore DEF q, c, t
<1>10. CASE /\ \E i \in 1 .. Len(line) : c = line[i]
            /\ Within(Append(m.curLine, c), line, t, after)
  <2>1. c # CR
    <3>1. Without(line, {CR})
        BY <1>3 DEF HeaderLine
    <3>2. c \notin {CR}
        BY <1>3, <1>10, <3>1, NotIn
    <3> QED BY <3>2
  <2>2. q = [m EXCEPT !.curLine = Append(@, c)]
      BY <1>1, <2>1 DEF OneCharacter
  <2>3. Append(m.curLine, c) \in Text
      BY <1>3, AppendText DEF Message
  <2> HIDE DEF q
  <2>4. /\ q \in Message /\ q.state = "GetLine" /\ ~q.skip /\ q.method = m.method
        /\ q.path = m.path /\ q.query = m.query /\ q.version = m.version /\ q.lines = m.lines
        /\ q.contentLength = m.contentLength /\ q.result = 0 /\ q.content = <<>>
        /\ q.curLine = Append(m.curLine, c)
      BY <1>1, <2>2, <2>3 DEF Message
  <2>5. Header(r, q, j - 1) /\ AskedAll(r, q)
      BY <1>1, <1>2, <2>4 DEF Header, Asked, AskedAll
  <2>6. AtLine(r, b, q, t)
      BY <1>10, <2>4, <2>5 DEF AtLine, Ended, after, lh, h, line
  <2> QED BY <2>4, <2>6, ToBefore DEF q, c, t
<1> QED BY <1>8, <1>9, <1>10 DEF WithinNext, c, t

LEMMA StepDoubleCRLF ==
    ASSUME NEW r \in Requests, NEW b \in Text, NEW m \in Message, NEW s \in Text, s # <<>>,
           m.result = 0, m.content = <<>>, AtDoubleCRLF(r, b, m, s)
    PROVE  Coming(r, b, OneCharacter(m, Head(s)), Tail(s))
<1> DEFINE c == Head(s)
           t == Tail(s)
           q == OneCharacter(m, c)
           L == Len(r.lines)
<1>1. /\ m.state = "GetDoubleCRLF" /\ ~m.skip /\ AskedAll(r, m) /\ Header(r, m, L)
      /\ s = <<LF>> \o b
    BY DEF AtDoubleCRLF
<1>2. c = LF /\ t = b
    BY <1>1, Characters, OneBefore
<1>3. m.contentLength = Len(r.body) /\ r.body \in Text /\ Len(b) \in Nat
    BY <1>1, RequestParts DEF Header, Text
<1> HIDE DEF c, t
<1>4. CASE r.body = <<>>
  <2>1. m.contentLength = 0
      BY <1>3, <1>4, EmptyText
  <2>2. q = [m EXCEPT !.result = 1]
      BY <1>1, <1>2, <2>1 DEF OneCharacter
  <2> HIDE DEF q
  <2>3. /\ q \in Message /\ ~q.skip /\ q.method = m.method
        /\ q.path = m.path /\ q.query = m.query /\ q.version = m.version /\ q.lines = m.lines
        /\ q.contentLength = m.contentLength /\ q.result = 1 /\ q.content = <<>>
    <3>1. ~m.skip
        BY <1>1
    <3>2. q \in Message
        BY <2>2 DEF Message
    <3> QED BY <2>2, <3>1, <3>2 DEF Message
  <2>4. Header(r, q, L) /\ AskedAll(r, q)
      BY <1>1, <2>3 DEF Header, Asked, AskedAll
  <2>5. Len(t) <= Len(b)
      BY <1>2, <1>3
  <2>6. DoneBare(r, b, q, t)
      BY <1>4, <2>3, <2>4, <2>5 DEF DoneBare
  <2> QED BY <2>3, <2>6 DEF Coming, q, c, t
<1>5. CASE r.body # <<>>
  <2>1. m.contentLength # 0
      BY <1>3, <1>5, EmptySeq DEF Text
  <2>2. q = [m EXCEPT !.state = "GetContent"]
      BY <1>1, <1>2, <2>1 DEF OneCharacter
  <2> HIDE DEF q
  <2>3. /\ q \in Message /\ q.state = "GetContent" /\ ~q.skip /\ q.method = m.method
        /\ q.path = m.path /\ q.query = m.query /\ q.version = m.version /\ q.lines = m.lines
        /\ q.contentLength = m.contentLength /\ q.result = 0 /\ q.content = <<>>
      BY <1>1, <2>2 DEF Message
  <2>4. Header(r, q, L) /\ AskedAll(r, q)
      BY <1>1, <2>3 DEF Header, Asked, AskedAll
  <2>5. q.content \o t = b
      BY <1>2, <2>3, EmptyText
  <2>6. AtContent(r, b, q, t)
      BY <1>5, <2>3, <2>4, <2>5 DEF AtContent
  <2> QED BY <2>3, <2>6 DEF Coming, q, c, t
<1> QED BY <1>4, <1>5

\* A character moves from what is to come to what is read.
LEMMA MoveOne ==
    ASSUME NEW a \in Text, NEW s \in Text, s # <<>>
    PROVE  Append(a, Head(s)) \in Text /\ Append(a, Head(s)) \o Tail(s) = a \o s
<1> DEFINE c == Head(s)
           t == Tail(s)
           o == <<c>>
<1>1. c \in Char /\ t \in Text
    BY NextCharacter
<1>2. o \in Text
    BY <1>1 DEF Text
<1>3. s = o \o t
  <2> DEFINE L == Len(s)
  <2>1. s \in Seq(Char) /\ L \in Nat \ {0} /\ 1 \in 1 .. L /\ L \in 1 .. L
      BY EmptySeq DEF Text
  <2>2. SubSeq(s, 1, L) = <<s[1]>> \o SubSeq(s, 1 + 1, L)
      BY <2>1, SubSeqRecursiveFirst
  <2>3. SubSeq(s, 1, L) = s /\ Tail(s) = SubSeq(s, 2, L)
      BY <2>1, SubSeqFull, TailIsSubSeq
  <2>4. Head(s) = s[1] /\ 1 + 1 = 2
      BY <2>1
  <2> QED BY <2>2, <2>3, <2>4
<1>4. Append(a, c) = a \o o
    BY <1>1, AppendIsConcat DEF Text
<1> HIDE DEF o, c, t
<1>5. (a \o o) \o t = a \o (o \o t)
    BY <1>1, <1>2, Associative
<1>6. Append(a, c) \in Text
    BY <1>1, AppendText
<1> QED BY <1>3, <1>4, <1>5, <1>6 DEF c, t

LEMMA StepContent ==
    ASSUME NEW r \in Requests, NEW b \in Text, NEW m \in Message, NEW s \in Text, s # <<>>,
           m.result = 0, AtContent(r, b, m, s)
    PROVE  Coming(r, b, OneCharacter(m, Head(s)), Tail(s))
<1> DEFINE c == Head(s)
           t == Tail(s)
           q == OneCharacter(m, c)
           L == Len(r.lines)
           a == Append(m.content, c)
<1>1. /\ m.state = "GetContent" /\ ~m.skip /\ AskedAll(r, m) /\ Header(r, m, L)
      /\ r.body # <<>> /\ m.content \o s = b
    BY DEF AtContent
<1>2. m.content \in Text
    BY DEF Message
<1>3. a \in Text /\ a \o t = b
    BY <1>1, <1>2, MoveOne
<1>4. q = [m EXCEPT !.content = a]
    BY <1>1 DEF OneCharacter
<1> HIDE DEF q, a, t, c
<1>5. /\ q \in Message /\ q.state = "GetContent" /\ ~q.skip /\ q.method = m.method
      /\ q.path = m.path /\ q.query = m.query /\ q.version = m.version /\ q.lines = m.lines
      /\ q.contentLength = m.contentLength /\ q.result = 0 /\ q.content = a
    BY <1>1, <1>3, <1>4 DEF Message
<1>6. Header(r, q, L) /\ AskedAll(r, q)
    BY <1>1, <1>5 DEF Header, Asked, AskedAll
<1>7. AtContent(r, b, q, t)
    BY <1>1, <1>3, <1>5, <1>6 DEF AtContent
<1> QED BY <1>5, <1>7 DEF Coming, q, c, t

LEMMA StepDone ==
    ASSUME NEW r \in Requests, NEW b \in Text, NEW m \in Message, NEW s \in Text, s # <<>>,
           m.result = 1, DoneBare(r, b, m, s)
    PROVE  Coming(r, b, OneCharacter(m, Head(s)), Tail(s))
<1>1. OneCharacter(m, Head(s)) = m
    BY DEF OneCharacter
<1>2. Len(Tail(s)) = Len(s) - 1 /\ Len(s) \in Nat /\ Len(b) \in Nat
    BY NextCharacter DEF Text
<1>3. Len(s) <= Len(b)
    BY DEF DoneBare
<1>4. Len(Tail(s)) <= Len(b)
    BY <1>2, <1>3
<1> QED BY <1>1, <1>4 DEF Coming, DoneBare

LEMMA Step ==
    ASSUME NEW r \in Requests, NEW b \in Text, NEW m, NEW s \in Text, s # <<>>,
           Coming(r, b, m, s)
    PROVE  Coming(r, b, OneCharacter(m, Head(s)), Tail(s))
<1>1. m \in Message
    BY DEF Coming
<1>2. CASE m.result = 0 /\ BeforeContent(r, b, m, s)
  <2>1. m.content = <<>>
      BY <1>2 DEF BeforeContent
  <2>2. CASE AtMethod(r, b, m, s)
      BY <1>1, <1>2, <2>1, <2>2, StepMethod
  <2>3. CASE AtSlash(r, b, m, s)
      BY <1>1, <1>2, <2>1, <2>3, StepSlash
  <2>4. CASE AtPath(r, b, m, s)
      BY <1>1, <1>2, <2>1, <2>4, StepPath
  <2>5. CASE AtQuery(r, b, m, s)
      BY <1>1, <1>2, <2>1, <2>5, StepQuery
  <2>6. CASE AtVersion(r, b, m, s)
      BY <1>1, <1>2, <2>1, <2>6, StepVersion
  <2>7. CASE AtCRLF(r, b, m, s)
      BY <1>1, <1>2, <2>1, <2>7, StepCRLF
  <2>8. CASE AtLineBegin(r, b, m, s)
      BY <1>1, <1>2, <2>1, <2>8, StepLineBegin
  <2>9. CASE AtLine(r, b, m, s)
      BY <1>1, <1>2, <2>1, <2>9, StepLine
  <2>10. CASE AtDoubleCRLF(r, b, m, s)
      BY <1>1, <1>2, <2>1, <2>10, StepDoubleCRLF
  <2> QED BY <1>2, <2>2, <2>3, <2>4, <2>5, <2>6, <2>7, <2>8, <2>9, <2>10 DEF BeforeContent
<1>3. CASE m.result = 0 /\ AtContent(r, b, m, s)
    BY <1>1, <1>3, StepContent
<1>4. CASE m.result = 1 /\ DoneBare(r, b, m, s)
    BY <1>1, <1>4, StepDone
<1> QED BY <1>2, <1>3, <1>4 DEF Coming

\* The recursion over a piece has one solution.
Steps(m, piece, f) ==
    [i \in 0 .. Len(piece) |-> IF i = 0 THEN m ELSE OneCharacter(f[i - 1], piece[i])]

LEMMA StepsExist ==
    ASSUME NEW m, NEW piece \in Text
    PROVE  \E f : f = Steps(m, piece, f)
<1> DEFINE B(g, i) == IF i = 0 THEN m ELSE OneCharacter(g[i - 1], piece[i])
           P(k, g) == g = [i \in 0 .. k |-> B(g, i)]
           T == {k \in Nat : \E g : P(k, g)}
<1>1. Len(piece) \in Nat
    BY DEF Text
<1>2. 0 \in T
  <2> DEFINE g == [i \in 0 .. 0 |-> m]
  <2>1. P(0, g)
      OBVIOUS
  <2> QED BY <2>1
<1>3. ASSUME NEW k \in 1 .. Len(piece), k - 1 \in T PROVE k \in T
  <2>1. PICK g : P(k - 1, g)
      BY <1>3
  <2> DEFINE h == [i \in 0 .. k |-> IF i = k THEN B(g, k) ELSE g[i]]
  <2>2. ASSUME NEW i \in 0 .. k PROVE h[i] = B(h, i)
    <3>1. CASE i = k
      <4>1. k - 1 \in 0 .. k /\ k - 1 # k /\ k # 0
          OBVIOUS
      <4>2. h[k - 1] = g[k - 1] /\ h[i] = B(g, k)
          BY <3>1, <4>1
      <4> HIDE DEF h
      <4> QED BY <3>1, <4>1, <4>2
    <3>2. CASE i # k
      <4>1. i \in 0 .. k - 1 /\ (i # 0 => i - 1 \in 0 .. k - 1 /\ i - 1 # k /\ i - 1 \in 0 .. k)
          BY <3>2
      <4>2. h[i] = g[i] /\ (i # 0 => h[i - 1] = g[i - 1])
          BY <3>2, <4>1
      <4>3. g[i] = B(g, i)
          BY <2>1, <4>1
      <4> HIDE DEF h
      <4> QED BY <4>2, <4>3
    <3> QED BY <3>1, <3>2
  <2>3. h = [i \in 0 .. k |-> h[i]]
      OBVIOUS
  <2> HIDE DEF h, B
  <2>4. P(k, h)
      BY <2>2, <2>3
  <2> QED BY <1>1, <2>4
<1> HIDE DEF T
<1>4. 0 .. Len(piece) \subseteq T
    BY <1>1, <1>2, <1>3, FromZero
<1>5. Len(piece) \in T
    BY <1>1, <1>4
<1>6. PICK g : P(Len(piece), g)
    BY <1>5 DEF T
<1> QED BY <1>6 DEF Steps

\* The place behind p + k characters of a text.
LEMMA AfterPieceIs ==
    ASSUME NEW r \in Requests, NEW b \in Text, NEW s \in Text, NEW p \in 0 .. Len(s),
           NEW n \in 0 .. Len(s) - p, NEW m, Coming(r, b, m, SubSeq(s, p + 1, Len(s)))
    PROVE  Coming(r, b, AfterPiece(m, SubSeq(s, p + 1, p + n)), SubSeq(s, p + n + 1, Len(s)))
<1> DEFINE piece == SubSeq(s, p + 1, p + n)
           walk == CHOOSE f : f = Steps(m, piece, f)
           R(k) == SubSeq(s, p + k + 1, Len(s))
           T == {k \in Nat : Coming(r, b, walk[k], R(k))}
<1>1. /\ s \in Seq(Char) /\ Len(s) \in Nat /\ p \in Nat /\ n \in Nat
      /\ p + n \in Nat /\ p <= p + n /\ p + n <= Len(s) /\ (p + n) - p = n
    BY DEF Text
<1>2. piece \in Text /\ Len(piece) = n /\ \A i \in 1 .. n : piece[i] = s[p + i]
    BY <1>1, PieceIs DEF Text
<1>3. walk = Steps(m, piece, walk)
    BY <1>2, StepsExist
<1>4. AfterPiece(m, piece) = walk[Len(piece)]
    BY DEF AfterPiece, Steps
<1> HIDE DEF walk, piece
<1>5. walk[0] = m /\ \A i \in 1 .. n : walk[i] = OneCharacter(walk[i - 1], piece[i])
  <2>1. 0 \in 0 .. n /\ \A i \in 1 .. n : i \in 0 .. n /\ i # 0
      BY <1>1
  <2>2. \A i \in 0 .. n : walk[i] = IF i = 0 THEN m ELSE OneCharacter(walk[i - 1], piece[i])
      BY <1>2, <1>3 DEF Steps
  <2> QED BY <2>1, <2>2
<1>6. 0 \in T
  <2>1. p + 0 + 1 = p + 1
      BY <1>1
  <2> QED BY <1>5, <2>1
<1>7. ASSUME NEW i \in 1 .. n, i - 1 \in T PROVE i \in T
  <2> DEFINE j == p + i
             w == SubSeq(s, j, Len(s))
             v == walk[i - 1]
  <2>1. /\ j \in 1 .. Len(s) /\ Len(s) \in j .. Len(s) /\ p + (i - 1) + 1 = j
        /\ p + i + 1 = j + 1 /\ i \in Nat
      BY <1>1
  <2>2. Coming(r, b, v, w)
      BY <1>7, <2>1
  <2>3. Head(w) = s[j] /\ Tail(w) = SubSeq(s, j + 1, Len(s))
      BY <1>1, <2>1, HeadTailOfSubSeq
  <2>4. w \in Text /\ w # <<>>
    <3> DEFINE k == j - 1
    <3>1. k \in Nat /\ k <= Len(s) /\ k + 1 = j
        BY <1>1, <2>1
    <3> HIDE DEF k
    <3>2. SubSeq(s, k + 1, Len(s)) \in Seq(Char) /\ Len(SubSeq(s, k + 1, Len(s))) = Len(s) - k
        BY <1>1, <3>1, PieceIs
    <3>3. w \in Seq(Char) /\ Len(w) = Len(s) - k
        BY <3>1, <3>2
    <3> HIDE DEF w
    <3>4. Len(w) # 0
        BY <1>1, <2>1, <3>1, <3>3
    <3> QED BY <3>3, <3>4, EmptyText DEF Text
  <2>5. piece[i] = s[j] /\ walk[i] = OneCharacter(v, piece[i])
      BY <1>2, <1>5
  <2> HIDE DEF v, w
  <2>6. Coming(r, b, OneCharacter(v, Head(w)), Tail(w))
      BY <2>2, <2>4, Step
  <2>7. Coming(r, b, walk[i], SubSeq(s, j + 1, Len(s)))
      BY <2>3, <2>5, <2>6
  <2>8. R(i) = SubSeq(s, j + 1, Len(s))
      BY <2>1
  <2> HIDE DEF R
  <2> QED BY <2>1, <2>7, <2>8
<1> HIDE DEF T
<1>8. 0 .. n \subseteq T
    BY <1>1, <1>6, <1>7, FromZero
<1>9. n \in T
    BY <1>1, <1>8
<1> QED BY <1>2, <1>4, <1>9 DEF T, piece

-----------------------------------------------------------------------------
(* The end of a piece.                                                     *)

\* A message that is posted, with s the rest of the stream behind the piece.
Posts(r, b, m, s) ==
    /\ AskedAll(r, m) /\ m.lines = r.lines /\ m.content \in Text
    /\ IF r.body = <<>> THEN m.content = <<>> /\ Len(s) <= Len(b)
                        ELSE m.content # <<>> /\ m.content \o s = b

\* What a piece leaves: a message to go on with or one to post.
Leaves(r, b, m, s) ==
    \/ m.result = 0 /\ Waiting(r, b, m, s)
    \/ m.result = 1 /\ Posts(r, b, m, s)

LEMMA AllLines ==
    ASSUME NEW r \in Requests, NEW m \in Message, Header(r, m, Len(r.lines))
    PROVE  m.lines = r.lines
<1> DEFINE R == Text
<1>1. m.lines \in Seq(R) /\ r.lines \in Seq(R)
    BY RequestParts DEF Message
<1>2. Len(m.lines) = Len(r.lines) /\ \A i \in 1 .. Len(m.lines) : m.lines[i] = r.lines[i]
    BY DEF Header
<1> HIDE DEF R
<1> QED BY <1>1, <1>2, SeqEqual

LEMMA EndBefore ==
    ASSUME NEW r \in Requests, NEW b \in Text, NEW m \in Message, NEW s \in Text,
           m.result = 0, BeforeContent(r, b, m, s),
           NEW q, q = [m EXCEPT !.skip = FALSE]
    PROVE  Waiting(r, b, q, s)
<1>1. /\ q \in Message /\ ~q.skip /\ q.state = m.state /\ q.method = m.method
      /\ q.path = m.path /\ q.query = m.query /\ q.version = m.version /\ q.lines = m.lines
      /\ q.contentLength = m.contentLength /\ q.result = 0 /\ q.content = m.content
    BY DEF Message
<1>2. m.content = <<>>
    BY DEF BeforeContent
<1>3. CASE AtSlash(r, b, m, s)
  <2> DEFINE o == <<"/">>
             u == r.path
             v == FromQuery(r, b)
             path == o \o u
  <2>1. u \in Text /\ v \in Text /\ "/" \in Char
      BY QueryType, RequestParts, Characters
  <2>2. o \in Text
      BY <2>1 DEF Text
  <2>3. s = o \o (u \o v)
      BY <1>3 DEF AtSlash, FromPath
  <2> HIDE DEF o, u, v
  <2>a. path \in Text
      BY <2>1, <2>2, JoinText
  <2>b. path \o v = o \o (u \o v)
      BY <2>1, <2>2, Associative
  <2>4. path \in Text /\ s = path \o v
      BY <2>3, <2>a, <2>b
  <2> HIDE DEF path
  <2>5. Within(<<>>, path, s, v)
      BY <2>1, <2>4, WithinBegins
  <2>6. path \in Paths(r)
      BY DEF Paths, path, o, u
  <2>7. NoVersion(r, q)
      BY <1>1, <1>3 DEF AtSlash, NoVersion, Header
  <2>8. AtPath(r, b, q, s)
      BY <1>1, <1>3, <2>5, <2>6, <2>7 DEF AtSlash, AtPath, v
  <2> QED BY <1>1, <1>2, <2>8, ToBefore DEF Waiting
<1>4. CASE ~AtSlash(r, b, m, s)
  <2>1. ~m.skip
      BY <1>4 DEF BeforeContent, AtMethod, AtPath, AtQuery, AtVersion, AtCRLF,
                  AtLineBegin, AtLine, AtDoubleCRLF
  <2>2. q = m
      BY <2>1 DEF Message
  <2> QED BY <1>1, <1>2, <2>2 DEF Waiting, Coming
<1> QED BY <1>3, <1>4

LEMMA PieceEnd ==
    ASSUME NEW r \in Requests, NEW b \in Text, NEW m, NEW s \in Text, Coming(r, b, m, s),
           NEW q, q = [m EXCEPT !.skip = FALSE,
                                !.result = IF m.result = 0 /\ m.content # <<>> THEN 1 ELSE @]
    PROVE  Leaves(r, b, q, s)
<1>1. m \in Message
    BY DEF Coming
<1>2. CASE m.result = 0 /\ BeforeContent(r, b, m, s)
  <2>1. m.content = <<>>
      BY <1>2 DEF BeforeContent
  <2>2. q = [m EXCEPT !.skip = FALSE]
      BY <1>1, <1>2, <2>1 DEF Message
  <2>3. Waiting(r, b, q, s)
      BY <1>1, <1>2, <2>2, EndBefore
  <2> QED BY <2>3 DEF Leaves, Waiting
<1>3. CASE m.result = 0 /\ AtContent(r, b, m, s) /\ m.content = <<>>
  <2>1. q = m
      BY <1>1, <1>3 DEF Message, AtContent
  <2> QED BY <1>3, <2>1 DEF Leaves, Waiting, AtContent
<1>4. CASE m.result = 0 /\ AtContent(r, b, m, s) /\ m.content # <<>>
  <2>1. /\ q.result = 1 /\ q.method = m.method /\ q.path = m.path /\ q.query = m.query
        /\ q.version = m.version /\ q.lines = m.lines /\ q.content = m.content
      BY <1>1, <1>4 DEF Message
  <2>2. m.lines = r.lines
      BY <1>1, <1>4, AllLines DEF AtContent
  <2>3. AskedAll(r, q)
      BY <1>4, <2>1 DEF AtContent, AskedAll, Asked
  <2>4. q.content \in Text
      BY <1>1, <2>1 DEF Message
  <2> QED BY <1>4, <2>1, <2>2, <2>3, <2>4 DEF Leaves, Posts, AtContent
<1>5. CASE m.result = 1 /\ DoneBare(r, b, m, s)
  <2>1. q = m
      BY <1>1, <1>5 DEF Message, DoneBare
  <2>2. m.lines = r.lines
      BY <1>1, <1>5, AllLines DEF DoneBare
  <2> QED BY <1>5, <2>1, <2>2, EmptyText DEF Leaves, Posts, DoneBare
<1> QED BY <1>2, <1>3, <1>4, <1>5 DEF Coming

\* What a piece of the stream leaves of a message that began with request r.
LEMMA ParseLeaves ==
    ASSUME NEW r \in Requests, NEW b \in Text, NEW s \in Text, NEW p \in 0 .. Len(s),
           NEW n \in 0 .. Len(s) - p, NEW m, Coming(r, b, m, SubSeq(s, p + 1, Len(s)))
    PROVE  Leaves(r, b, MessageParse(m, SubSeq(s, p + 1, p + n)), SubSeq(s, p + n + 1, Len(s)))
<1> DEFINE a == AfterPiece(m, SubSeq(s, p + 1, p + n))
           t == SubSeq(s, p + n + 1, Len(s))
<1>1. Coming(r, b, a, t)
    BY AfterPieceIs
<1>2. t \in Text
  <2>1. p + n \in Nat /\ p + n <= Len(s) /\ s \in Seq(Char) /\ Len(s) \in Nat
      BY DEF Text
  <2> QED BY <2>1, PieceIs DEF Text
<1> HIDE DEF t, a
<1>3. MessageParse(m, SubSeq(s, p + 1, p + n))
      = [a EXCEPT !.skip = FALSE,
                  !.result = IF a.result = 0 /\ a.content # <<>> THEN 1 ELSE @]
    BY DEF MessageParse, a
<1> DEFINE q == MessageParse(m, SubSeq(s, p + 1, p + n))
<1> HIDE DEF q
<1>4. q = [a EXCEPT !.skip = FALSE,
                    !.result = IF a.result = 0 /\ a.content # <<>> THEN 1 ELSE @]
    BY <1>3 DEF q
<1>5. Leaves(r, b, q, t)
    BY <1>1, <1>2, <1>4, PieceEnd
<1> QED BY <1>5 DEF q, t

-----------------------------------------------------------------------------
(* Where a message can wait.                                               *)

\* Before the content all of the body is to come, and more.
LEMMA BeforeLength ==
    ASSUME NEW r \in Requests, NEW b \in Text, NEW m \in Message, NEW s \in Text,
           BeforeContent(r, b, m, s)
    PROVE  Len(s) > Len(b)
<1> DEFINE p == FromPath(r, b)
           lp == <<"/">> \o p
           slp == <<SP>> \o lp
           v == FromVersion(r, b)
           sv == <<SP>> \o v
           q == FromQuery(r, b)
           h(j) == HeaderFrom(r.lines, j, b)
           L == Len(r.lines)
<1>1. Len(b) \in Nat /\ Len(s) \in Nat /\ L \in Nat
    BY RequestParts DEF Text
<1>2. /\ r.method \in Text /\ r.query \in Text /\ r.lines \in Seq(Text)
      /\ "/" \in Char /\ SP \in Char
    BY RequestParts, Characters
<1>3. /\ p \in Text /\ v \in Text /\ q \in Text
      /\ Len(p) > Len(b) /\ Len(v) > Len(b) /\ Len(q) > Len(b)
      /\ Len(p) \in Nat /\ Len(v) \in Nat /\ Len(q) \in Nat
    BY QueryType DEF Text
<1>4. \A j \in 0 .. L : /\ h(j) \in Text /\ Len(h(j)) > Len(b)
                        /\ Ended(h(j)) \in Text /\ Len(Ended(h(j))) > Len(b)
                        /\ Len(<<LF>> \o h(j)) > Len(b)
  <2> SUFFICES ASSUME NEW j \in 0 .. L
               PROVE  /\ h(j) \in Text /\ Len(h(j)) > Len(b)
                      /\ Ended(h(j)) \in Text /\ Len(Ended(h(j))) > Len(b)
                      /\ Len(<<LF>> \o h(j)) > Len(b)
      OBVIOUS
  <2> DEFINE g == h(j)
  <2>1. g \in Text /\ Len(g) >= Len(b) + 2
      BY <1>2, HeaderType
  <2> HIDE DEF g
  <2>2. /\ Ended(g) \in Text /\ Len(Ended(g)) = Len(g) + 2 /\ Len(<<LF>> \o g) = Len(g) + 1
        /\ Len(g) \in Nat
      BY <2>1, Separator DEF Text
  <2>3. Len(g) > Len(b) /\ Len(Ended(g)) > Len(b) /\ Len(<<LF>> \o g) > Len(b)
      BY <1>1, <2>1, <2>2
  <2> QED BY <2>1, <2>2, <2>3 DEF g
<1> HIDE DEF p, v, q
<1>5. lp \in Text /\ Len(lp) = Len(p) + 1
    BY <1>2, <1>3, OneBefore
<1>6. sv \in Text /\ Len(sv) = Len(v) + 1
    BY <1>2, <1>3, OneBefore
<1> HIDE DEF lp
<1>7. slp \in Text /\ Len(slp) = Len(lp) + 1
    BY <1>2, <1>5, OneBefore
<1> HIDE DEF slp, sv, h
<1>8. Len(lp) > Len(b) /\ Len(slp) > Len(b) /\ Len(sv) > Len(b)
    BY <1>1, <1>3, <1>5, <1>6, <1>7
<1>9. ASSUME NEW done, NEW whole \in Text, NEW after \in Text, Within(done, whole, s, after),
             Len(after) > Len(b)
      PROVE  Len(s) > Len(b)
  <2>1. Len(s) >= Len(after) /\ Len(after) \in Nat
      BY <1>9, WithinLength DEF Text
  <2> QED BY <1>1, <1>9, <2>1
<1>10. CASE AtMethod(r, b, m, s)
  <2>1. Within(m.method, r.method, s, slp)
      BY <1>10 DEF AtMethod, slp, lp, p
  <2> QED BY <1>2, <1>7, <1>8, <1>9, <2>1
<1>11. CASE AtSlash(r, b, m, s)
    BY <1>8, <1>11 DEF AtSlash, lp, p
<1>12. CASE AtPath(r, b, m, s)
  <2>1. PICK path \in Paths(r) : Within(m.path, path, s, q)
      BY <1>12 DEF AtPath, q
  <2>2. path \in Text
      BY PathsText
  <2> QED BY <1>3, <1>9, <2>1, <2>2
<1>13. CASE AtQuery(r, b, m, s)
  <2>1. Within(m.query, r.query, s, sv)
      BY <1>13 DEF AtQuery, sv, v
  <2> QED BY <1>2, <1>6, <1>8, <1>9, <2>1
<1>14. CASE AtVersion(r, b, m, s)
  <2>1. 0 \in 0 .. L
      BY <1>1
  <2>2. Within(m.version, Version, s, Ended(h(0)))
      BY <1>14 DEF AtVersion, h
  <2> QED BY <1>4, <1>9, <2>1, <2>2, VersionIs
<1>15. CASE AtCRLF(r, b, m, s)
  <2>1. \E j \in 0 .. L : s = <<LF>> \o h(j)
      BY <1>15 DEF AtCRLF, h
  <2> QED BY <1>4, <2>1
<1>16. CASE AtLineBegin(r, b, m, s)
  <2>1. \E j \in 0 .. L : s = h(j)
      BY <1>16 DEF AtLineBegin, h
  <2> QED BY <1>4, <2>1
<1>17. CASE AtLine(r, b, m, s)
  <2>1. PICK j \in 1 .. L : Within(m.curLine, r.lines[j], s, Ended(h(j)))
      BY <1>17 DEF AtLine, h
  <2>2. j \in 0 .. L /\ r.lines[j] \in Text
      BY RequestParts
  <2> QED BY <1>4, <1>9, <2>1, <2>2
<1>18. CASE AtDoubleCRLF(r, b, m, s)
  <2>1. s = <<LF>> \o b /\ Len(s) = Len(b) + 1
      BY <1>18, Separator DEF AtDoubleCRLF
  <2> QED BY <1>1, <2>1
<1> QED BY <1>10, <1>11, <1>12, <1>13, <1>14, <1>15, <1>16, <1>17, <1>18 DEF BeforeContent

LEMMA WaitingLength ==
    ASSUME NEW r \in Requests, NEW b \in Text, NEW m, NEW s \in Text, Waiting(r, b, m, s)
    PROVE  Len(s) > Len(b) \/ (s = b /\ r.body # <<>>)
<1>1. m \in Message /\ m.content = <<>>
    BY DEF Waiting, Coming
<1>2. CASE BeforeContent(r, b, m, s)
    BY <1>1, <1>2, BeforeLength
<1>3. CASE AtContent(r, b, m, s)
    BY <1>1, <1>3, EmptyText DEF AtContent
<1> QED BY <1>2, <1>3 DEF Waiting, Coming

\* A new message waits for a request.
LEMMA WaitsForRequest ==
    ASSUME NEW r \in Requests, NEW b \in Text
    PROVE  Waiting(r, b, NewMessage, RequestText(r, b))
<1> DEFINE m == NewMessage
           p == FromPath(r, b)
           lp == <<"/">> \o p
           after == <<SP>> \o lp
           s == r.method \o after
<1>1. p \in Text /\ r.method \in Text /\ SP \in Char /\ "/" \in Char
    BY QueryType, RequestParts, Characters
<1> HIDE DEF p
<1>2. lp \in Text
    BY <1>1, OneBefore
<1> HIDE DEF lp
<1>3. after \in Text
    BY <1>1, <1>2, OneBefore
<1> HIDE DEF after
<1>4. Within(<<>>, r.method, s, after)
    BY <1>1, <1>3, WithinBegins
<1>5. s = RequestText(r, b)
    BY DEF RequestText, after, lp, p, FromPath
<1>6. <<>> \in Text /\ <<>> \in Seq(Text)
    BY EmptyText
<1>7. /\ m \in Message /\ m.state = "Idle" /\ ~m.skip /\ m.method = <<>> /\ m.path = <<>>
      /\ m.query = <<>> /\ m.version = <<>> /\ m.lines = <<>> /\ m.contentLength = 0
      /\ m.content = <<>> /\ m.result = 0
    BY <1>6 DEF NewMessage, Message
<1> HIDE DEF m, s
<1>8. NoVersion(r, m)
    BY <1>7, LengthZero, EmptyText DEF NoVersion, Header
<1>9. AtMethod(r, b, m, s)
    BY <1>4, <1>7, <1>8 DEF AtMethod, after, lp, p
<1> QED BY <1>5, <1>7, <1>9, ToBefore DEF Waiting, m

-----------------------------------------------------------------------------
(* The steps of the server.                                                *)

LEMMA RestIs ==
    ASSUME NEW s \in Text, NEW from \in 0 .. Len(s)
    PROVE  Rest(s, from) \in Text /\ Len(Rest(s, from)) = Len(s) - from /\ Len(s) \in Nat
<1>1. s \in Seq(Char) /\ Len(s) \in Nat /\ from \in Nat /\ from <= Len(s) /\ Len(s) <= Len(s)
    BY DEF Text
<1> QED BY <1>1, PieceIs DEF Rest, Text

\* A request that stands in a text, with its places.
LEMMA StandsIs ==
    ASSUME NEW s \in Text, NEW from \in 0 .. Len(s), NEW r \in Requests, Stands(r, s, from)
    PROVE  /\ HeadOf(r) \in Nat /\ from + HeadOf(r) \in 0 .. Len(s)
           /\ Rest(s, from) = RequestText(r, Rest(s, from + HeadOf(r)))
           /\ Rest(s, from + HeadOf(r)) \in Text
           /\ Len(Rest(s, from + HeadOf(r))) = Len(s) - (from + HeadOf(r))
<1> DEFINE b == Rest(s, from + HeadOf(r))
<1>1. Standing(r, s, from, b)
    BY StandsText DEF Stands, Rest
<1> HIDE DEF b
<1>2. /\ HeadOf(r) \in Nat /\ from + HeadOf(r) + Len(b) = Len(s) /\ b \in Text
      /\ SubSeq(s, from + 1, Len(s)) = RequestText(r, b)
    BY <1>1 DEF Standing
<1>3. Len(b) \in Nat /\ Len(s) \in Nat
    BY <1>2 DEF Text
<1>4. from + HeadOf(r) \in 0 .. Len(s) /\ Len(b) = Len(s) - (from + HeadOf(r))
    BY <1>2, <1>3
<1>5. Rest(s, from) = RequestText(r, b)
    BY <1>2 DEF Rest
<1> QED BY <1>2, <1>4, <1>5 DEF b

\* The content of a message that is posted lies in the stream.
LEMMA ContentIs ==
    ASSUME NEW s \in Text, NEW at \in 0 .. Len(s), NEW to \in 0 .. Len(s), NEW a \in Text,
           a # <<>>, a \o Rest(s, to) = Rest(s, at)
    PROVE  at < to /\ a = SubSeq(s, at + 1, to)
<1> DEFINE t == Rest(s, to)
           b == Rest(s, at)
           w == SubSeq(s, at + 1, to)
           L == Len(s)
<1>1. /\ t \in Text /\ b \in Text /\ Len(t) = L - to /\ Len(b) = L - at /\ L \in Nat
      /\ a \o t = b /\ at \in Nat /\ to \in Nat /\ to <= L
    BY RestIs
<1>2. s \in Seq(Char)
    BY DEF Text
<1> HIDE DEF t, b
<1>3. Len(b) = Len(a) + Len(t) /\ Len(a) \in Nat \ {0}
    BY <1>1, JoinText, EmptySeq DEF Text
<1>4. at < to
    BY <1>1, <1>3
<1>5. w \in Seq(Char)
    BY <1>1, <1>2, <1>4, PieceIs
<1>6. w \o t = b
  <2> DEFINE i == at + 1
  <2>1. i \in 1 .. Len(s) + 1 /\ to \in i - 1 .. Len(s) /\ Len(s) \in to .. Len(s)
      BY <1>1, <1>4
  <2> HIDE DEF i
  <2>2. SubSeq(s, i, to) \o SubSeq(s, to + 1, Len(s)) = SubSeq(s, i, Len(s))
      BY <1>2, <2>1, ConcatAdjacentSubSeq
  <2> QED BY <2>2 DEF i, t, b, Rest
<1> HIDE DEF w
<1>7. a \in Seq(Char) /\ t \in Seq(Char) /\ a \o t = w \o t
    BY <1>1, <1>6 DEF Text
<1>8. a = w
    BY <1>5, <1>7, ConcatSimplifications
<1> QED BY <1>4, <1>8 DEF w

\* What the request the message began with becomes with a piece.
LEMMA PieceLeaves ==
    ASSUME NEW s \in Text, NEW from \in 0 .. Len(s), NEW p \in 0 .. Len(s),
           NEW n \in 0 .. Len(s) - p, NEW m, NEW r \in Requests, Stands(r, s, from),
           Waiting(r, Rest(s, from + HeadOf(r)), m, Rest(s, p))
    PROVE  Leaves(r, Rest(s, from + HeadOf(r)), MessageParse(m, SubSeq(s, p + 1, p + n)),
                  Rest(s, p + n))
<1> DEFINE b == Rest(s, from + HeadOf(r))
<1>1. b \in Text
    BY StandsIs
<1>2. Coming(r, b, m, SubSeq(s, p + 1, Len(s)))
    BY DEF Waiting, Rest
<1> HIDE DEF b
<1>3. Leaves(r, b, MessageParse(m, SubSeq(s, p + 1, p + n)), SubSeq(s, p + n + 1, Len(s)))
    BY <1>1, <1>2, ParseLeaves
<1> QED BY <1>3 DEF Rest, b

\* A message that is posted is exact, and all of the request that was needed
\* has come.
LEMMA PostedExact ==
    ASSUME NEW s \in Text, NEW from \in 0 .. Len(s), NEW to \in 0 .. Len(s), NEW m,
           NEW r \in Requests, Stands(r, s, from),
           Posts(r, Rest(s, from + HeadOf(r)), m, Rest(s, to)),
           NEW e, e = [message |-> m, from |-> from, to |-> to]
    PROVE  Exact(r, s, e) /\ to >= from + Needed(r)
<1> DEFINE at == from + HeadOf(r)
           b == Rest(s, at)
           t == Rest(s, to)
<1>1. at \in 0 .. Len(s) /\ HeadOf(r) \in Nat
    BY StandsIs
<1> HIDE DEF at
<1>2. Posts(r, b, m, t)
    BY DEF at
<1>3. /\ Len(b) = Len(s) - at /\ Len(t) = Len(s) - to /\ Len(s) \in Nat /\ from \in Nat
    BY <1>1, RestIs
<1>4. e.message = m /\ e.from = from /\ e.to = to
    OBVIOUS
<1>5. AskedAll(r, m) /\ m.lines = r.lines /\ m.content \in Text
    BY <1>2 DEF Posts
<1>6. CASE r.body = <<>>
  <2>1. m.content = <<>> /\ Len(t) <= Len(b)
      BY <1>2, <1>6 DEF Posts
  <2>2. to >= at
      BY <1>1, <1>3, <2>1
  <2>3. Exact(r, s, e)
      BY <1>4, <1>5, <1>6, <2>1 DEF Exact, AskedAll, Asked
  <2>4. Needed(r) = HeadOf(r)
      BY <1>1, <1>6 DEF Needed
  <2> QED BY <2>2, <2>3, <2>4 DEF at
<1>7. CASE r.body # <<>>
  <2>1. m.content # <<>> /\ m.content \o t = b
      BY <1>2, <1>7 DEF Posts
  <2>2. at < to /\ m.content = SubSeq(s, at + 1, to)
      BY <1>1, <1>5, <2>1, ContentIs
  <2>3. at = from + Len(RequestStream(r)) - Len(r.body)
    <3>1. Len(RequestStream(r)) \in Nat /\ Len(r.body) \in Nat
        BY RequestParts, TextAppend, EmptyText DEF RequestStream, Text
    <3> QED BY <1>3, <3>1 DEF at, HeadOf
  <2>6. Exact(r, s, e)
      BY <1>4, <1>5, <1>7, <2>2, <2>3 DEF Exact, AskedAll, Asked
  <2>4. Needed(r) = HeadOf(r) + 1
      BY <1>7 DEF Needed
  <2>5. to >= at + 1
      BY <1>1, <2>2
  <2> QED BY <1>1, <1>3, <2>4, <2>5, <2>6 DEF at
<1> QED BY <1>6, <1>7

\* A request that stands where a message begins is waited for.
LEMMA NewWaits ==
    ASSUME NEW s \in Text, NEW from \in 0 .. Len(s), NEW r \in Requests, Stands(r, s, from)
    PROVE  Waiting(r, Rest(s, from + HeadOf(r)), NewMessage, Rest(s, from))
BY StandsIs, WaitsForRequest

\* Nothing was posted yet, and the message is not done.
LEMMA NotNeeded ==
    ASSUME NEW s \in Text, NEW to \in 0 .. Len(s), NEW m, NEW r \in Requests, Stands(r, s, 0),
           Waiting(r, Rest(s, 0 + HeadOf(r)), m, Rest(s, to))
    PROVE  to < Needed(r)
<1> DEFINE at == 0 + HeadOf(r)
           b == Rest(s, at)
           t == Rest(s, to)
<1>1. at \in 0 .. Len(s) /\ HeadOf(r) \in Nat /\ at = HeadOf(r)
  <2>1. 0 \in 0 .. Len(s)
      BY DEF Text
  <2> QED BY <2>1, StandsIs
<1> HIDE DEF at
<1>2. /\ b \in Text /\ Len(b) = Len(s) - at /\ t \in Text /\ Len(t) = Len(s) - to
      /\ Len(s) \in Nat
    BY <1>1, RestIs
<1>3. Waiting(r, b, m, t)
    BY DEF at
<1>4. Len(t) > Len(b) \/ (t = b /\ r.body # <<>>)
    BY <1>2, <1>3, WaitingLength
<1>5. CASE Len(t) > Len(b)
  <2>1. to < at
      BY <1>1, <1>2, <1>5
  <2> QED BY <1>1, <2>1 DEF Needed
<1>6. CASE t = b /\ r.body # <<>>
  <2>1. to = at
      BY <1>1, <1>2, <1>6
  <2> QED BY <1>1, <1>6, <2>1 DEF Needed
<1> QED BY <1>4, <1>5, <1>6

\* A text, a message begun in it and how much of it has come.
Reading(s, from, p) == s \in Text /\ from \in 0 .. Len(s) /\ p \in from .. Len(s)

LEMMA PostStep ==
    ASSUME NEW s, NEW from, NEW p, Reading(s, from, p), NEW n \in 1 .. Len(s) - p,
           NEW q, NEW open, NEW handed, ServerReads(s, from, p, open, q, handed),
           AllExact(s, handed), handed \in Seq(Range(handed)),
           NEW m, m = MessageParse(q, SubSeq(s, p + 1, p + n)), m.result = 1,
           NEW e, e = [message |-> m, from |-> from, to |-> p + n],
           NEW after, after = Append(handed, e)
    PROVE  /\ ServerReads(s, p + n, p + n, "open", NewMessage, after)
           /\ AllExact(s, after) /\ after \in Seq(Range(after))
<1> DEFINE to == p + n
<1>1. /\ s \in Text /\ from \in 0 .. Len(s) /\ p \in 0 .. Len(s) /\ n \in 0 .. Len(s) - p
      /\ to \in 0 .. Len(s) /\ to >= p /\ Len(s) \in Nat
    BY DEF Reading, Text
<1>2. ASSUME NEW r \in Requests, Stands(r, s, from)
      PROVE  Exact(r, s, e) /\ to >= from + Needed(r)
  <2>1. Waiting(r, Rest(s, from + HeadOf(r)), q, Rest(s, p))
      BY <1>2 DEF ServerReads
  <2>2. Leaves(r, Rest(s, from + HeadOf(r)), m, Rest(s, to))
      BY <1>1, <1>2, <2>1, PieceLeaves
  <2>3. Posts(r, Rest(s, from + HeadOf(r)), m, Rest(s, to))
      BY <2>2 DEF Leaves
  <2> HIDE DEF to
  <2>4. e = [message |-> m, from |-> from, to |-> to]
      BY DEF to
  <2> QED BY <1>1, <1>2, <2>3, <2>4, PostedExact
<1>3. e.from = from
    OBVIOUS
<1> DEFINE S == Range(handed) \cup {e}
<1>4. handed \in Seq(S) /\ e \in S
    OBVIOUS
<1> HIDE DEF S
<1>5. /\ after \in Seq(S) /\ after # <<>> /\ Len(after) = Len(handed) + 1
      /\ after[Len(handed) + 1] = e /\ \A i \in 1 .. Len(handed) : after[i] = handed[i]
    BY <1>4, AppendProperties
<1>6. /\ DOMAIN after = 1 .. Len(after) /\ DOMAIN handed = 1 .. Len(handed)
      /\ Len(handed) \in Nat
    BY <1>4, <1>5
<1>7. AllExact(s, after)
  <2> SUFFICES ASSUME NEW i \in DOMAIN after, NEW r \in Requests, Stands(r, s, after[i].from)
               PROVE  Exact(r, s, after[i])
      BY DEF AllExact
  <2>1. CASE i = Len(handed) + 1
      BY <1>2, <1>3, <1>5, <2>1
  <2>2. CASE i # Len(handed) + 1
    <3>1. i \in DOMAIN handed /\ after[i] = handed[i]
        BY <1>5, <1>6, <2>2
    <3> QED BY <3>1 DEF AllExact
  <2> QED BY <2>1, <2>2
<1>8. after \in Seq(Range(after))
    BY <1>5, SeqOfRange
<1>9. ASSUME NEW r \in Requests, Stands(r, s, to)
      PROVE  Waiting(r, Rest(s, to + HeadOf(r)), NewMessage, Rest(s, to))
    BY <1>1, <1>9, NewWaits
<1>10. ASSUME NEW r \in Requests, Stands(r, s, 0) PROVE to >= Needed(r)
  <2>0. HeadOf(r) \in Nat
    <3>1. 0 \in 0 .. Len(s)
        BY <1>1
    <3> QED BY <1>1, <1>10, <3>1, StandsIs
  <2>00. Needed(r) \in Nat
      BY <2>0 DEF Needed
  <2>1. CASE handed = <<>>
    <3>1. from = 0
        BY <2>1 DEF ServerReads
    <3>2. to >= 0 + Needed(r)
        BY <1>2, <1>10, <3>1
    <3> QED BY <2>00, <3>2
  <2>2. CASE handed # <<>>
    <3>1. p >= Needed(r)
        BY <1>10, <2>2 DEF ServerReads
    <3> QED BY <1>1, <2>00, <3>1
  <2> QED BY <2>1, <2>2
<1> HIDE DEF to
<1>11. ServerReads(s, to, to, "open", NewMessage, after)
    BY <1>5, <1>9, <1>10 DEF ServerReads
<1> QED BY <1>7, <1>8, <1>11 DEF to

LEMMA GoOnStep ==
    ASSUME NEW s, NEW from, NEW p, Reading(s, from, p), NEW n \in 1 .. Len(s) - p,
           NEW q, NEW open, NEW handed, ServerReads(s, from, p, open, q, handed),
           NEW m, m = MessageParse(q, SubSeq(s, p + 1, p + n)),
           NEW now, NEW kept,
           \/ m.result = 0 /\ kept = m /\ now = "open"
           \/ m.result = -1 /\ kept = q /\ now = "closed"
    PROVE  ServerReads(s, from, p + n, now, kept, handed)
<1> DEFINE to == p + n
<1>1. /\ s \in Text /\ from \in 0 .. Len(s) /\ p \in 0 .. Len(s) /\ n \in 0 .. Len(s) - p
      /\ to \in 0 .. Len(s) /\ to >= p /\ Len(s) \in Nat
    BY DEF Reading, Text
<1>2. ASSUME NEW r \in Requests, Stands(r, s, from)
      PROVE  /\ Waiting(r, Rest(s, from + HeadOf(r)), kept, Rest(s, to))
             /\ now = "open"
  <2>1. Waiting(r, Rest(s, from + HeadOf(r)), q, Rest(s, p))
      BY <1>2 DEF ServerReads
  <2>2. Leaves(r, Rest(s, from + HeadOf(r)), m, Rest(s, to))
      BY <1>1, <1>2, <2>1, PieceLeaves
  <2> QED BY <2>2 DEF Leaves
<1>3. handed = <<>> => from = 0
    BY DEF ServerReads
<1>4. ASSUME NEW r \in Requests, Stands(r, s, 0), handed # <<>> PROVE to >= Needed(r)
  <2>1. p >= Needed(r)
      BY <1>4 DEF ServerReads
  <2>2. HeadOf(r) \in Nat
    <3>1. 0 \in 0 .. Len(s)
        BY <1>1
    <3> QED BY <1>1, <1>4, <3>1, StandsIs
  <2>3. Needed(r) \in Nat
      BY <2>2 DEF Needed
  <2> QED BY <1>1, <2>1, <2>3
<1>5. ASSUME NEW r \in Requests, Stands(r, s, 0), handed = <<>> PROVE now = "open"
    BY <1>2, <1>3, <1>5
<1> HIDE DEF to
<1>6. ServerReads(s, from, to, now, kept, handed)
    BY <1>2, <1>3, <1>4, <1>5 DEF ServerReads
<1> QED BY <1>6 DEF to

-----------------------------------------------------------------------------
(* The first line of a response.                                           *)

LEMMA WithoutJoin ==
    ASSUME NEW a \in Text, NEW b \in Text, NEW chars, Without(a, chars), Without(b, chars)
    PROVE  Without(a \o b, chars)
<1> DEFINE w == a \o b
<1>1. a \in Seq(Char) /\ b \in Seq(Char) /\ Len(a) \in Nat
    BY DEF Text
<1>2. w \in Seq(Char) /\ Joined(w, a, b)
    BY <1>1, JoinIs
<1> HIDE DEF w
<1>3. Len(w) = Len(a) + Len(b) /\ Len(b) \in Nat
    BY <1>2 DEF Joined
<1>4. ASSUME NEW i \in DOMAIN w PROVE w[i] \notin chars
  <2>1. i \in 1 .. Len(a) + Len(b)
      BY <1>2, <1>3
  <2>2. CASE i <= Len(a)
    <3>1. i \in 1 .. Len(a)
        BY <1>1, <2>1, <2>2
    <3>2. w[i] = a[i]
        BY <1>2, <3>1 DEF Joined
    <3> QED BY <3>1, <3>2, NotIn
  <2>3. CASE ~(i <= Len(a))
    <3> DEFINE j == i - Len(a)
    <3>1. j \in 1 .. Len(b) /\ Len(a) + j = i
        BY <1>1, <1>3, <2>1, <2>3
    <3> HIDE DEF j
    <3>2. w[i] = b[j]
        BY <1>2, <3>1 DEF Joined
    <3> QED BY <3>1, <3>2, NotIn
  <2> QED BY <2>2, <2>3
<1>5. Without(w, chars)
    BY <1>4 DEF Without
<1> QED BY <1>5 DEF w

LEMMA WithoutOne ==
    ASSUME NEW c \in Char, NEW t \in Text, NEW chars, c \notin chars, Without(t, chars)
    PROVE  <<c>> \o t \in Text /\ Without(<<c>> \o t, chars)
<1> DEFINE o == <<c>>
<1>1. o \in Text /\ o \in Seq(Char) /\ Len(o) = 1 /\ o[1] = c /\ DOMAIN o = 1 .. 1
    BY DEF Text
<1>2. Without(o, chars)
    BY <1>1 DEF Without
<1> HIDE DEF o
<1>3. Without(o \o t, chars) /\ o \o t \in Text
    BY <1>1, <1>2, WithoutJoin, JoinText
<1> QED BY <1>3 DEF o

\* Where the first space is.
SpacesIn(line) == {i \in DOMAIN line : line[i] = SP}
CutPlace(line) == IF SpacesIn(line) = {} THEN Len(line) + 1 ELSE Min(SpacesIn(line))

LEMMA CutAtPlace ==
    \A line : cut(line) = [result |-> SubSeq(line, 1, CutPlace(line) - 1),
                           left |-> SubSeq(line, CutPlace(line) + 1, Len(line))]
BY DEF cut, CutPlace, SpacesIn

LEMMA CutAt ==
    ASSUME NEW v \in Text, Without(v, {SP}), NEW t \in Text
    PROVE  cut(v \o (<<SP>> \o t)).result = v /\ cut(v \o (<<SP>> \o t)).left = t
<1> DEFINE u == <<SP>> \o t
           line == v \o u
           n == Len(v) + 1
           T == SpacesIn(line)
<1>1. SP \in Char
    BY Characters
<1>2. u \in Text /\ Head(u) = SP /\ Tail(u) = t /\ Len(u) = Len(t) + 1 /\ u # <<>>
    BY <1>1, OneBefore
<1>3. u[1] = SP /\ \A i \in 1 .. Len(t) : t[i] = u[i + 1]
  <2>1. u \in Seq(Char)
      BY <1>2 DEF Text
  <2> HIDE DEF u
  <2>2. \A i \in 1 .. Len(Tail(u)) : Tail(u)[i] = u[i + 1]
      BY <1>2, <2>1, HeadTailProperties
  <2>3. Head(u) = u[1]
      BY <1>2, <2>1
  <2> QED BY <1>2, <2>2, <2>3
<1> HIDE DEF u
<1>4. v \in Seq(Char) /\ u \in Seq(Char) /\ Len(v) \in Nat /\ Len(t) \in Nat /\ t \in Seq(Char)
    BY <1>2 DEF Text
<1>5. line \in Seq(Char) /\ Joined(line, v, u)
    BY <1>4, JoinIs
<1> HIDE DEF line
<1>6. /\ Len(line) = Len(v) + Len(t) + 1 /\ DOMAIN line = 1 .. Len(line)
      /\ line[n] = SP /\ \A i \in 1 .. Len(v) : line[i] = v[i]
  <2>1. Len(line) = Len(v) + Len(u)
      BY <1>5 DEF Joined
  <2>2. 1 \in 1 .. Len(u)
      BY <1>2, <1>4
  <2>3. line[Len(v) + 1] = u[1]
      BY <1>5, <2>2 DEF Joined
  <2>4. \A i \in 1 .. Len(v) : line[i] = v[i]
      BY <1>5 DEF Joined
  <2>5. Len(line) = Len(v) + Len(t) + 1
      BY <1>2, <1>4, <2>1
  <2>6. DOMAIN line = 1 .. Len(line)
      BY <1>5
  <2> QED BY <1>3, <2>3, <2>4, <2>5, <2>6
<1>7. n \in T
  <2>1. n \in 1 .. Len(line)
      BY <1>4, <1>6
  <2> QED BY <1>6, <2>1 DEF SpacesIn
<1>8. ASSUME NEW i \in T PROVE i \in Nat /\ n <= i
  <2>1. i \in 1 .. Len(line) /\ line[i] = SP
      BY <1>6 DEF SpacesIn
  <2>2. ASSUME i \in 1 .. Len(v) PROVE FALSE
    <3>1. line[i] = v[i]
        BY <1>6, <2>2
    <3>2. v[i] \notin {SP}
        BY <2>2, NotIn
    <3> QED BY <2>1, <3>1, <3>2
  <2> QED BY <1>4, <1>6, <2>1, <2>2
<1> HIDE DEF T
<1>9. T \in SUBSET Nat /\ T # {}
    BY <1>7, <1>8
<1>10. Min(T) \in T /\ Min(T) <= n
    BY <1>7, <1>9, SmallestIs
<1>11. Min(T) = n
    BY <1>4, <1>8, <1>10
<1>12. CutPlace(line) = n
    BY <1>9, <1>11 DEF CutPlace, T
<1>13. cut(line).result = SubSeq(line, 1, n - 1) /\ cut(line).left = SubSeq(line, n + 1, Len(line))
    BY <1>12, CutAtPlace
<1>14. SubSeq(line, 1, n - 1) = v
  <2>1. SubSeq(v \o u, 0 + 1, Len(v)) = SubSeq(v, 0 + 1, Len(v))
    <3>1. 0 \in Nat /\ 0 <= Len(v) /\ Len(v) <= Len(v)
        BY <1>4
    <3> QED BY <1>4, <3>1, BeginIs
  <2>2. SubSeq(v, 1, Len(v)) = v
      BY <1>4, SubSeqFull
  <2>3. n - 1 = Len(v) /\ 0 + 1 = 1
      BY <1>4
  <2> QED BY <2>1, <2>2, <2>3 DEF line
<1>15. SubSeq(line, n + 1, Len(line)) = t
  <2> DEFINE w == SubSeq(line, n + 1, Len(line))
  <2>1. n \in Nat /\ n <= Len(line) /\ Len(line) \in Nat /\ Len(line) - n = Len(t)
      BY <1>4, <1>6
  <2>2. w \in Seq(Char) /\ Len(w) = Len(t) /\ \A i \in 1 .. Len(t) : w[i] = line[n + i]
      BY <1>5, <2>1, PieceIs
  <2> HIDE DEF w
  <2>3. ASSUME NEW i \in 1 .. Len(t) PROVE w[i] = t[i]
    <3> DEFINE j == i + 1
    <3>1. j \in 1 .. Len(u) /\ Len(v) + j = n + i
        BY <1>2, <1>4
    <3>2. t[i] = u[j]
        BY <1>3
    <3> HIDE DEF j, n
    <3>3. line[n + i] = u[j]
        BY <1>5, <3>1 DEF Joined
    <3> QED BY <2>2, <3>2, <3>3
  <2>4. w = t
      BY <1>4, <2>2, <2>3, SeqEqual
  <2> QED BY <2>4 DEF w
<1> QED BY <1>13, <1>14, <1>15 DEF line, u

LEMMA CutNone ==
    ASSUME NEW v \in Text, Without(v, {SP})
    PROVE  cut(v).result = v
<1>1. SpacesIn(v) = {}
    BY DEF SpacesIn, Without
<1>2. CutPlace(v) = Len(v) + 1 /\ Len(v) \in Nat
    BY <1>1 DEF CutPlace, Text
<1>3. cut(v).result = SubSeq(v, 1, CutPlace(v) - 1)
    BY CutAtPlace
<1>4. CutPlace(v) - 1 = Len(v)
    BY <1>2
<1>5. SubSeq(v, 1, Len(v)) = v
    BY SubSeqFull DEF Text
<1> QED BY <1>3, <1>4, <1>5

LEMMA StatusIs ==
    ASSUME NEW r \in Responses
    PROVE  /\ StatusLine(r) \in Text /\ StatusLine(r) # <<>> /\ Without(StatusLine(r), {CR})
           /\ cut(StatusLine(r)).result = Version
           /\ cut(cut(StatusLine(r)).left).result = r.code
<1> DEFINE sr == <<SP>> \o r.reason
           k == IF r.reason = <<>> THEN <<>> ELSE sr
           u == r.code \o k
           su == <<SP>> \o u
           w == Version \o su
<1>1. /\ r.code \in Text /\ r.reason \in Text /\ Without(r.code, {SP, CR})
      /\ Without(r.reason, {CR}) /\ SP \in Char /\ SP \notin {CR}
      /\ Version \in Text /\ Version # <<>> /\ Without(Version, {SP, CR})
    BY ResponseParts, VersionIs, Characters DEF SP, CR
<1>2. /\ Without(r.code, {SP}) /\ Without(r.code, {CR})
      /\ Without(Version, {SP}) /\ Without(Version, {CR})
    BY <1>1 DEF Without
<1>3. sr \in Text /\ Without(sr, {CR})
    BY <1>1, WithoutOne
<1>4. <<>> \in Text /\ Without(<<>>, {CR})
    BY EmptyText DEF Without
<1>5. cut(u).result = r.code
  <2>1. CASE r.reason = <<>>
    <3>1. u = r.code
        BY <1>1, <2>1, EmptyText
    <3> QED BY <1>1, <1>2, <3>1, CutNone
  <2>2. CASE r.reason # <<>>
    <3>1. u = r.code \o (<<SP>> \o r.reason)
        BY <2>2
    <3> QED BY <1>1, <1>2, <3>1, CutAt
  <2> QED BY <2>1, <2>2
<1> HIDE DEF sr
<1>6. k \in Text /\ Without(k, {CR})
    BY <1>3, <1>4
<1> HIDE DEF k
<1>7. u \in Text /\ Without(u, {CR})
    BY <1>1, <1>2, <1>6, WithoutJoin, JoinText
<1> HIDE DEF u
<1>8. cut(w).result = Version /\ cut(w).left = u
    BY <1>1, <1>2, <1>7, CutAt
<1>9. su \in Text /\ Without(su, {CR}) /\ su # <<>>
    BY <1>1, <1>7, WithoutOne, OneBefore
<1> HIDE DEF su
<1>10. w \in Text /\ Without(w, {CR})
    BY <1>1, <1>2, <1>9, WithoutJoin, JoinText
<1>11. w # <<>>
  <2>1. Len(w) = Len(Version) + Len(su) /\ Len(Version) \in Nat \ {0} /\ Len(su) \in Nat
    <3>1. Len(Version) \in Nat \ {0}
        BY <1>1, EmptySeq DEF Text
    <3> QED BY <1>1, <1>9, <3>1, JoinText
  <2> HIDE DEF w
  <2> QED BY <2>1, EmptyText
<1>12. StatusLine(r) = w
    BY DEF StatusLine, w, su, u, k, sr
<1> QED BY <1>5, <1>8, <1>10, <1>11, <1>12

-----------------------------------------------------------------------------
(* The steps of the client's parser.                                       *)

LEMMA ToBeforeBody ==
    ASSUME NEW r, NEW q \in Response, NEW t, q.result = 0, q.content = <<>>,
           \/ AtStatus(r, q, t) \/ AtStatusEnd(r, q, t) \/ AtField(r, q, t)
           \/ AtFieldEnd(r, q, t) \/ AtLast(r, q, t) \/ AtCrlf2(r, q, t)
    PROVE  Answering(r, q, t)
BY DEF Answering, BeforeBody

LEMMA StepStatus ==
    ASSUME NEW r \in Responses, NEW q \in Response, NEW s \in Text, s # <<>>,
           q.result = 0, q.content = <<>>, AtStatus(r, q, s)
    PROVE  Answering(r, OneOfResponse(q, Head(s)), Tail(s))
<1> DEFINE c == Head(s)
           t == Tail(s)
           p == OneOfResponse(q, c)
           h == HeaderFrom(r.lines, 0, r.body)
           lh == <<LF>> \o h
           after == <<CR>> \o lh
           line == StatusLine(r)
<1>1. q.state = "GetHeaderLine" /\ NoStatus(q) /\ Within(q.line, line, s, after)
    BY DEF AtStatus, Ended
<1>2. c \in Char /\ t \in Text
    BY NextCharacter
<1>a. CR \in Char /\ LF \in Char
    BY Characters
<1>b. 0 \in 0 .. Len(r.lines) /\ r.lines \in Seq(Text) /\ r.body \in Text
    BY ResponseParts
<1>c. line \in Text /\ line # <<>> /\ Without(line, {CR})
    BY StatusIs
<1>3. /\ CR \in Char /\ LF \in Char /\ 0 \in 0 .. Len(r.lines) /\ r.lines \in Seq(Text)
      /\ r.body \in Text /\ line \in Text /\ line # <<>> /\ Without(line, {CR})
    BY <1>a, <1>b, <1>c
<1>4. h \in Text
    BY <1>3, HeaderType
<1> HIDE DEF h, line
<1>5. lh \in Text
    BY <1>3, <1>4, OneBefore
<1> HIDE DEF lh
<1>6. after \in Text /\ Head(after) = CR /\ Tail(after) = lh
    BY <1>3, <1>5, OneBefore
<1> HIDE DEF after
<1>7. WithinNext(q.line, line, s, after)
    BY <1>1, <1>3, <1>6, WithinStep
<1> HIDE DEF c, t
<1>8. CASE q.line = line /\ s = after
  <2>1. c = CR /\ t = lh
      BY <1>6, <1>8 DEF c, t
  <2>2. p = [q EXCEPT !.state = "GetCrlf"]
      BY <1>1, <1>3, <1>8, <2>1 DEF OneOfResponse
  <2> HIDE DEF p
  <2>3. /\ p \in Response /\ p.state = "GetCrlf" /\ p.line = q.line /\ p.version = q.version
        /\ p.contentLength = q.contentLength /\ p.result = 0 /\ p.content = <<>>
      BY <2>2 DEF Response
  <2>4. AtStatusEnd(r, p, t)
      BY <1>1, <1>8, <2>1, <2>3 DEF AtStatusEnd, NoStatus, line, lh, h
  <2> QED BY <2>3, <2>4, ToBeforeBody DEF p, c, t
<1>9. CASE /\ \E i \in 1 .. Len(line) : c = line[i]
           /\ Within(Append(q.line, c), line, t, after)
  <2>1. c # CR
    <3>1. c \notin {CR}
        BY <1>3, <1>9, NotIn
    <3> QED BY <3>1
  <2>2. p = [q EXCEPT !.line = Append(@, c)]
      BY <1>1, <2>1 DEF OneOfResponse
  <2>3. Append(q.line, c) \in Text
      BY <1>2, AppendText DEF Response
  <2> HIDE DEF p
  <2>4. /\ p \in Response /\ p.state = "GetHeaderLine" /\ p.line = Append(q.line, c)
        /\ p.version = q.version /\ p.contentLength = q.contentLength /\ p.result = 0
        /\ p.content = <<>>
      BY <1>1, <2>2, <2>3 DEF Response
  <2>5. AtStatus(r, p, t)
      BY <1>1, <1>9, <2>4 DEF AtStatus, NoStatus, Ended, after, lh, h, line
  <2> QED BY <2>4, <2>5, ToBeforeBody DEF p, c, t
<1> QED BY <1>7, <1>8, <1>9 DEF WithinNext, c, t

\* A line is over: the next one is expected, or the end of the header.
LEMMA LineOver ==
    ASSUME NEW r \in Responses, NEW q \in Response, q.state = "GetHeaderLine", Status(r, q),
           q.line = <<>>, q.result = 0, q.content = <<>>, NEW j \in 0 .. Len(r.lines),
           q.contentLength = LengthTo(r.lines, j, -1)
    PROVE  Answering(r, q, HeaderFrom(r.lines, j, r.body))
<1> DEFINE L == Len(r.lines)
<1>1. r.lines \in Seq(Text) /\ r.body \in Text /\ L \in Nat
    BY ResponseParts
<1>2. CASE j = L
  <2>1. HeaderFrom(r.lines, j, r.body) = Ended(r.body)
      BY <1>1, <1>2, HeaderLast
  <2> QED BY <1>2, <2>1, ToBeforeBody DEF AtLast
<1>3. CASE j # L
  <2> DEFINE i == j + 1
             h == HeaderFrom(r.lines, i, r.body)
             after == Ended(h)
             line == r.lines[i]
  <2>1. i \in 1 .. L /\ i - 1 = j /\ i \in 0 .. L
      BY <1>1, <1>3
  <2> HIDE DEF i
  <2>2. h \in Text /\ line \in Text
      BY <1>1, <2>1, HeaderType, ResponseParts
  <2>3. HeaderFrom(r.lines, j, r.body) = line \o after
      BY <1>1, <2>1, HeaderNext
  <2>4. after \in Text
      BY <2>2, Separator
  <2> HIDE DEF h, after, line
  <2>5. Within(<<>>, line, line \o after, after)
      BY <2>2, <2>4, WithinBegins
  <2>6. AtField(r, q, line \o after)
      BY <2>1, <2>5 DEF AtField, after, h, line
  <2> QED BY <2>3, <2>6, ToBeforeBody
<1> QED BY <1>2, <1>3

LEMMA StepStatusEnd ==
    ASSUME NEW r \in Responses, NEW q \in Response, NEW s \in Text, s # <<>>,
           q.result = 0, q.content = <<>>, AtStatusEnd(r, q, s)
    PROVE  Answering(r, OneOfResponse(q, Head(s)), Tail(s))
<1> DEFINE c == Head(s)
           t == Tail(s)
           p == OneOfResponse(q, c)
           h == HeaderFrom(r.lines, 0, r.body)
<1>1. q.state = "GetCrlf" /\ NoStatus(q) /\ q.line = StatusLine(r) /\ s = <<LF>> \o h
    BY DEF AtStatusEnd
<1>2. LF \in Char /\ 0 \in 0 .. Len(r.lines) /\ h \in Text
  <2>1. 0 \in 0 .. Len(r.lines) /\ r.lines \in Seq(Text) /\ r.body \in Text
      BY ResponseParts
  <2> QED BY <2>1, Characters, HeaderType
<1>3. c = LF /\ t = h
  <2> HIDE DEF h
  <2> QED BY <1>1, <1>2, OneBefore
<1> HIDE DEF c, t
<1>4. p = EndLine(q)
    BY <1>1, <1>3 DEF OneOfResponse
<1>5. q.version = <<>>
    BY <1>1 DEF NoStatus
<1>6. cut(q.line).result = Version /\ cut(cut(q.line).left).result = r.code
    BY <1>1, StatusIs
<1>7. p = [q EXCEPT !.version = Version, !.rCode = r.code, !.contentLength = q.contentLength,
                    !.line = <<>>, !.state = "GetHeaderLine"]
    BY <1>4, <1>5, <1>6 DEF EndLine
<1> HIDE DEF p
<1>8. Version \in Text /\ r.code \in Text /\ <<>> \in Text
    BY VersionIs, ResponseParts, EmptyText
<1>9. /\ p \in Response /\ p.state = "GetHeaderLine" /\ p.line = <<>> /\ p.version = Version
      /\ p.rCode = r.code /\ p.contentLength = q.contentLength /\ p.result = 0
      /\ p.content = <<>>
    BY <1>7, <1>8 DEF Response
<1>10. p.contentLength = LengthTo(r.lines, 0, -1)
    BY <1>1, <1>9, LengthZero DEF NoStatus
<1> HIDE DEF h
<1>11. Answering(r, p, HeaderFrom(r.lines, 0, r.body))
    BY <1>2, <1>9, <1>10, LineOver DEF Status
<1> QED BY <1>3, <1>11 DEF h, p, c, t

LEMMA StepField ==
    ASSUME NEW r \in Responses, NEW q \in Response, NEW s \in Text, s # <<>>,
           q.result = 0, q.content = <<>>, AtField(r, q, s)
    PROVE  Answering(r, OneOfResponse(q, Head(s)), Tail(s))
<1> DEFINE c == Head(s)
           t == Tail(s)
           p == OneOfResponse(q, c)
<1>1. q.state = "GetHeaderLine" /\ Status(r, q)
    BY DEF AtField
<1>2. PICK j \in 1 .. Len(r.lines) :
          /\ q.contentLength = LengthTo(r.lines, j - 1, -1)
          /\ Within(q.line, r.lines[j], s, Ended(HeaderFrom(r.lines, j, r.body)))
    BY DEF AtField
<1> DEFINE h == HeaderFrom(r.lines, j, r.body)
           lh == <<LF>> \o h
           after == <<CR>> \o lh
           line == r.lines[j]
<1>3. /\ c \in Char /\ t \in Text /\ CR \in Char /\ LF \in Char /\ r.lines \in Seq(Text)
      /\ r.body \in Text /\ j \in 0 .. Len(r.lines) /\ line \in Text /\ HeaderLine(line)
    BY NextCharacter, Characters, ResponseParts
<1>4. h \in Text
    BY <1>3, HeaderType
<1> HIDE DEF h
<1>5. lh \in Text
    BY <1>3, <1>4, OneBefore
<1> HIDE DEF lh
<1>6. after \in Text /\ Head(after) = CR /\ Tail(after) = lh
    BY <1>3, <1>5, OneBefore
<1>7. Within(q.line, line, s, after)
    BY <1>2 DEF Ended, lh, h
<1>8. line # <<>> /\ Without(line, {CR})
    BY <1>3 DEF HeaderLine
<1> HIDE DEF after, line
<1>9. WithinNext(q.line, line, s, after)
    BY <1>3, <1>6, <1>7, WithinStep
<1> HIDE DEF c, t
<1>10. CASE q.line = line /\ s = after
  <2>1. c = CR /\ t = lh
      BY <1>6, <1>10 DEF c, t
  <2>2. p = [q EXCEPT !.state = "GetCrlf"]
      BY <1>1, <1>8, <1>10, <2>1 DEF OneOfResponse
  <2> HIDE DEF p
  <2>3. /\ p \in Response /\ p.state = "GetCrlf" /\ p.line = q.line /\ p.version = q.version
        /\ p.rCode = q.rCode /\ p.contentLength = q.contentLength /\ p.result = 0
        /\ p.content = <<>>
      BY <2>2 DEF Response
  <2>4. Status(r, p)
      BY <1>1, <2>3 DEF Status
  <2>5. AtFieldEnd(r, p, t)
      BY <1>2, <1>10, <2>1, <2>3, <2>4 DEF AtFieldEnd, line, lh, h
  <2> QED BY <2>3, <2>5, ToBeforeBody DEF p, c, t
<1>11. CASE /\ \E i \in 1 .. Len(line) : c = line[i]
            /\ Within(Append(q.line, c), line, t, after)
  <2>1. c # CR
    <3>1. c \notin {CR}
        BY <1>3, <1>8, <1>11, NotIn
    <3> QED BY <3>1
  <2>2. p = [q EXCEPT !.line = Append(@, c)]
      BY <1>1, <2>1 DEF OneOfResponse
  <2>3. Append(q.line, c) \in Text
      BY <1>3, AppendText DEF Response
  <2> HIDE DEF p
  <2>4. /\ p \in Response /\ p.state = "GetHeaderLine" /\ p.line = Append(q.line, c)
        /\ p.version = q.version /\ p.rCode = q.rCode /\ p.contentLength = q.contentLength
        /\ p.result = 0 /\ p.content = <<>>
      BY <1>1, <2>2, <2>3 DEF Response
  <2>5. Status(r, p)
      BY <1>1, <2>4 DEF Status
  <2>6. AtField(r, p, t)
      BY <1>2, <1>11, <2>4, <2>5 DEF AtField, Ended, after, lh, h, line
  <2> QED BY <2>4, <2>6, ToBeforeBody DEF p, c, t
<1> QED BY <1>9, <1>10, <1>11 DEF WithinNext, c, t

LEMMA StepFieldEnd ==
    ASSUME NEW r \in Responses, NEW q \in Response, NEW s \in Text, s # <<>>,
           q.result = 0, q.content = <<>>, AtFieldEnd(r, q, s)
    PROVE  Answering(r, OneOfResponse(q, Head(s)), Tail(s))
<1> DEFINE c == Head(s)
           t == Tail(s)
           p == OneOfResponse(q, c)
<1>1. q.state = "GetCrlf" /\ Status(r, q)
    BY DEF AtFieldEnd
<1>2. PICK j \in 1 .. Len(r.lines) :
          /\ q.contentLength = LengthTo(r.lines, j - 1, -1)
          /\ q.line = r.lines[j]
          /\ s = <<LF>> \o HeaderFrom(r.lines, j, r.body)
    BY DEF AtFieldEnd
<1> DEFINE h == HeaderFrom(r.lines, j, r.body)
           l == q.line
           len == IF l[1] = Length THEN atoi(l[2]) ELSE q.contentLength
<1>3. /\ LF \in Char /\ j \in 0 .. Len(r.lines) /\ r.lines \in Seq(Text) /\ r.body \in Text
      /\ HeaderLine(l) /\ j \in Nat \ {0}
    BY <1>2, Characters, ResponseParts
<1>4. h \in Text /\ s = <<LF>> \o h
    BY <1>2, <1>3, HeaderType
<1> HIDE DEF h
<1>5. c = LF /\ t = h
    BY <1>3, <1>4, OneBefore
<1> HIDE DEF c, t
<1>6. p = EndLine(q)
    BY <1>1, <1>5 DEF OneOfResponse
<1>7. q.version # <<>>
    BY <1>1, VersionIs DEF Status
<1>8. p = [q EXCEPT !.version = q.version, !.rCode = q.rCode, !.contentLength = len,
                    !.line = <<>>, !.state = "GetHeaderLine"]
    BY <1>6, <1>7 DEF EndLine
<1>9. len \in Int
    BY <1>3, DigitValue DEF HeaderLine, Response
<1>10. len = LengthTo(r.lines, j, -1)
  <2>1. l = r.lines[j] /\ q.contentLength = LengthTo(r.lines, j - 1, -1)
      BY <1>2
  <2> HIDE DEF l
  <2> QED BY <1>3, <2>1, LengthNext
<1> HIDE DEF p, len, l
<1>11. /\ p \in Response /\ p.state = "GetHeaderLine" /\ p.line = <<>> /\ p.version = q.version
       /\ p.rCode = q.rCode /\ p.contentLength = len /\ p.result = 0
       /\ p.content = <<>>
    BY <1>8, <1>9, EmptyText DEF Response
<1>12. Status(r, p)
    BY <1>1, <1>11 DEF Status
<1>13. Answering(r, p, HeaderFrom(r.lines, j, r.body))
    BY <1>3, <1>10, <1>11, <1>12, LineOver
<1> QED BY <1>5, <1>13 DEF h, p, c, t

LEMMA StepLast ==
    ASSUME NEW r \in Responses, NEW q \in Response, NEW s \in Text, s # <<>>,
           q.result = 0, q.content = <<>>, AtLast(r, q, s)
    PROVE  Answering(r, OneOfResponse(q, Head(s)), Tail(s))
<1> DEFINE c == Head(s)
           t == Tail(s)
           p == OneOfResponse(q, c)
           lb == <<LF>> \o r.body
<1>1. /\ q.state = "GetHeaderLine" /\ Status(r, q) /\ q.line = <<>> /\ s = <<CR>> \o lb
      /\ q.contentLength = LengthTo(r.lines, Len(r.lines), -1)
    BY DEF AtLast, Ended
<1>2. lb \in Text /\ CR \in Char
    BY ResponseParts, Separator, Characters
<1> HIDE DEF lb
<1>3. c = CR /\ t = lb
    BY <1>1, <1>2, OneBefore
<1> HIDE DEF c, t
<1>4. p = [q EXCEPT !.state = "GetCrlf2"]
    BY <1>1, <1>3 DEF OneOfResponse
<1> HIDE DEF p
<1>5. /\ p \in Response /\ p.state = "GetCrlf2" /\ p.version = q.version
      /\ p.rCode = q.rCode /\ p.contentLength = q.contentLength /\ p.result = 0
      /\ p.content = <<>>
    BY <1>4 DEF Response
<1>6. AtCrlf2(r, p, t)
    BY <1>1, <1>3, <1>5 DEF AtCrlf2, Status, lb
<1> QED BY <1>5, <1>6, ToBeforeBody DEF p, c, t

LEMMA StepCrlf2 ==
    ASSUME NEW r \in Responses, NEW q \in Response, NEW s \in Text, s # <<>>,
           q.result = 0, q.content = <<>>, AtCrlf2(r, q, s)
    PROVE  Answering(r, OneOfResponse(q, Head(s)), Tail(s))
<1> DEFINE c == Head(s)
           t == Tail(s)
           p == OneOfResponse(q, c)
           L == LengthTo(r.lines, Len(r.lines), -1)
<1>1. q.state = "GetCrlf2" /\ Status(r, q) /\ s = <<LF>> \o r.body /\ q.contentLength = L
    BY DEF AtCrlf2
<1>2. /\ r.body \in Text /\ LF \in Char
      /\ L = Len(r.body) \/ (L = -1 /\ Len(r.body) = 0)
    BY ResponseParts, Characters
<1>3. c = LF /\ t = r.body
    BY <1>1, <1>2, OneBefore
<1> HIDE DEF c, t, L
<1>4. CASE r.body = <<>>
  <2>1. q.contentLength \in {-1, 0}
      BY <1>1, <1>2, <1>4, EmptyText
  <2>2. p = [q EXCEPT !.result = 1]
      BY <1>1, <1>3, <2>1 DEF OneOfResponse
  <2> HIDE DEF p
  <2>3. /\ p.version = q.version /\ p.rCode = q.rCode /\ p.result = 1 /\ p.content = <<>>
      BY <2>2 DEF Response
  <2>4. p \in Response
      BY <2>2 DEF Response
  <2>5. Whole(r, p, t)
      BY <1>1, <1>3, <1>4, <2>3 DEF Whole, Status
  <2> QED BY <2>3, <2>4, <2>5 DEF Answering, p, c, t
<1>5. CASE r.body # <<>>
  <2>1. Len(r.body) \in Nat \ {0}
      BY <1>2, <1>5, EmptySeq DEF Text
  <2>2. q.contentLength = Len(r.body) /\ ~(q.contentLength \in {-1, 0})
      BY <1>1, <1>2, <2>1
  <2>3. p = [q EXCEPT !.state = "GetContent"]
      BY <1>1, <1>3, <2>2 DEF OneOfResponse
  <2> HIDE DEF p
  <2>4. /\ p \in Response /\ p.state = "GetContent" /\ p.version = q.version
        /\ p.rCode = q.rCode /\ p.contentLength = q.contentLength /\ p.result = 0
        /\ p.content = <<>>
      BY <2>3 DEF Response
  <2>5. p.content \o t = r.body
      BY <1>2, <1>3, <2>4, EmptyText
  <2>6. AtBody(r, p, t)
      BY <1>1, <1>5, <2>2, <2>4, <2>5 DEF AtBody, Status
  <2> QED BY <2>4, <2>6 DEF Answering, p, c, t
<1> QED BY <1>4, <1>5

LEMMA StepBody ==
    ASSUME NEW r \in Responses, NEW q \in Response, NEW s \in Text, s # <<>>,
           q.result = 0, AtBody(r, q, s)
    PROVE  Answering(r, OneOfResponse(q, Head(s)), Tail(s))
<1> DEFINE c == Head(s)
           t == Tail(s)
           p == OneOfResponse(q, c)
           a == Append(q.content, c)
<1>1. /\ q.state = "GetContent" /\ Status(r, q) /\ r.body # <<>> /\ q.content \o s = r.body
      /\ q.contentLength = Len(r.body)
    BY DEF AtBody
<1>2. q.content \in Text
    BY DEF Response
<1>3. a \in Text /\ a \o t = r.body
    BY <1>1, <1>2, MoveOne
<1>4. p = [q EXCEPT !.content = a]
    BY <1>1 DEF OneOfResponse
<1> HIDE DEF p, a, t, c
<1>5. /\ p \in Response /\ p.state = "GetContent" /\ p.version = q.version
      /\ p.rCode = q.rCode /\ p.contentLength = q.contentLength /\ p.result = 0
      /\ p.content = a
    BY <1>1, <1>3, <1>4 DEF Response
<1>6. AtBody(r, p, t)
    BY <1>1, <1>3, <1>5 DEF AtBody, Status
<1> QED BY <1>5, <1>6 DEF Answering, p, c, t

LEMMA ResponseStep ==
    ASSUME NEW r \in Responses, NEW q, NEW s \in Text, s # <<>>, Answering(r, q, s)
    PROVE  Answering(r, OneOfResponse(q, Head(s)), Tail(s))
<1>1. q \in Response
    BY DEF Answering
<1>2. CASE q.result = 0 /\ BeforeBody(r, q, s)
  <2>1. q.content = <<>>
      BY <1>2 DEF BeforeBody
  <2>2. CASE AtStatus(r, q, s)
      BY <1>1, <1>2, <2>1, <2>2, StepStatus
  <2>3. CASE AtStatusEnd(r, q, s)
      BY <1>1, <1>2, <2>1, <2>3, StepStatusEnd
  <2>4. CASE AtField(r, q, s)
      BY <1>1, <1>2, <2>1, <2>4, StepField
  <2>5. CASE AtFieldEnd(r, q, s)
      BY <1>1, <1>2, <2>1, <2>5, StepFieldEnd
  <2>6. CASE AtLast(r, q, s)
      BY <1>1, <1>2, <2>1, <2>6, StepLast
  <2>7. CASE AtCrlf2(r, q, s)
      BY <1>1, <1>2, <2>1, <2>7, StepCrlf2
  <2> QED BY <1>2, <2>2, <2>3, <2>4, <2>5, <2>6, <2>7 DEF BeforeBody
<1>3. CASE q.result = 0 /\ AtBody(r, q, s)
    BY <1>1, <1>3, StepBody
<1>4. CASE q.result = 1 /\ Whole(r, q, s)
    BY <1>4 DEF Whole
<1> QED BY <1>2, <1>3, <1>4 DEF Answering

\* The recursion over a piece has one solution.
ResponseSteps(m, piece, f) ==
    [i \in 0 .. Len(piece) |-> IF i = 0 THEN m ELSE OneOfResponse(f[i - 1], piece[i])]

LEMMA ResponseStepsExist ==
    ASSUME NEW m, NEW piece \in Text
    PROVE  \E f : f = ResponseSteps(m, piece, f)
<1> DEFINE B(g, i) == IF i = 0 THEN m ELSE OneOfResponse(g[i - 1], piece[i])
           P(k, g) == g = [i \in 0 .. k |-> B(g, i)]
           T == {k \in Nat : \E g : P(k, g)}
<1>1. Len(piece) \in Nat
    BY DEF Text
<1>2. 0 \in T
  <2> DEFINE g == [i \in 0 .. 0 |-> m]
  <2>1. P(0, g)
      OBVIOUS
  <2> QED BY <2>1
<1>3. ASSUME NEW k \in 1 .. Len(piece), k - 1 \in T PROVE k \in T
  <2>1. PICK g : P(k - 1, g)
      BY <1>3
  <2> DEFINE h == [i \in 0 .. k |-> IF i = k THEN B(g, k) ELSE g[i]]
  <2>2. ASSUME NEW i \in 0 .. k PROVE h[i] = B(h, i)
    <3>1. CASE i = k
      <4>1. k - 1 \in 0 .. k /\ k - 1 # k /\ k # 0
          OBVIOUS
      <4>2. h[k - 1] = g[k - 1] /\ h[i] = B(g, k)
          BY <3>1, <4>1
      <4> HIDE DEF h
      <4> QED BY <3>1, <4>1, <4>2
    <3>2. CASE i # k
      <4>1. i \in 0 .. k - 1 /\ (i # 0 => i - 1 \in 0 .. k - 1 /\ i - 1 # k /\ i - 1 \in 0 .. k)
          BY <3>2
      <4>2. h[i] = g[i] /\ (i # 0 => h[i - 1] = g[i - 1])
          BY <3>2, <4>1
      <4>3. g[i] = B(g, i)
          BY <2>1, <4>1
      <4> HIDE DEF h
      <4> QED BY <4>2, <4>3
    <3> QED BY <3>1, <3>2
  <2>3. h = [i \in 0 .. k |-> h[i]]
      OBVIOUS
  <2> HIDE DEF h, B
  <2>4. P(k, h)
      BY <2>2, <2>3
  <2> QED BY <1>1, <2>4
<1> HIDE DEF T
<1>4. 0 .. Len(piece) \subseteq T
    BY <1>1, <1>2, <1>3, FromZero
<1>5. Len(piece) \in T
    BY <1>1, <1>4
<1>6. PICK g : P(Len(piece), g)
    BY <1>5 DEF T
<1> QED BY <1>6 DEF ResponseSteps

\* The place behind p + k characters of a text.
LEMMA AfterPieceOfResponseIs ==
    ASSUME NEW r \in Responses, NEW s \in Text, NEW p \in 0 .. Len(s),
           NEW n \in 0 .. Len(s) - p, NEW m, Answering(r, m, SubSeq(s, p + 1, Len(s)))
    PROVE  Answering(r, AfterPieceOfResponse(m, SubSeq(s, p + 1, p + n)), SubSeq(s, p + n + 1, Len(s)))
<1> DEFINE piece == SubSeq(s, p + 1, p + n)
           walk == CHOOSE f : f = ResponseSteps(m, piece, f)
           R(k) == SubSeq(s, p + k + 1, Len(s))
           T == {k \in Nat : Answering(r, walk[k], R(k))}
<1>1. /\ s \in Seq(Char) /\ Len(s) \in Nat /\ p \in Nat /\ n \in Nat
      /\ p + n \in Nat /\ p <= p + n /\ p + n <= Len(s) /\ (p + n) - p = n
    BY DEF Text
<1>2. piece \in Text /\ Len(piece) = n /\ \A i \in 1 .. n : piece[i] = s[p + i]
    BY <1>1, PieceIs DEF Text
<1>3. walk = ResponseSteps(m, piece, walk)
    BY <1>2, ResponseStepsExist
<1>4. AfterPieceOfResponse(m, piece) = walk[Len(piece)]
    BY DEF AfterPieceOfResponse, ResponseSteps
<1> HIDE DEF walk, piece
<1>5. walk[0] = m /\ \A i \in 1 .. n : walk[i] = OneOfResponse(walk[i - 1], piece[i])
  <2>1. 0 \in 0 .. n /\ \A i \in 1 .. n : i \in 0 .. n /\ i # 0
      BY <1>1
  <2>2. \A i \in 0 .. n : walk[i] = IF i = 0 THEN m ELSE OneOfResponse(walk[i - 1], piece[i])
      BY <1>2, <1>3 DEF ResponseSteps
  <2> QED BY <2>1, <2>2
<1>6. 0 \in T
  <2>1. p + 0 + 1 = p + 1
      BY <1>1
  <2> QED BY <1>5, <2>1
<1>7. ASSUME NEW i \in 1 .. n, i - 1 \in T PROVE i \in T
  <2> DEFINE j == p + i
             w == SubSeq(s, j, Len(s))
             v == walk[i - 1]
  <2>1. /\ j \in 1 .. Len(s) /\ Len(s) \in j .. Len(s) /\ p + (i - 1) + 1 = j
        /\ p + i + 1 = j + 1 /\ i \in Nat
      BY <1>1
  <2>2. Answering(r, v, w)
      BY <1>7, <2>1
  <2>3. Head(w) = s[j] /\ Tail(w) = SubSeq(s, j + 1, Len(s))
      BY <1>1, <2>1, HeadTailOfSubSeq
  <2>4. w \in Text /\ w # <<>>
    <3> DEFINE k == j - 1
    <3>1. k \in Nat /\ k <= Len(s) /\ k + 1 = j
        BY <1>1, <2>1
    <3> HIDE DEF k
    <3>2. SubSeq(s, k + 1, Len(s)) \in Seq(Char) /\ Len(SubSeq(s, k + 1, Len(s))) = Len(s) - k
        BY <1>1, <3>1, PieceIs
    <3>3. w \in Seq(Char) /\ Len(w) = Len(s) - k
        BY <3>1, <3>2
    <3> HIDE DEF w
    <3>4. Len(w) # 0
        BY <1>1, <2>1, <3>1, <3>3
    <3> QED BY <3>3, <3>4, EmptyText DEF Text
  <2>5. piece[i] = s[j] /\ walk[i] = OneOfResponse(v, piece[i])
      BY <1>2, <1>5
  <2> HIDE DEF v, w
  <2>6. Answering(r, OneOfResponse(v, Head(w)), Tail(w))
      BY <2>2, <2>4, ResponseStep
  <2>7. Answering(r, walk[i], SubSeq(s, j + 1, Len(s)))
      BY <2>3, <2>5, <2>6
  <2>8. R(i) = SubSeq(s, j + 1, Len(s))
      BY <2>1
  <2> HIDE DEF R
  <2> QED BY <2>1, <2>7, <2>8
<1> HIDE DEF T
<1>8. 0 .. n \subseteq T
    BY <1>1, <1>6, <1>7, FromZero
<1>9. n \in T
    BY <1>1, <1>8
<1> QED BY <1>2, <1>4, <1>9 DEF T, piece

\* As long as nothing of the body has come, something is still to come.
LEMMA BeforeBodyMore ==
    ASSUME NEW r \in Responses, NEW q, NEW s, BeforeBody(r, q, s)
    PROVE  s # <<>>
<1> DEFINE h(j) == HeaderFrom(r.lines, j, r.body)
           L == Len(r.lines)
<1>1. r.lines \in Seq(Text) /\ r.body \in Text /\ LF \in Char /\ 0 \in 0 .. L
  <2>1. r.lines \in Seq(Text) /\ r.body \in Text
      BY ResponseParts
  <2> QED BY <2>1, Characters
<1>2. \A j \in 0 .. L : /\ Ended(h(j)) \in Text /\ Len(Ended(h(j))) >= 2
                        /\ <<LF>> \o h(j) # <<>>
  <2> SUFFICES ASSUME NEW j \in 0 .. L
               PROVE  /\ Ended(h(j)) \in Text /\ Len(Ended(h(j))) >= 2
                      /\ <<LF>> \o h(j) # <<>>
      OBVIOUS
  <2> DEFINE g == h(j)
  <2>1. g \in Text
      BY <1>1, HeaderType
  <2> HIDE DEF g
  <2>2. <<LF>> \o g # <<>>
      BY <1>1, <2>1, OneBefore
  <2>3. Ended(g) \in Text /\ Len(Ended(g)) = Len(g) + 2 /\ Len(g) \in Nat
      BY <2>1, Separator DEF Text
  <2> QED BY <2>2, <2>3 DEF g
<1>3. ASSUME NEW whole \in Text, NEW done, NEW j \in 0 .. L, Within(done, whole, s, Ended(h(j)))
      PROVE  s # <<>>
  <2> DEFINE a == Ended(h(j))
  <2>1. a \in Text /\ Len(a) >= 2 /\ Within(done, whole, s, a)
      BY <1>2, <1>3
  <2> HIDE DEF a
  <2>2. s \in Text /\ Len(s) >= Len(a)
      BY <2>1, WithinLength
  <2>3. Len(s) \in Nat /\ Len(a) \in Nat
      BY <2>1, <2>2 DEF Text
  <2>4. Len(s) # 0
      BY <2>1, <2>2, <2>3
  <2> QED BY <2>4, EmptyText
<1>4. CASE AtStatus(r, q, s)
  <2>1. StatusLine(r) \in Text
      BY StatusIs
  <2>2. Within(q.line, StatusLine(r), s, Ended(h(0)))
      BY <1>4 DEF AtStatus
  <2> HIDE DEF h
  <2> QED BY <1>1, <1>3, <2>1, <2>2
<1>5. CASE AtStatusEnd(r, q, s)
  <2>1. s = <<LF>> \o h(0)
      BY <1>5 DEF AtStatusEnd
  <2> HIDE DEF h
  <2> QED BY <1>1, <1>2, <2>1
<1>6. CASE AtField(r, q, s)
  <2>1. PICK j \in 1 .. L : Within(q.line, r.lines[j], s, Ended(h(j)))
      BY <1>6 DEF AtField
  <2>2. r.lines[j] \in Text /\ j \in 0 .. L
      BY ResponseParts
  <2> HIDE DEF h
  <2> QED BY <1>3, <2>1, <2>2
<1>7. CASE AtFieldEnd(r, q, s)
  <2>1. PICK j \in 1 .. L : s = <<LF>> \o h(j)
      BY <1>7 DEF AtFieldEnd
  <2>2. j \in 0 .. L
      OBVIOUS
  <2> HIDE DEF h
  <2> QED BY <1>2, <2>1, <2>2
<1>8. CASE AtLast(r, q, s)
  <2>1. s = Ended(r.body)
      BY <1>8 DEF AtLast
  <2>2. Ended(r.body) \in Text /\ Len(Ended(r.body)) = Len(r.body) + 2
      BY <1>1, Separator
  <2>3. Len(r.body) \in Nat
      BY <1>1 DEF Text
  <2>4. Len(s) # 0
      BY <2>1, <2>2, <2>3
  <2> QED BY <2>4, EmptyText
<1>9. CASE AtCrlf2(r, q, s)
  <2>1. s = <<LF>> \o r.body
      BY <1>9 DEF AtCrlf2
  <2> QED BY <1>1, <2>1, OneBefore
<1> QED BY <1>4, <1>5, <1>6, <1>7, <1>8, <1>9 DEF BeforeBody

\* At the end of a piece the response is done exactly if nothing is to come.
LEMMA ResponsePieceEnd ==
    ASSUME NEW r \in Responses, NEW q, NEW s \in Text, Answering(r, q, s),
           NEW p, p = [q EXCEPT !.result = IF @ = 0 /\ q.content # <<>>
                                              /\ Len(q.content) >= q.contentLength
                                           THEN 1 ELSE @]
    PROVE  Answered(r, p, s) /\ p.result \in {0, 1}
<1>1. q \in Response
    BY DEF Answering
<1>2. CASE q.result = 0 /\ BeforeBody(r, q, s)
  <2>1. q.content = <<>>
      BY <1>2 DEF BeforeBody
  <2>2. p = q
      BY <1>1, <1>2, <2>1 DEF Response
  <2> QED BY <1>2, <2>2, BeforeBodyMore DEF Answered
<1>3. CASE q.result = 0 /\ AtBody(r, q, s)
  <2>1. /\ q.content \o s = r.body /\ r.body # <<>> /\ q.contentLength = Len(r.body)
        /\ Status(r, q)
      BY <1>3 DEF AtBody
  <2>2. q.content \in Text /\ r.body \in Text
      BY <1>1, ResponseParts DEF Response
  <2>3. Len(r.body) = Len(q.content) + Len(s) /\ Len(q.content) \in Nat /\ Len(s) \in Nat
      BY <2>1, <2>2, JoinText
  <2>4. CASE s = <<>>
    <3>1. q.content = r.body
        BY <2>1, <2>2, <2>4, EmptyText
    <3>2. p = [q EXCEPT !.result = 1]
      <4>1. q.content # <<>> /\ Len(q.content) >= q.contentLength
          BY <2>1, <2>3, <3>1
      <4> QED BY <1>3, <4>1
    <3>3. /\ p \in Response /\ p.result = 1 /\ p.content = q.content
          /\ p.version = q.version /\ p.rCode = q.rCode
        BY <1>1, <3>2 DEF Response
    <3>4. Whole(r, p, s)
        BY <2>1, <2>4, <3>1, <3>3 DEF Whole, Status
    <3> QED BY <3>3, <3>4 DEF Answered, Answering
  <2>5. CASE s # <<>>
    <3>1. Len(s) # 0
        BY <2>5, EmptyText, EmptySeq DEF Text
    <3>2. ~(Len(q.content) >= q.contentLength)
        BY <2>1, <2>3, <3>1
    <3>3. p = q
        BY <1>1, <1>3, <3>2 DEF Response
    <3> QED BY <1>3, <2>5, <3>3 DEF Answered
  <2> QED BY <2>4, <2>5
<1>4. CASE q.result = 1 /\ Whole(r, q, s)
  <2>1. p = q
      BY <1>1, <1>4 DEF Response
  <2> QED BY <1>4, <2>1 DEF Answered
<1> QED BY <1>2, <1>3, <1>4 DEF Answering

\* A response is a text, and a parser that is cleared reads it.
LEMMA WaitsForResponse ==
    ASSUME NEW r \in Responses
    PROVE  ResponseStream(r) \in Text /\ Answered(r, clearParseState, ResponseStream(r))
<1> DEFINE line == StatusLine(r)
           h == HeaderFrom(r.lines, 0, r.body)
           a == Ended(h)
           s == line \o a
           q == clearParseState
<1>1. r.lines \in Seq(Text) /\ r.body \in Text /\ 0 \in 0 .. Len(r.lines)
  <2>1. r.lines \in Seq(Text) /\ r.body \in Text
      BY ResponseParts
  <2> QED BY <2>1
<1>2. line \in Text
    BY StatusIs
<1>3. h \in Text /\ HeadersAndBody(r.lines, r.body) = h
    BY <1>1, HeaderType, HeaderAll
<1>4. ResponseStream(r) = line \o (CRLF \o h)
    BY <1>3 DEF ResponseStream
<1> HIDE DEF line, h
<1>5. CRLF \o h = a /\ a \in Text
    BY <1>3, Separator
<1>6. ResponseStream(r) = s
    BY <1>4, <1>5
<1> HIDE DEF a
<1>7. s \in Text
    BY <1>2, <1>5, JoinText
<1>8. Within(<<>>, line, s, a)
    BY <1>2, <1>5, WithinBegins
<1> HIDE DEF s
<1>9. q \in Response
    BY EmptyText DEF clearParseState, Response
<1>10. /\ q.state = "GetHeaderLine" /\ q.version = <<>> /\ q.contentLength = -1
       /\ q.line = <<>> /\ q.result = 0 /\ q.content = <<>>
    BY DEF clearParseState
<1> HIDE DEF q
<1>11. AtStatus(r, q, s)
    BY <1>8, <1>10 DEF AtStatus, NoStatus, line, a, h
<1>12. BeforeBody(r, q, s)
    BY <1>10, <1>11 DEF BeforeBody
<1>13. Answered(r, q, s)
    BY <1>9, <1>10, <1>12, BeforeBodyMore DEF Answered, Answering
<1> QED BY <1>6, <1>7, <1>13 DEF q

\* A piece comes to the client.
LEMMA ClientStep ==
    ASSUME NEW s \in Text, NEW p \in 0 .. Len(s), NEW n \in 1 .. Len(s) - p,
           NEW q, NEW handed, ClientReads(s, p, "open", q, handed),
           NEW m, m = ResponseParse(q, SubSeq(s, p + 1, p + n)), NEW e, NEW now, NEW after,
           now = IF m.result = 0 THEN "open" ELSE "closed",
           after = IF m.result = 1 THEN Append(handed, e) ELSE handed
    PROVE  ClientReads(s, p + n, now, m, after)
<1> DEFINE to == p + n
<1>1. /\ n \in 0 .. Len(s) - p /\ to \in 0 .. Len(s) /\ Len(s) \in Nat
    BY DEF Text
<1>2. q.result # 1 /\ handed = <<>> /\ \E r \in Responses : s = ResponseStream(r)
    BY DEF ClientReads
<1>3. ASSUME NEW r \in Responses, s = ResponseStream(r)
      PROVE  Answered(r, m, Rest(s, to)) /\ m.result \in {0, 1}
  <2> DEFINE a == AfterPieceOfResponse(q, SubSeq(s, p + 1, p + n))
  <2>1. Answering(r, q, SubSeq(s, p + 1, Len(s)))
      BY <1>3 DEF ClientReads, Answered, Rest
  <2>2. Answering(r, a, Rest(s, to))
    <3>1. Answering(r, a, SubSeq(s, p + n + 1, Len(s)))
        BY <1>1, <2>1, AfterPieceOfResponseIs
    <3> QED BY <3>1 DEF Rest
  <2>3. m = [a EXCEPT !.result = IF @ = 0 /\ a.content # <<>>
                                    /\ Len(a.content) >= a.contentLength
                                 THEN 1 ELSE @]
      BY DEF ResponseParse
  <2> HIDE DEF a, to
  <2>4. Rest(s, to) \in Text
      BY <1>1, RestIs
  <2> QED BY <2>2, <2>3, <2>4, ResponsePieceEnd
<1>4. m.result \in {0, 1}
    BY <1>2, <1>3
<1>5. Append(<<>>, e) # <<>>
  <2>1. <<>> \in Seq({e})
      BY EmptySeq
  <2> QED BY <2>1, AppendProperties
<1>6. after # <<>> <=> m.result = 1
    BY <1>2, <1>4, <1>5
<1>7. m.result = 1 => now = "closed"
    OBVIOUS
<1> HIDE DEF to
<1>8. ClientReads(s, to, now, m, after)
    BY <1>2, <1>3, <1>6, <1>7 DEF ClientReads
<1> QED BY <1>8 DEF to

-----------------------------------------------------------------------------
(* The theorems.                                                           *)

\* What a server begins with: one request or two of them are to come.
LEMMA ServerBegins ==
    ASSUME NEW s \in Text
    PROVE  ServerReads(s, 0, 0, "open", NewMessage, <<>>) /\ AllExact(s, <<>>)
<1>1. 0 \in 0 .. Len(s)
    BY DEF Text
<1>2. ASSUME NEW r \in Requests, Stands(r, s, 0)
      PROVE  Waiting(r, Rest(s, 0 + HeadOf(r)), NewMessage, Rest(s, 0))
    BY <1>1, <1>2, NewWaits
<1>3. ServerReads(s, 0, 0, "open", NewMessage, <<>>)
    BY <1>2 DEF ServerReads
<1> QED BY <1>3 DEF AllExact

LEMMA ParseBegins == Init => ParseIInv
<1> SUFFICES ASSUME Init PROVE ParseIInv
    OBVIOUS
<1>1. role \in {"server", "client"} /\ pos = 0 /\ begin = 0 /\ link = "open" /\ posted = <<>>
    BY DEF Init
<1>2. posted \in Seq(Range(posted))
    BY <1>1, EmptySeq
<1>3. CASE role = "server"
  <2>1. parser = NewMessage
      BY <1>3 DEF Init
  <2>2. PICK first, second \in Requests :
            \/ stream = RequestStream(first)
            \/ stream = RequestStream(first) \o RequestStream(second)
      BY <1>3 DEF Init
  <2>3. RequestStream(first) \in Text /\ RequestStream(second) \in Text
      BY RequestParts, EmptyText, TextAppend DEF RequestStream
  <2>4. stream \in Text
      BY <2>2, <2>3, JoinText
  <2>5. Places
    <3>1. Len(stream) \in Nat
        BY <2>4 DEF Text
    <3> QED BY <1>1, <1>2, <2>4, <3>1 DEF Places
  <2>6. /\ ServerReads(stream, 0, 0, "open", NewMessage, <<>>)
        /\ AllExact(stream, <<>>)
      BY <2>4, ServerBegins
  <2> QED BY <1>1, <1>3, <2>1, <2>5, <2>6 DEF ParseIInv
<1>4. CASE role = "client"
  <2>1. parser = clearParseState
      BY <1>4 DEF Init
  <2>2. PICK a \in Responses : stream = ResponseStream(a)
      BY <1>4 DEF Init
  <2>3. stream \in Text
      BY <2>2, WaitsForResponse
  <2>4. Places
    <3>1. Len(stream) \in Nat
        BY <2>3 DEF Text
    <3> QED BY <1>1, <1>2, <2>3, <3>1 DEF Places
  <2>5. Rest(stream, 0) = stream
      BY <2>3, SubSeqFull DEF Rest, Text
  <2>6. \A r \in Responses : stream = ResponseStream(r) => Answered(r, parser, Rest(stream, 0))
      BY <2>1, <2>5, WaitsForResponse
  <2>7. parser.result = 0
      BY <2>1 DEF clearParseState
  <2>8. ClientReads(stream, pos, link, parser, posted)
      BY <1>1, <2>2, <2>6, <2>7 DEF ClientReads
  <2> QED BY <1>4, <2>4, <2>8 DEF ParseIInv
<1> QED BY <1>1, <1>3, <1>4

\* A piece of n characters leads to another place.
LEMMA Onward ==
    ASSUME Places, NEW n \in 1 .. Len(stream) - pos
    PROVE  /\ Reading(stream, begin, pos) /\ pos \in 0 .. Len(stream)
           /\ begin \in 0 .. Len(stream) /\ pos + n \in 0 .. Len(stream)
           /\ pos + n \in begin .. Len(stream) /\ pos + n \in pos + n .. Len(stream)
<1>1. Len(stream) \in Nat
    BY DEF Places, Text
<1> QED BY <1>1 DEF Places, Reading

LEMMA ParseServer == ParseIInv /\ ServerReceive => ParseIInv'
<1> SUFFICES ASSUME ParseIInv, ServerReceive PROVE ParseIInv'
    OBVIOUS
<1>1. /\ Places /\ role = "server" /\ AllExact(stream, posted)
      /\ ServerReads(stream, begin, pos, link, parser, posted)
    BY DEF ParseIInv, ServerReceive
<1>2. stream' = stream /\ role' = role
    BY DEF ServerReceive
<1> DEFINE m(n) == MessageParse(parser, SubSeq(stream, pos + 1, pos + n))
<1>3. PICK n \in 1 .. Len(stream) - pos :
          /\ pos' = pos + n
          /\ \/ /\ m(n).result = 1
                /\ Post(m(n), pos + n)
                /\ parser' = NewMessage /\ begin' = pos + n /\ link' = "open"
             \/ /\ m(n).result = 0
                /\ parser' = m(n)
                /\ UNCHANGED <<begin, posted, link>>
             \/ /\ m(n).result = -1
                /\ link' = "closed"
                /\ UNCHANGED <<parser, begin, posted>>
    BY DEF ServerReceive
<1> DEFINE w == m(n)
           e == [message |-> w, from |-> begin, to |-> pos + n]
<1>4. w = MessageParse(parser, SubSeq(stream, pos + 1, pos + n))
    OBVIOUS
<1>5. /\ pos' = pos + n
      /\ \/ /\ w.result = 1
            /\ Post(w, pos + n)
            /\ parser' = NewMessage /\ begin' = pos + n /\ link' = "open"
         \/ /\ w.result = 0
            /\ parser' = w
            /\ UNCHANGED <<begin, posted, link>>
         \/ /\ w.result = -1
            /\ link' = "closed"
            /\ UNCHANGED <<parser, begin, posted>>
    BY <1>3
<1> HIDE DEF w, m
<1>6. /\ Reading(stream, begin, pos) /\ posted \in Seq(Range(posted))
      /\ stream \in Text /\ link \in {"open", "closed"}
      /\ begin \in 0 .. Len(stream)
      /\ pos + n \in 0 .. Len(stream)
      /\ pos + n \in begin .. Len(stream) /\ pos + n \in pos + n .. Len(stream)
    BY <1>1, Onward DEF Places
<1>7. CASE w.result = 1
  <2>1. /\ posted' = Append(posted, e) /\ parser' = NewMessage
        /\ begin' = pos + n /\ link' = "open"
      BY <1>5, <1>7 DEF Post
  <2>2. e = [message |-> w, from |-> begin, to |-> pos + n]
      OBVIOUS
  <2> HIDE DEF e
  <2>3. /\ ServerReads(stream, pos + n, pos + n, "open", NewMessage, posted')
        /\ AllExact(stream, posted') /\ posted' \in Seq(Range(posted'))
      BY <1>1, <1>4, <1>6, <1>7, <2>1, <2>2, PostStep
  <2>4. Places'
      BY <1>1, <1>2, <1>5, <1>6, <2>1, <2>3 DEF Places
  <2> QED BY <1>1, <1>2, <1>5, <2>1, <2>3, <2>4 DEF ParseIInv
<1>8. CASE w.result \in {0, -1}
  <2>1. /\ begin' = begin /\ posted' = posted /\ link' \in {"open", "closed"}
      BY <1>5, <1>6, <1>8
  <2>2. \/ w.result = 0 /\ parser' = w /\ link' = link
        \/ w.result = -1 /\ parser' = parser /\ link' = "closed"
      BY <1>5, <1>8
  <2>3. link = "open"
      BY DEF ServerReceive
  <2>4. ServerReads(stream, begin, pos + n, link', parser', posted)
      BY <1>1, <1>4, <1>6, <2>2, <2>3, GoOnStep
  <2>5. Places'
      BY <1>1, <1>2, <1>5, <1>6, <2>1 DEF Places
  <2> QED BY <1>1, <1>2, <1>5, <2>1, <2>4, <2>5 DEF ParseIInv
<1> QED BY <1>5, <1>7, <1>8

LEMMA ParseClient == ParseIInv /\ ClientReceive => ParseIInv'
<1> SUFFICES ASSUME ParseIInv, ClientReceive PROVE ParseIInv'
    OBVIOUS
<1>1. /\ Places /\ role = "client" /\ ClientReads(stream, pos, "open", parser, posted)
    BY DEF ParseIInv, ClientReceive
<1>2. stream' = stream /\ role' = role /\ begin' = begin
    BY DEF ClientReceive
<1> DEFINE m(n) == ResponseParse(parser, SubSeq(stream, pos + 1, pos + n))
<1>3. PICK n \in 1 .. Len(stream) - pos :
          /\ pos' = pos + n
          /\ parser' = m(n)
          /\ link' = IF m(n).result = 0 THEN "open" ELSE "closed"
          /\ IF m(n).result = 1 THEN Post(m(n), pos + n) ELSE UNCHANGED posted
    BY DEF ClientReceive
<1> DEFINE e == [message |-> m(n), from |-> begin, to |-> pos + n]
<1>4. posted' = IF parser'.result = 1 THEN Append(posted, e) ELSE posted
    BY <1>3 DEF Post
<1>5. parser' = ResponseParse(parser, SubSeq(stream, pos + 1, pos + n))
    BY <1>3
<1>6. link' = IF parser'.result = 0 THEN "open" ELSE "closed"
    BY <1>3
<1>7. /\ posted \in Seq(Range(posted)) /\ stream \in Text
      /\ pos \in 0 .. Len(stream) /\ pos + n \in begin .. Len(stream)
      /\ begin \in 0 .. Len(stream)
    BY <1>1, Onward DEF Places
<1> HIDE DEF m, e
<1>8. ClientReads(stream, pos + n, link', parser', posted')
    BY <1>1, <1>4, <1>5, <1>6, <1>7, ClientStep
<1>9. posted' \in Seq(Range(posted'))
  <2> DEFINE S == Range(posted) \cup {e}
  <2>1. posted \in Seq(S) /\ e \in S
      BY <1>7
  <2> HIDE DEF S
  <2>2. posted' \in Seq(S)
      BY <1>4, <2>1, AppendProperties
  <2> QED BY <2>2, SeqOfRange
<1>10. Places'
    BY <1>1, <1>2, <1>3, <1>6, <1>7, <1>9 DEF Places
<1> QED BY <1>1, <1>2, <1>3, <1>8, <1>10 DEF ParseIInv

LEMMA ParseEnd == ParseIInv /\ EndOfStream => ParseIInv'
<1> SUFFICES ASSUME ParseIInv, EndOfStream PROVE ParseIInv'
    OBVIOUS
<1>1. /\ role' = role /\ stream' = stream /\ pos' = pos /\ parser' = parser
      /\ begin' = begin /\ posted' = posted /\ link' = "closed" /\ pos = Len(stream)
    BY DEF EndOfStream
<1>2. Places'
    BY <1>1 DEF ParseIInv, Places
<1>3. Len(stream) \in Nat
    BY DEF ParseIInv, Places, Text
<1>4. role = "server" => ServerReads(stream, begin, pos, "closed", parser, posted)
    BY <1>1, <1>3 DEF ParseIInv, ServerReads
<1>5. role = "client" => ClientReads(stream, pos, "closed", parser, posted)
    BY DEF ParseIInv, ClientReads
<1> QED BY <1>1, <1>2, <1>4, <1>5 DEF ParseIInv

\* However the stream is cut into pieces, the server's parser stands where the
\* request it began with has been read to, with what it has read of it, and
\* the client's where the response has been read to, never beyond its end.
THEOREM ParseInvariance == Spec => []ParseIInv
<1>1. Init => ParseIInv
    BY ParseBegins
<1>2. ParseIInv /\ [Next]_vars => ParseIInv'
  <2>1. ParseIInv /\ UNCHANGED vars => ParseIInv'
      BY DEF ParseIInv, Places, vars
  <2> QED BY <2>1, ParseServer, ParseClient, ParseEnd DEF Next
<1> QED BY <1>1, <1>2, PTL DEF Spec

\* Every request that stands where the server begins a message is posted as it
\* was sent, however it was cut into pieces; of its body what comes up to the
\* end of the piece that ends it (CHttpMessage::parseStream, processRecv).
THEOREM RequestsExact == Spec => []RequestExact
<1>1. ParseIInv => RequestExact
  <2> SUFFICES ASSUME ParseIInv, role = "server", NEW i \in DOMAIN posted,
                      NEW r \in Requests, StandsAt(r, posted[i].from)
               PROVE  LET m == posted[i].message
                          body == posted[i].from + Len(RequestStream(r)) - Len(r.body)
                      IN  /\ m.method = r.method /\ m.query = r.query /\ m.version = Version
                          /\ m.lines = r.lines
                          /\ m.path \in {r.path, <<"/">> \o r.path}
                          /\ m.content = IF r.body = <<>> THEN <<>>
                                         ELSE SubSeq(stream, body + 1, posted[i].to)
      BY DEF RequestExact
  <2>1. Stands(r, stream, posted[i].from)
      BY DEF StandsAt, Stands, Rest
  <2>2. Exact(r, stream, posted[i])
      BY <2>1 DEF ParseIInv, AllExact
  <2> QED BY <2>2 DEF Exact, Paths
<1> QED BY <1>1, ParseInvariance, PTL

\* The first request of a connection is posted when its head and the first of
\* its body have come, not before, and its link stays open till then.
THEOREM FirstIsPosted == Spec => []FirstPosted
<1>1. ParseIInv => FirstPosted
  <2> SUFFICES ASSUME ParseIInv, role = "server", NEW r \in Requests, StandsAt(r, 0)
               PROVE  /\ (pos >= Needed(r)) <=> (posted # <<>>)
                      /\ pos < Len(stream) /\ posted = <<>> => link = "open"
      BY DEF FirstPosted, Needed, HeadOf
  <2>1. Stands(r, stream, 0)
      BY DEF StandsAt, Stands, Rest
  <2>2. Places /\ ServerReads(stream, begin, pos, link, parser, posted)
      BY DEF ParseIInv
  <2>3. stream \in Text /\ pos \in 0 .. Len(stream) /\ 0 \in 0 .. Len(stream)
    <3>1. Len(stream) \in Nat
        BY <2>2 DEF Places, Text
    <3> QED BY <2>2, <3>1 DEF Places
  <2>4. Needed(r) \in Nat
    <3>1. HeadOf(r) \in Nat
        BY <2>1, <2>3, StandsIs
    <3> QED BY <3>1 DEF Needed
  <2>5. posted # <<>> => pos >= Needed(r)
      BY <2>1, <2>2 DEF ServerReads
  <2>6. ASSUME posted = <<>> PROVE pos < Needed(r)
    <3>1. begin = 0
        BY <2>2, <2>6 DEF ServerReads
    <3>2. Waiting(r, Rest(stream, 0 + HeadOf(r)), parser, Rest(stream, pos))
        BY <2>1, <2>2, <3>1 DEF ServerReads
    <3> QED BY <2>1, <2>3, <3>2, NotNeeded
  <2>7. pos < Len(stream) /\ posted = <<>> => link = "open"
      BY <2>1, <2>2 DEF ServerReads
  <2> QED BY <2>3, <2>4, <2>5, <2>6, <2>7
<1> QED BY <1>1, ParseInvariance, PTL

\* The client is done with the piece that holds the last character of the
\* response, never before, and has its code and all of its body, however it was
\* cut into pieces (CHttpClientLink::parseStream).
THEOREM ResponsesWhole == Spec => []ResponseWhole
<1>1. ParseIInv => ResponseWhole
  <2> SUFFICES ASSUME ParseIInv, role = "client" PROVE
               /\ (pos = Len(stream)) <=> (posted # <<>>)
               /\ posted # <<>> => parser.result = 1
               /\ \A r \in Responses :
                      stream = ResponseStream(r) /\ posted # <<>> =>
                          parser.content = r.body /\ parser.rCode = r.code
      BY DEF ResponseWhole
  <2>1. Places /\ ClientReads(stream, pos, link, parser, posted)
      BY DEF ParseIInv
  <2>2. posted # <<>> <=> parser.result = 1
      BY <2>1 DEF ClientReads
  <2>3. PICK a \in Responses : stream = ResponseStream(a)
      BY <2>1 DEF ClientReads
  <2>4. stream \in Text /\ pos \in 0 .. Len(stream) /\ Len(stream) \in Nat
    <3>1. stream \in Text /\ Len(stream) \in Nat
        BY <2>1 DEF Places, Text
    <3> QED BY <2>1, <3>1 DEF Places
  <2>5. Rest(stream, pos) \in Text /\ Len(Rest(stream, pos)) = Len(stream) - pos
      BY <2>4, RestIs
  <2>6. ASSUME NEW r \in Responses, stream = ResponseStream(r), posted # <<>>
        PROVE  parser.content = r.body /\ parser.rCode = r.code /\ Rest(stream, pos) = <<>>
    <3>1. Answering(r, parser, Rest(stream, pos)) /\ parser.result = 1
        BY <2>1, <2>2, <2>6 DEF ClientReads, Answered
    <3>2. Whole(r, parser, Rest(stream, pos))
        BY <3>1 DEF Answering
    <3> QED BY <3>2 DEF Whole, Status
  <2>7. posted # <<>> => pos = Len(stream)
      BY <2>3, <2>4, <2>5, <2>6, EmptyText
  <2>8. ASSUME posted = <<>> PROVE pos # Len(stream)
    <3>1. Answered(a, parser, Rest(stream, pos))
        BY <2>1, <2>3 DEF ClientReads
    <3>2. parser.result = 0
        BY <2>2, <2>8, <3>1 DEF Answered, Answering
    <3>3. Rest(stream, pos) # <<>>
        BY <3>1, <3>2 DEF Answered
    <3>4. Len(Rest(stream, pos)) # 0
        BY <2>5, <3>3, EmptySeq DEF Text
    <3> QED BY <2>4, <2>5, <3>4
  <2> QED BY <2>2, <2>6, <2>7, <2>8
<1> QED BY <1>1, ParseInvariance, PTL
=============================================================================
