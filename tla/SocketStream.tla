---------------------------- MODULE SocketStream ----------------------------
(***************************************************************************)
(* Two CSockets (socket.C) at the ends of a TCP connection, one sending,   *)
(* one receiving.  A code is packed behind a delimiter and its length when *)
(* the sockets look for heads, and sent as it is otherwise.  What send()   *)
(* does not take is kept in the send buffer and goes out before the next   *)
(* code; the receiver looks for whole codes in what has arrived so far.    *)
(*                                                                         *)
(* Bytes are numbers.  The delimiter 0 255 255 255 255 255 255 0 is scaled *)
(* to 0 255 255 0 and the four bytes of the length to one.  The connection *)
(* delivers in order and without loss while it is up; it may break, and    *)
(* the sender then connects again, with or without clearing its buffers.   *)
(***************************************************************************)
EXTENDS StreamBuffer, FiniteSets, SequencesExt

CONSTANTS Reserve,      \* MaxEmergencyLength: kept free for emergency codes
          SendLimits,   \* values m_socketSendBufSize may have
          DirectLength, \* length of a code sent without a head
          MaxSends,     \* bound: calls of sendCode
          MaxConnects   \* bound: calls of reConnect

ZERO == 0
ONE == 255
Ones == 2               \* ONE bytes in the delimiter
HeadLength == Ones + 3  \* the delimiter and the length

ASSUME ReserveAssumption ==
    /\ Reserve \in 0 .. Size
    /\ HeadLength + 2 <= Size - Reserve     \* a code fits in an empty buffer
    /\ DirectLength \in 1 .. Size - Reserve
    /\ SendLimits \subseteq Nat

VARIABLES
    needHead,           \* m_bIsNeedFindHead, at both ends
    limit,              \* m_socketSendBufSize
    conn,               \* "open", "broken" (peer or line gone), "closed"
    sbuf,               \* the sender's pSendMsgBuf
    needSelect,         \* b_writeNeedSelect
    wire,               \* all that send() took on this connection
    taken,              \* how much of it the receiver has read
    rbuf,               \* the receiver's pRecvMsgBuf
    hasMessage,         \* recvBufHasMessage
    calls, connects,    \* counters for the bounds
    rest,               \* history: end of a code that an earlier connection began
    promised,           \* history: codes accepted on this connection
    received,           \* history: what recvCode returned on it
    harm                \* history: "repeat", "cut", "twice": see the actions

sender == <<conn, sbuf, needSelect, wire, calls, connects, rest, promised, harm>>
receiver == <<taken, rbuf, hasMessage, received>>
vars == <<needHead, limit, sender, receiver>>

\* The contents a caller may give: the number of the call marks them.
Content == IF needHead THEN {<<calls + 1>>, <<calls + 1, ZERO>>}
                       ELSE {[i \in 1 .. DirectLength |-> calls + 1]}

Packed(content) ==
    <<ZERO>> \o [i \in 1 .. Ones |-> ONE] \o <<ZERO, Len(content)>> \o content

pack(content) == IF needHead THEN Packed(content) ELSE content

Codes(contents) == FlattenSeq([i \in DOMAIN contents |-> pack(contents[i])])

Init ==
    /\ needHead \in BOOLEAN
    /\ limit \in SendLimits
    /\ conn = "open"
    /\ sbuf = EmptyBuffer /\ rbuf = EmptyBuffer
    /\ needSelect = FALSE /\ hasMessage = FALSE
    /\ wire = <<>> /\ taken = 0
    /\ calls = 0 /\ connects = 0
    /\ rest = <<>> /\ promised = <<>> /\ received = <<>>
    /\ harm = {}

-----------------------------------------------------------------------------
(* Sending.  One call of sendCode is one step of its thread; what differs  *)
(* is how much send() takes and whether select() finds the socket ready.   *)

\* The comparison is one of unsigned numbers: with less free than Reserve
\* the right-hand side is huge, and everything fits.
Fits(b, code) == freeLength(b) < Reserve \/ Len(code) <= freeLength(b) - Reserve

\* backupToSendBuff: what it returns and the buffer it leaves.
backupToSendBuff(b, code, urgent) ==
    LET stored == Fits(b, code) \/ (urgent /\ Len(code) <= freeLength(b))
    IN  [result |-> IF stored THEN -2 ELSE -5,
         buf    |-> IF stored THEN writeIntoBuffer(b, code) ELSE b,
         harm   |-> IF stored /\ Len(code) > freeLength(b) THEN {"cut"} ELSE {}]

\* sendCode returns; -2 makes the next call ask select() first.
Return(content, result, buf, sent, asked, harms) ==
    /\ sbuf' = buf
    /\ wire' = wire \o sent
    /\ needSelect' = (result = -2 \/ (needSelect /\ ~asked))
    /\ promised' = IF result \in {1, -2} THEN Append(promised, content) ELSE promised
    /\ harm' = harm \cup harms
    /\ calls' = calls + 1
    /\ UNCHANGED <<conn, connects, rest>>

Backup(content, b, from, urgent, sent, asked, harms) ==
    LET kept == backupToSendBuff(b, SubSeq(pack(content), from, Len(pack(content))), urgent)
    IN  Return(content, kept.result, kept.buf, sent, asked, harms \cup kept.harm)

\* Variant with a fault: the part that was sent is kept too.
Direct_Whole(content, b, urgent, sent, asked) ==
    \E k \in 0 .. Len(pack(content)) :
        IF k = Len(pack(content))
        THEN Return(content, 1, b, sent \o pack(content), asked, {})
        ELSE Backup(content, b, 1, urgent, sent \o SubSeq(pack(content), 1, k), asked, {})

\* Nothing is left to send: send() takes k bytes of the code, the others
\* are kept.
Direct(content, b, urgent, sent, asked) ==
    \E k \in 0 .. Len(pack(content)) :
        IF k = Len(pack(content))
        THEN Return(content, 1, b, sent \o pack(content), asked, {})
        ELSE Backup(content, b, k + 1, urgent, sent \o SubSeq(pack(content), 1, k), asked, {})

\* sendUnsentCode: what was left goes out first, at most limit bytes.
sendUnsentCode(content, urgent) ==
    LET n == Least(limit, sbuf.filled)
    IN  \E k \in 0 .. n :
            LET sent == SubSeq(Contents(sbuf), 1, k)
                left == readFromBuffer(sbuf, n, k)
                harms == IF Repeats(sbuf, n, k) THEN {"repeat"} ELSE {}
                once == backupToSendBuff(left, pack(content), urgent)
            IN  \* All is out: the code itself.
                \/ /\ k = n /\ left.filled = 0
                   /\ Direct(content, left, urgent, sent, TRUE)
                \* The limit was less than the buffer held: kept here, and
                \* a second time by sendMessage.
                \/ /\ k = n /\ left.filled > 0 /\ once.result = -2
                   /\ Backup(content, once.buf, 1, urgent, sent, TRUE, {"twice"} \cup once.harm)
                \/ /\ k = n /\ left.filled > 0 /\ once.result = -5
                   /\ Return(content, -5, left, sent, TRUE, {})
                \* An empty first call and a blocked second: taken for a
                \* closed connection.
                \/ /\ k = 0 /\ n > 0 /\ FirstCall(sbuf, n) = 0
                   /\ Return(content, 0, sbuf, <<>>, TRUE, {})
                \* A part is out, or nothing.
                \/ /\ k < n /\ (k > 0 \/ FirstCall(sbuf, n) > 0)
                   /\ Backup(content, left, 1, urgent, sent, TRUE, harms)

sendMessage(content, urgent) ==
    \* No socket.
    \/ /\ conn = "closed"
       /\ Return(content, 0, sbuf, <<>>, FALSE, {})
    \* EPIPE or ECONNRESET; select() finds such a socket ready.
    \/ /\ conn = "broken"
       /\ Return(content, -9, sbuf, <<>>, sbuf.filled > 0, {})
    \/ /\ conn = "open" /\ sbuf.filled = 0
       /\ Direct(content, sbuf, urgent, <<>>, FALSE)
    \* preSendProcess: select() says not ready.
    \/ /\ conn = "open" /\ sbuf.filled > 0 /\ needSelect
       /\ Backup(content, sbuf, 1, urgent, <<>>, FALSE, {})
    \/ /\ conn = "open" /\ sbuf.filled > 0
       /\ sendUnsentCode(content, urgent)

\* pack() does not copy the emergency flag into the packet.
sendCode ==
    /\ calls < MaxSends
    /\ \E content \in Content, urgent \in BOOLEAN :
           /\ urgent => ~needHead
           /\ sendMessage(content, urgent)
    /\ UNCHANGED <<needHead, limit, receiver>>

-----------------------------------------------------------------------------
(* The connection.                                                         *)

Break ==
    /\ conn = "open" /\ connects < MaxConnects
    /\ conn' = "broken"
    /\ UNCHANGED <<needHead, limit, sbuf, needSelect, wire, calls, connects, rest,
                   promised, harm, receiver>>

\* clearBuffer(), and no socket.
closeSocketConnection ==
    /\ conn = "broken"
    /\ conn' = "closed"
    /\ sbuf' = EmptyBuffer
    /\ UNCHANGED <<needHead, limit, needSelect, wire, calls, connects, rest, promised,
                   harm, receiver>>

\* The codes that are still in the send buffer from their first byte on.
StillWhole ==
    LET Kept(i) == SubSeq(promised, i, Len(promised))
        whole == {i \in 1 .. Len(promised) + 1 : Len(Codes(Kept(i))) <= sbuf.filled}
    IN  Kept(CHOOSE i \in whole : \A j \in whole : i <= j)

\* reConnect: the send buffer is not touched.  At the other end the socket
\* is a new one, or the old one after closeSocketConnection, which does not
\* reset recvBufHasMessage.
reConnect ==
    /\ conn \in {"broken", "closed"} /\ connects < MaxConnects
    /\ connects' = connects + 1
    /\ \/ /\ conn' = "closed"                   \* openClientResult < 0
          /\ UNCHANGED <<needSelect, wire, rest, promised, receiver>>
       \/ /\ conn' = "open"
          /\ needSelect' = FALSE
          /\ wire' = <<>> /\ taken' = 0
          /\ rbuf' = EmptyBuffer
          /\ hasMessage' \in {hasMessage, FALSE}
          /\ promised' = StillWhole
          /\ rest' = SubSeq(Contents(sbuf), 1, sbuf.filled - Len(Codes(StillWhole)))
          /\ received' = <<>>
    /\ UNCHANGED <<needHead, limit, sbuf, calls, harm>>

-----------------------------------------------------------------------------
(* Receiving.  _readFromBuff walks over the bytes with a state machine and *)
(* a count of the bytes of a head still missing; it stops when no more     *)
(* than that are left.                                                     *)

StartWalk == [state |-> "Wait", need |-> HeadLength, read |-> 0, code |-> <<>>]

Seek(w, b) ==
    CASE w.state = "Wait" /\ b = ZERO                    -> <<"Begin", w.need - 1>>
      [] w.state = "Begin" /\ b = ONE                    -> <<"Appear", w.need - 1>>
      [] w.state = "Begin" /\ b = ZERO                   -> <<"Begin", w.need>>
      [] w.state = "Appear" /\ b = ZERO                  -> <<"Begin", HeadLength - 1>>
      [] w.state = "Appear" /\ b = ONE /\ w.need - 1 = 2 -> <<"Prepare", w.need - 1>>
      [] w.state = "Appear" /\ b = ONE /\ w.need - 1 # 2 -> <<"Appear", w.need - 1>>
      [] w.state = "Prepare" /\ b = ZERO                 -> <<"Found", w.need>>
      [] OTHER                                           -> <<"Wait", HeadLength>>

\* Variant with a fault: the head is done with before its code is here.
Take_HeadDone(bytes, at) ==
    LET length == bytes[at + 1]
    IN  IF length > Len(bytes) - (at + 1)
        THEN [state |-> "End", need |-> HeadLength, read |-> at + 1, code |-> <<>>]
        ELSE [state |-> "End", need |-> HeadLength, read |-> at + 1 + length,
              code |-> SubSeq(bytes, at + 2, at + 1 + length)]

\* Behind the delimiter: the length, and then the code if all of it is here.
Take(bytes, at) ==
    LET length == bytes[at + 1]
    IN  IF length > Len(bytes) - (at + 1)
        THEN [state |-> "End", need |-> HeadLength, read |-> at + 1 - HeadLength, code |-> <<>>]
        ELSE [state |-> "End", need |-> HeadLength, read |-> at + 1 + length,
              code |-> SubSeq(bytes, at + 2, at + 1 + length)]

\* One more byte of the walk.
Walk(bytes, w, b) ==
    LET next == Seek(w, b)
    IN  IF w.state = "End" \/ Len(bytes) - w.read <= w.need THEN w
        ELSE IF next[1] = "Found" THEN Take(bytes, w.read + 1)
        ELSE [w EXCEPT !.state = next[1], !.need = next[2], !.read = @ + 1]

\* The code found, if any, and the bytes done with.
_readFromBuff(bytes) ==
    LET walk[i \in 0 .. Len(bytes)] ==
            IF i = 0 THEN StartWalk ELSE Walk(bytes, walk[i - 1], bytes[i])
        w == walk[Len(bytes)]
    IN  [code |-> w.code, used |-> w.read - (HeadLength - w.need)]

\* Variant with a fault: one code from what is read at a time.
Deliver_Once(b) ==
    LET found == _readFromBuff(Contents(b))
        left == Pop(b, b.filled, found.used)
    IN  /\ received' = IF found.code # <<>> THEN Append(received, found.code) ELSE received
        /\ hasMessage' = FALSE
        /\ rbuf' = rearrange(left)

\* A code is handed out and the next call looks at the rest; without one,
\* the next call reads from the socket, behind what is kept.
Deliver(b) ==
    LET found == _readFromBuff(Contents(b))
        left == Pop(b, b.filled, found.used)
    IN  IF found.code # <<>>
        THEN /\ received' = Append(received, found.code)
             /\ hasMessage' = (left.filled # 0)
             /\ rbuf' = left
        ELSE /\ hasMessage' = FALSE
             /\ rbuf' = rearrange(left)
             /\ UNCHANGED received

Arrived(n) == SubSeq(wire, taken + 1, taken + n)

recvCodeByFindHead ==
    \/ /\ ~hasMessage
       /\ \E n \in 1 .. Least(Len(wire) - taken, freeLength(rbuf)) :
              /\ Deliver(writeIntoBuffer(rbuf, Arrived(n)))
              /\ taken' = taken + n
    \/ /\ hasMessage
       /\ Deliver(rbuf)
       /\ UNCHANGED taken

\* Without heads: what has arrived is what was sent, in pieces.
recvCodeDirect ==
    /\ \E n \in 1 .. Len(wire) - taken :
           /\ received' = received \o Arrived(n)
           /\ taken' = taken + n
    /\ UNCHANGED <<rbuf, hasMessage>>

\* What the receiver makes of a stream that is already damaged is not
\* followed.
recvCode ==
    /\ harm = {}
    /\ IF needHead THEN recvCodeByFindHead ELSE recvCodeDirect
    /\ UNCHANGED <<needHead, limit, sender>>

Next == sendCode \/ Break \/ closeSocketConnection \/ reConnect \/ recvCode

Spec == Init /\ [][Next]_vars

-----------------------------------------------------------------------------
(* Properties.                                                             *)

\* The types, and the pointers and lengths of both buffers agree; bytes are
\* read from the socket only behind a buffer that starts at its beginning.
TypeOK ==
    /\ conn \in {"open", "broken", "closed"}
    /\ BufferOK(sbuf) /\ BufferOK(rbuf)
    /\ taken \in 0 .. Len(wire)
    /\ ~hasMessage => rbuf.head = 0
    /\ harm \subseteq {"repeat", "cut", "twice"}

\* Whatever part of each code send() takes and however often the socket is
\* not ready, the bytes on the connection followed by the bytes in the send
\* buffer are the accepted codes one after the other: none lost, none twice
\* (sendMessage, backupToSendBuff), but for the three accidents recorded in
\* harm: a second send() that blocks, the unsigned comparison, a limit below
\* what is buffered.
WireAccounted ==
    harm = {} /\ conn # "closed" => wire \o Contents(sbuf) = rest \o Codes(promised)

\* However the stream is cut into reads, the receiver returns the accepted
\* codes, whole and in order; the end of a code left over from an earlier
\* connection is skipped without harm to the codes behind it
\* (_readFromBuff, recvCodeByFindHead).
FramesIntact ==
    harm = {} => IF needHead THEN IsPrefix(received, promised)
                             ELSE IsPrefix(received, rest \o Codes(promised))

\* When recvCode is going to wait for the socket there is no whole code in
\* its buffer: what was read is handed out before more is needed
\* (recvBufHasMessage, hasBufferedCode).
NothingLeftBehind ==
    harm = {} /\ needHead /\ ~hasMessage /\ Len(received) < Len(promised)
        => taken < Len(rest) + Len(Codes(SubSeq(promised, 1, Len(received) + 1)))
=============================================================================
