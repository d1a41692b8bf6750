---------------------------- MODULE StreamBuffer ----------------------------
(***************************************************************************)
(* TBuffer (unibuffer.h): the ring of bytes behind a stream socket.  The   *)
(* four pointers and two lengths of the class become the place of the head *)
(* and the tail, counted from msgBuf, and the filled length: the code      *)
(* keeps m_freeLength = m_size - m_filledLength.  The two master functions *)
(* that move the bytes are the copy into a send buffer and send(), out of  *)
(* it; send() may take fewer bytes than it was given.  A cell that was     *)
(* popped holds Blank: no caller looks at it again.                        *)
(***************************************************************************)
EXTENDS Integers, Sequences

CONSTANTS Size,         \* m_size, in bytes
          Blank         \* what a free cell holds

ASSUME SizeAssumption == Size \in Nat \ {0} /\ Blank \notin Nat

Least(a, b) == IF a < b THEN a ELSE b

EmptyBuffer ==
    [cell |-> [i \in 0 .. Size - 1 |-> Blank], head |-> 0, tail |-> 0, filled |-> 0]

freeLength(b) == Size - b.filled

\* The bytes from the head on, past the end of the memory to its beginning.
Contents(b) == [i \in 1 .. b.filled |-> b.cell[(b.head + i - 1) % Size]]

\* The places of n bytes from a place on.
Places(from, n) == {(from + i) % Size : i \in 0 .. n - 1}

\* rearrange(): the bytes are moved to the beginning of the memory.
rearrange(b) ==
    [cell   |-> [i \in 0 .. Size - 1 |-> IF i < b.filled THEN Contents(b)[i + 1] ELSE Blank],
     head   |-> 0,
     tail   |-> b.filled,
     filled |-> b.filled]

-----------------------------------------------------------------------------
(* writeIntoBuffer: what does not fit is left out.                         *)

\* Variant with a fault: the tail is not taken back to the beginning.
TailAfter_NoWrap(b, n) == b.tail + n

\* Bytes that reach the end of the memory go on at its beginning.  A tail
\* that is exactly at the end stays there until the next write.
TailAfter(b, n) ==
    IF b.head > b.tail \/ n <= Size - b.tail THEN b.tail + n ELSE b.tail + n - Size

writeIntoBuffer(b, bytes) ==
    LET n == Least(Len(bytes), freeLength(b))
    IN  [cell   |-> [i \in 0 .. Size - 1 |->
                        IF i \in Places(b.tail, n)
                        THEN bytes[((i - b.tail) % Size) + 1] ELSE b.cell[i]],
         head   |-> b.head,
         tail   |-> IF n = 0 THEN b.tail ELSE TailAfter(b, n),
         filled |-> b.filled + n]

-----------------------------------------------------------------------------
(* readFromBuffer: n bytes are offered to the master function, in two calls*)
(* when they pass the end of the memory.                                   *)

\* The length of the first call.
FirstCall(b, n) == IF b.head < b.tail \/ n <= Size - b.head THEN n ELSE Size - b.head

\* The head after k bytes out of two calls: the second starts at msgBuf.
HeadAfter(b, n, k) ==
    IF k <= FirstCall(b, n) THEN b.head + k ELSE k - FirstCall(b, n)

\* k bytes were taken; an empty buffer starts over at the beginning.
Pop(b, n, k) ==
    IF k = b.filled THEN EmptyBuffer
    ELSE [cell   |-> [i \in 0 .. Size - 1 |->
                        IF i \in Places(b.head, k) THEN Blank ELSE b.cell[i]],
          head   |-> HeadAfter(b, n, k),
          tail   |-> b.tail,
          filled |-> b.filled - k]

\* The bytes of the first call are taken out only together with some of the
\* second: when the second call takes none, they stay, and go out again.
Repeats(b, n, k) == k > 0 /\ k < n /\ k = FirstCall(b, n)

readFromBuffer(b, n, k) == IF Repeats(b, n, k) THEN b ELSE Pop(b, n, k)

-----------------------------------------------------------------------------
(* The pointers and lengths agree with each other.                         *)

BufferOK(b) ==
    /\ b.head \in 0 .. Size /\ b.tail \in 0 .. Size
    /\ b.filled \in 0 .. Size
    /\ (b.tail - b.head - b.filled) % Size = 0
    /\ b.filled = 0 => b.head = 0 /\ b.tail = 0
    /\ \A i \in 0 .. Size - 1 : b.cell[i] = Blank <=> i \notin Places(b.head, b.filled)
=============================================================================
