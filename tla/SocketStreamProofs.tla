------------------------- MODULE SocketStreamProofs -------------------------
(***************************************************************************)
(* Proofs about the ring of bytes behind a socket and about SocketStream,  *)
(* for buffers of any size, any reserve, any limits of send() and any      *)
(* number of calls.                                                        *)
(***************************************************************************)
EXTENDS SocketStream, SequenceLemmas

-----------------------------------------------------------------------------
(* The ring of bytes.                                                      *)

Cell == Nat \union {Blank}
BufferRec == [cell : [0 .. Size - 1 -> Cell], head : 0 .. Size, tail : 0 .. Size,
              filled : 0 .. Size]

\* A place counted past the end of the memory.
Wrap(x) == IF x < Size THEN x ELSE x - Size

\* The j-th byte from the head on, counted from 0, is at a place of its own,
\* and the tail is behind the last of them.  Head and tail may both be at the
\* end of the memory instead of its beginning.
Linked(b) ==
    /\ b.tail - b.head - b.filled \in {-2 * Size, -Size, 0, Size}
    /\ b.filled = 0 => b.head = 0 /\ b.tail = 0

Holds(b, i) == \E j \in 0 .. b.filled - 1 : i = Wrap(b.head + j)

Sound(b) == /\ b \in BufferRec
            /\ Linked(b)
            /\ \A i \in 0 .. Size - 1 : b.cell[i] # Blank <=> Holds(b, i)

LEMMA WrapIs ==
    /\ \A x \in 0 .. 2 * Size - 1 : x % Size = Wrap(x) /\ Wrap(x) \in 0 .. Size - 1
    /\ \A x \in -Size .. -1 : x % Size = x + Size
BY SizeAssumption DEF Wrap

LEMMA WrapApart ==
    ASSUME NEW h \in 0 .. Size, NEW i \in 0 .. Size - 1, NEW k \in 0 .. Size - 1, i # k
    PROVE  Wrap(h + i) # Wrap(h + k)
<1>1. /\ h \in Nat /\ h <= Size /\ i \in Nat /\ i < Size /\ k \in Nat /\ k < Size
      /\ Size \in Nat
    BY SizeAssumption
<1> QED BY <1>1 DEF Wrap

\* The places of n bytes.
LEMMA PlacesAre ==
    ASSUME NEW h \in 0 .. Size, NEW n \in 0 .. Size
    PROVE  Places(h, n) = {Wrap(h + j) : j \in 0 .. n - 1}
<1>1. \A j \in 0 .. n - 1 : h + j \in 0 .. 2 * Size - 1
    BY SizeAssumption
<1> QED BY <1>1, WrapIs DEF Places

\* What type correctness says of a buffer.
LEMMA SoundOK == ASSUME NEW b, Sound(b) PROVE BufferOK(b)
<1>1. /\ b.head \in 0 .. Size /\ b.tail \in 0 .. Size /\ b.filled \in 0 .. Size
      /\ b.cell \in [0 .. Size - 1 -> Cell]
    BY DEF Sound, BufferRec
<1>2. (b.tail - b.head - b.filled) % Size = 0
  <2>1. b.tail - b.head - b.filled \in {-2 * Size, -Size, 0, Size}
      BY DEF Sound, Linked
  <2>2. (-2 * Size) % Size = 0 /\ (-Size) % Size = 0 /\ 0 % Size = 0 /\ Size % Size = 0
      BY SizeAssumption
  <2> QED BY <2>1, <2>2
<1>3. \A i \in 0 .. Size - 1 : b.cell[i] = Blank <=> i \notin Places(b.head, b.filled)
  <2>1. Places(b.head, b.filled) = {Wrap(b.head + j) : j \in 0 .. b.filled - 1}
      BY <1>1, PlacesAre
  <2> QED BY <2>1 DEF Sound, Holds
<1>4. b.filled = 0 => b.head = 0 /\ b.tail = 0
    BY DEF Sound, Linked
<1> QED BY <1>1, <1>2, <1>3, <1>4 DEF BufferOK

\* The bytes in a buffer.
LEMMA ContentsAre ==
    ASSUME NEW b, Sound(b)
    PROVE  /\ Contents(b) \in Seq(Nat) /\ Len(Contents(b)) = b.filled
           /\ b.filled \in 0 .. Size
           /\ \A j \in 0 .. b.filled - 1 :
                 /\ Contents(b)[j + 1] = b.cell[Wrap(b.head + j)]
                 /\ Wrap(b.head + j) \in 0 .. Size - 1
<1>1. /\ b.head \in 0 .. Size /\ b.filled \in 0 .. Size
      /\ b.cell \in [0 .. Size - 1 -> Cell]
    BY DEF Sound, BufferRec
<1>2. ASSUME NEW j \in 0 .. b.filled - 1
      PROVE  /\ b.head + j \in 0 .. 2 * Size - 1
             /\ Wrap(b.head + j) \in 0 .. Size - 1
             /\ (b.head + j) % Size = Wrap(b.head + j)
  <2>1. b.head + j \in 0 .. 2 * Size - 1
      BY <1>1, SizeAssumption
  <2> QED BY <2>1, WrapIs
<1>3. ASSUME NEW j \in 0 .. b.filled - 1
      PROVE  b.cell[Wrap(b.head + j)] \in Nat
  <2>1. Holds(b, Wrap(b.head + j))
      BY DEF Holds
  <2>2. b.cell[Wrap(b.head + j)] # Blank
      BY <1>2, <2>1 DEF Sound
  <2> QED BY <1>1, <1>2, <2>2 DEF Cell
<1>4. ASSUME NEW i \in 1 .. b.filled
      PROVE  /\ i - 1 \in 0 .. b.filled - 1 /\ (i - 1) + 1 = i
             /\ b.head + i - 1 = b.head + (i - 1)
    BY <1>1
<1>5. Contents(b) = [i \in 1 .. b.filled |-> b.cell[Wrap(b.head + (i - 1))]]
    BY <1>2, <1>4 DEF Contents
<1>6. \A i \in 1 .. b.filled : b.cell[Wrap(b.head + (i - 1))] \in Nat
    BY <1>3, <1>4
<1>7. Contents(b) \in Seq(Nat) /\ Len(Contents(b)) = b.filled
    BY <1>1, <1>5, <1>6
<1>8. \A j \in 0 .. b.filled - 1 : Contents(b)[j + 1] = b.cell[Wrap(b.head + j)]
  <2> SUFFICES ASSUME NEW j \in 0 .. b.filled - 1
               PROVE  Contents(b)[j + 1] = b.cell[Wrap(b.head + j)]
      OBVIOUS
  <2>1. j + 1 \in 1 .. b.filled /\ (j + 1) - 1 = j
      BY <1>1
  <2> QED BY <1>5, <2>1
<1> QED BY <1>1, <1>2, <1>7, <1>8

LEMMA EmptySound ==
    Sound(EmptyBuffer) /\ Contents(EmptyBuffer) = <<>> /\ EmptyBuffer.filled = 0
    /\ EmptyBuffer.head = 0
<1>1. EmptyBuffer \in BufferRec
    BY SizeAssumption DEF EmptyBuffer, BufferRec, Cell
<1>2. /\ EmptyBuffer.filled = 0 /\ EmptyBuffer.head = 0 /\ EmptyBuffer.tail = 0
      /\ \A i \in 0 .. Size - 1 : EmptyBuffer.cell[i] = Blank
    BY DEF EmptyBuffer
<1>3. Linked(EmptyBuffer)
    BY <1>2, SizeAssumption DEF Linked
<1>4. Sound(EmptyBuffer)
    BY <1>1, <1>2, <1>3 DEF Sound, Holds
<1>5. Contents(EmptyBuffer) \in Seq(Nat) /\ Len(Contents(EmptyBuffer)) = 0
    BY <1>2, <1>4, ContentsAre
<1> QED BY <1>2, <1>4, <1>5, EmptySeq

\* Where the tail is, and where it goes.
LEMMA TailIs ==
    ASSUME NEW b, Sound(b), NEW n \in 0 .. Size - b.filled
    PROVE  /\ \A j \in 0 .. n - 1 : Wrap(b.tail + j) = Wrap(b.head + (b.filled + j))
           /\ n > 0 => /\ TailAfter(b, n) \in 0 .. Size
                       /\ TailAfter(b, n) - b.head - (b.filled + n)
                             \in {-2 * Size, -Size, 0, Size}
<1>1. /\ b.head \in 0 .. Size /\ b.tail \in 0 .. Size /\ b.filled \in 0 .. Size
      /\ b.tail - b.head - b.filled \in {-2 * Size, -Size, 0, Size}
      /\ b.filled = 0 => b.head = 0 /\ b.tail = 0
      /\ Size \in Nat \ {0} /\ n \in Nat /\ n <= Size - b.filled
    BY SizeAssumption DEF Sound, BufferRec, Linked
<1>2. \/ b.tail = b.head + b.filled
      \/ b.tail = b.head + b.filled - Size
      \/ b.tail = b.head + b.filled - 2 * Size
    BY <1>1
<1>3. \A j \in 0 .. n - 1 : Wrap(b.tail + j) = Wrap(b.head + (b.filled + j))
  <2> SUFFICES ASSUME NEW j \in 0 .. n - 1
               PROVE  Wrap(b.tail + j) = Wrap(b.head + (b.filled + j))
      OBVIOUS
  <2> QED BY <1>1, <1>2 DEF Wrap
<1>4. ASSUME n > 0
      PROVE  /\ TailAfter(b, n) \in 0 .. Size
             /\ TailAfter(b, n) - b.head - (b.filled + n) \in {-2 * Size, -Size, 0, Size}
    BY <1>1, <1>2, <1>4 DEF TailAfter
<1> QED BY <1>3, <1>4

\* Bytes behind the others: as many as there is room for.
Stored(w, b, bytes, n) ==
    /\ Sound(w) /\ w.filled = b.filled + n /\ w.head = b.head
    /\ Contents(w) = Contents(b) \o SubSeq(bytes, 1, n)

LEMMA Written ==
    ASSUME NEW b, Sound(b), NEW bytes \in Seq(Nat), NEW n,
           n = Least(Len(bytes), freeLength(b))
    PROVE  Stored(writeIntoBuffer(b, bytes), b, bytes, n)
<1> DEFINE w == writeIntoBuffer(b, bytes)
<1>1. /\ b.head \in 0 .. Size /\ b.tail \in 0 .. Size /\ b.filled \in 0 .. Size
      /\ b.cell \in [0 .. Size - 1 -> Cell]
      /\ Size \in Nat \ {0}
    BY SizeAssumption DEF Sound, BufferRec
<1>2. n \in 0 .. Len(bytes) /\ n \in 0 .. Size - b.filled /\ n \in 0 .. Size
  <2>1. Len(bytes) \in Nat
      OBVIOUS
  <2> QED BY <1>1, <2>1 DEF Least, freeLength
<1>15. /\ b.filled \in Nat /\ n \in Nat /\ b.filled + n <= Size
       /\ b.head \in Nat /\ b.head <= Size /\ Size \in Nat \ {0}
    BY <1>1, <1>2
<1>3. /\ w.cell = [i \in 0 .. Size - 1 |->
                      IF i \in Places(b.tail, n)
                      THEN bytes[((i - b.tail) % Size) + 1] ELSE b.cell[i]]
      /\ w.head = b.head
      /\ w.tail = IF n = 0 THEN b.tail ELSE TailAfter(b, n)
      /\ w.filled = b.filled + n
      /\ w = [cell |-> w.cell, head |-> w.head, tail |-> w.tail, filled |-> w.filled]
    BY DEF writeIntoBuffer
<1> HIDE DEF w
<1>16. w.head = b.head /\ w.filled = b.filled + n
    BY <1>3
<1>4. \A j \in 0 .. n - 1 : b.tail + j \in 0 .. 2 * Size - 1
  <2> DEFINE t == b.tail
             f == b.filled
  <2>1. t \in 0 .. Size /\ n \in Nat /\ n <= Size /\ Size \in Nat \ {0}
    <3>1. f \in 0 .. Size /\ t \in 0 .. Size /\ Size \in Nat \ {0} /\ n \in 0 .. Size - f
        BY <1>1, <1>2
    <3> HIDE DEF t, f
    <3> QED BY <3>1
  <2> HIDE DEF t
  <2>2. \A j \in 0 .. n - 1 : t + j \in 0 .. 2 * Size - 1
      BY <2>1
  <2> QED BY <2>2 DEF t
<1>5. ASSUME NEW j \in 0 .. n - 1
      PROVE  /\ Wrap(b.tail + j) \in 0 .. Size - 1
             /\ Wrap(b.tail + j) \in Places(b.tail, n)
             /\ (Wrap(b.tail + j) - b.tail) % Size = j
  <2>1. Wrap(b.tail + j) \in 0 .. Size - 1
      BY <1>4, WrapIs
  <2>2. Wrap(b.tail + j) \in Places(b.tail, n)
      BY <1>1, <1>2, PlacesAre
  <2>3. (Wrap(b.tail + j) - b.tail) % Size = j
    <3>1. j \in 0 .. Size - 1
        BY <1>1, <1>2
    <3>2. CASE b.tail + j < Size
      <4>1. Wrap(b.tail + j) - b.tail = j /\ j \in 0 .. 2 * Size - 1 /\ Wrap(j) = j
          BY <1>1, <3>1, <3>2 DEF Wrap
      <4> QED BY <4>1, WrapIs
    <3>3. CASE ~(b.tail + j < Size)
      <4>1. /\ Wrap(b.tail + j) - b.tail = j - Size
            /\ j - Size \in -Size .. -1 /\ j - Size + Size = j
          BY <1>1, <3>1, <3>3 DEF Wrap
      <4> QED BY <4>1, WrapIs
    <3> QED BY <3>2, <3>3
  <2> QED BY <2>1, <2>2, <2>3
<1>6. \A j \in 0 .. n - 1 : w.cell[Wrap(b.tail + j)] = bytes[j + 1]
    BY <1>3, <1>5
<1>7. \A j \in 0 .. n - 1 : bytes[j + 1] \in Nat
  <2> SUFFICES ASSUME NEW j \in 0 .. n - 1 PROVE bytes[j + 1] \in Nat
      OBVIOUS
  <2>1. j + 1 \in 1 .. Len(bytes)
      BY <1>2
  <2> QED BY <2>1, ElementOfSeq
<1>8. ASSUME NEW i \in 0 .. Size - 1
      PROVE  \/ \E j \in 0 .. n - 1 : i = Wrap(b.tail + j)
             \/ /\ \A j \in 0 .. n - 1 : i # Wrap(b.tail + j)
                /\ w.cell[i] = b.cell[i]
  <2>1. Places(b.tail, n) = {Wrap(b.tail + j) : j \in 0 .. n - 1}
      BY <1>1, <1>2, PlacesAre
  <2> QED BY <1>3, <2>1
<1>9. /\ \A j \in 0 .. n - 1 : Wrap(b.tail + j) = Wrap(b.head + (b.filled + j))
      /\ n > 0 => /\ TailAfter(b, n) \in 0 .. Size
                  /\ TailAfter(b, n) - b.head - (b.filled + n) \in {-2 * Size, -Size, 0, Size}
    BY <1>2, TailIs
<1>10. \A k \in 0 .. b.filled - 1, j \in 0 .. n - 1 :
          Wrap(b.head + k) # Wrap(b.tail + j)
  <2> SUFFICES ASSUME NEW k \in 0 .. b.filled - 1, NEW j \in 0 .. n - 1
               PROVE  Wrap(b.head + k) # Wrap(b.tail + j)
      OBVIOUS
  <2>1. Wrap(b.tail + j) = Wrap(b.head + (b.filled + j))
      BY <1>9
  <2>2. Wrap(b.head + k) # Wrap(b.head + (b.filled + j))
    <3> DEFINE f == b.filled
               h == b.head
    <3>1. /\ f \in Nat /\ n \in Nat /\ f + n <= Size /\ Size \in Nat \ {0} /\ h \in 0 .. Size
          /\ k \in 0 .. f - 1
        BY <1>15
    <3> HIDE DEF f, h
    <3>2. k \in 0 .. Size - 1 /\ f + j \in 0 .. Size - 1 /\ k # f + j
        BY <3>1
    <3>3. Wrap(h + k) # Wrap(h + (f + j))
        BY <3>1, <3>2, WrapApart
    <3> QED BY <3>3 DEF f, h
  <2> QED BY <2>1, <2>2
<1>11. ASSUME NEW k \in 0 .. b.filled + n - 1
       PROVE  k \in 0 .. b.filled - 1 \/ \E j \in 0 .. n - 1 : k = b.filled + j
  <2>1. CASE k < b.filled
      BY <1>1, <2>1
  <2>2. CASE ~(k < b.filled)
    <3> DEFINE f == b.filled
    <3>1. f \in Nat /\ n \in Nat /\ k \in 0 .. f + n - 1 /\ ~(k < f)
        BY <1>15, <2>2
    <3> HIDE DEF f
    <3>2. k - f \in 0 .. n - 1 /\ k = f + (k - f)
        BY <3>1
    <3> QED BY <3>2 DEF f
  <2> QED BY <2>1, <2>2
<1>12. \A j \in 0 .. b.filled - 1 :
          Wrap(b.head + j) \in 0 .. Size - 1 /\ w.cell[Wrap(b.head + j)] = b.cell[Wrap(b.head + j)]
    BY <1>8, <1>10, ContentsAre
<1>13. Sound(w)
  <2>1. w.cell \in [0 .. Size - 1 -> Cell]
    <3>1. \A i \in 0 .. Size - 1 : w.cell[i] \in Cell
        BY <1>1, <1>6, <1>7, <1>8 DEF Cell
    <3> QED BY <1>3, <3>1
  <2>2. w.head \in 0 .. Size /\ w.filled \in 0 .. Size
      BY <1>1, <1>2, <1>3
  <2>3. w.tail \in 0 .. Size /\ Linked(w)
    <3>1. CASE n = 0
        BY <1>1, <1>3, <3>1 DEF Sound, Linked
    <3>2. CASE n > 0
      <4>1. w.filled # 0
          BY <1>15, <1>3, <3>2
      <4> QED BY <1>3, <1>9, <3>2, <4>1 DEF Linked
    <3> QED BY <1>2, <3>1, <3>2
  <2>4. ASSUME NEW i \in 0 .. Size - 1 PROVE w.cell[i] # Blank <=> Holds(w, i)
    <3>1. Holds(w, i) <=> \/ Holds(b, i)
                          \/ \E j \in 0 .. n - 1 : i = Wrap(b.tail + j)
      <4>1. ASSUME Holds(b, i) PROVE Holds(w, i)
        <5>1. PICK k \in 0 .. b.filled - 1 : i = Wrap(b.head + k)
            BY <4>1 DEF Holds
        <5>2. k \in 0 .. w.filled - 1
            BY <1>1, <1>2, <1>3
        <5> QED BY <1>3, <5>1, <5>2 DEF Holds
      <4>2. ASSUME NEW j \in 0 .. n - 1, i = Wrap(b.tail + j) PROVE Holds(w, i)
        <5>1. b.filled + j \in 0 .. w.filled - 1
            BY <1>15, <1>3
        <5> QED BY <1>3, <1>9, <4>2, <5>1 DEF Holds
      <4>3. ASSUME Holds(w, i)
            PROVE  Holds(b, i) \/ \E j \in 0 .. n - 1 : i = Wrap(b.tail + j)
        <5>1. PICK k \in 0 .. b.filled + n - 1 : i = Wrap(b.head + k)
          <6>1. PICK k \in 0 .. w.filled - 1 : i = Wrap(w.head + k)
              BY <4>3 DEF Holds
          <6> QED BY <1>15, <1>16, <6>1
        <5> QED BY <1>9, <1>11, <5>1 DEF Holds
      <4> QED BY <4>1, <4>2, <4>3
    <3>2. CASE \E j \in 0 .. n - 1 : i = Wrap(b.tail + j)
      <4>1. w.cell[i] \in Nat
          BY <1>6, <1>7, <3>2
      <4> QED BY <3>1, <3>2, <4>1, SizeAssumption
    <3>3. CASE ~\E j \in 0 .. n - 1 : i = Wrap(b.tail + j)
      <4>1. w.cell[i] = b.cell[i]
          BY <1>8, <3>3
      <4> QED BY <3>1, <3>3, <4>1 DEF Sound
    <3> QED BY <3>2, <3>3
  <2>5. w \in BufferRec
      BY <1>3, <2>1, <2>2, <2>3 DEF BufferRec
  <2> QED BY <2>3, <2>4, <2>5 DEF Sound
<1>14. Contents(w) = Contents(b) \o SubSeq(bytes, 1, n)
  <2> DEFINE c == Contents(b)
             d == SubSeq(bytes, 1, n)
             e == Contents(w)
  <2>1. /\ c \in Seq(Nat) /\ Len(c) = b.filled
        /\ \A j \in 0 .. b.filled - 1 : c[j + 1] = b.cell[Wrap(b.head + j)]
      BY ContentsAre
  <2>2. /\ e \in Seq(Nat) /\ Len(e) = b.filled + n
        /\ \A j \in 0 .. b.filled + n - 1 : e[j + 1] = w.cell[Wrap(b.head + j)]
    <3>1. /\ Contents(w) \in Seq(Nat) /\ Len(Contents(w)) = w.filled
          /\ \A j \in 0 .. w.filled - 1 : Contents(w)[j + 1] = w.cell[Wrap(w.head + j)]
        BY <1>13, ContentsAre
    <3> QED BY <1>15, <1>16, <3>1
  <2>3. /\ d \in Seq(Nat) /\ Len(d) = n
        /\ \A j \in 0 .. n - 1 : d[j + 1] = bytes[j + 1]
      BY <1>2
  <2> HIDE DEF c, d, e
  <2>4. /\ c \o d \in Seq(Nat) /\ Len(c \o d) = b.filled + n
        /\ \A i \in 1 .. b.filled + n :
              (c \o d)[i] = IF i <= b.filled THEN c[i] ELSE d[i - b.filled]
    <3>1. /\ c \o d \in Seq(Nat) /\ Len(c \o d) = Len(c) + Len(d)
          /\ \A i \in 1 .. Len(c) + Len(d) :
                (c \o d)[i] = IF i <= Len(c) THEN c[i] ELSE d[i - Len(c)]
        BY <2>1, <2>3, ConcatProperties
    <3> QED BY <2>1, <2>3, <3>1
  <2>5. ASSUME NEW i \in 1 .. b.filled + n PROVE e[i] = (c \o d)[i]
    <3>1. CASE i <= b.filled
      <4>1. i - 1 \in 0 .. b.filled - 1 /\ i - 1 \in 0 .. b.filled + n - 1 /\ (i - 1) + 1 = i
          BY <1>1, <1>2, <3>1
      <4>2. e[i] = w.cell[Wrap(b.head + (i - 1))]
          BY <2>2, <4>1
      <4>3. c[i] = b.cell[Wrap(b.head + (i - 1))]
          BY <2>1, <4>1
      <4> QED BY <1>12, <2>4, <3>1, <4>1, <4>2, <4>3
    <3>2. CASE ~(i <= b.filled)
      <4> DEFINE j == i - b.filled - 1
      <4>1. /\ j \in 0 .. n - 1 /\ b.filled + j \in 0 .. b.filled + n - 1
            /\ (b.filled + j) + 1 = i /\ j + 1 = i - b.filled
        <5> DEFINE f == b.filled
        <5>1. f \in Nat /\ n \in Nat /\ i \in 1 .. f + n /\ ~(i <= f) /\ j = i - f - 1
            BY <1>15, <3>2
        <5> HIDE DEF f, j
        <5>2. /\ j \in 0 .. n - 1 /\ f + j \in 0 .. f + n - 1
              /\ (f + j) + 1 = i /\ j + 1 = i - f
            BY <5>1
        <5> QED BY <5>2 DEF f
      <4> HIDE DEF j
      <4>2. e[i] = w.cell[Wrap(b.head + (b.filled + j))]
          BY <2>2, <4>1
      <4>3. e[i] = bytes[j + 1]
          BY <1>6, <1>9, <4>1, <4>2
      <4>4. d[i - b.filled] = bytes[j + 1]
          BY <2>3, <4>1
      <4> QED BY <2>4, <3>2, <4>3, <4>4
    <3> QED BY <3>1, <3>2
  <2>6. e = c \o d
      BY <2>2, <2>4, <2>5, SeqEqual
  <2> QED BY <2>6 DEF c, d, e
<1> QED BY <1>2, <1>3, <1>13, <1>14 DEF w, Stored

\* k of the n bytes offered are taken out at the head.
LEMMA Popped ==
    ASSUME NEW b, Sound(b), NEW n \in 0 .. b.filled, NEW k \in 0 .. n
    PROVE  /\ Sound(Pop(b, n, k))
           /\ Pop(b, n, k).filled = b.filled - k
           /\ Contents(Pop(b, n, k)) = SubSeq(Contents(b), k + 1, b.filled)
<1>1. /\ b.head \in 0 .. Size /\ b.tail \in 0 .. Size /\ b.filled \in 0 .. Size
      /\ b.cell \in [0 .. Size - 1 -> Cell]
      /\ Contents(b) \in Seq(Nat) /\ Len(Contents(b)) = b.filled
    BY ContentsAre DEF Sound, BufferRec
<1>2. /\ b.filled \in Nat /\ b.filled <= Size /\ n \in Nat /\ n <= b.filled
      /\ k \in Nat /\ k <= n
      /\ b.head \in Nat /\ b.head <= Size /\ b.tail \in Nat /\ b.tail <= Size
      /\ Size \in Nat \ {0}
    BY <1>1, SizeAssumption
<1>3. CASE k = b.filled
  <2>1. Pop(b, n, k) = EmptyBuffer
      BY <1>3 DEF Pop
  <2>2. SubSeq(Contents(b), k + 1, b.filled) = <<>>
      BY <1>2, <1>3, SubSeqEmpty
  <2>3. b.filled - k = 0
      BY <1>2, <1>3
  <2> QED BY <2>1, <2>2, <2>3, EmptySound
<1>4. CASE k # b.filled
  <2> DEFINE p == Pop(b, n, k)
  <2>1. /\ p.cell = [i \in 0 .. Size - 1 |->
                        IF i \in Places(b.head, k) THEN Blank ELSE b.cell[i]]
        /\ p.head = HeadAfter(b, n, k)
        /\ p.tail = b.tail
        /\ p.filled = b.filled - k
        /\ p = [cell |-> p.cell, head |-> p.head, tail |-> p.tail, filled |-> p.filled]
      BY <1>4 DEF Pop
  <2> HIDE DEF p
  <2>2. p.filled \in Nat /\ p.filled > 0 /\ p.filled <= Size /\ p.filled = b.filled - k
      BY <1>2, <1>4, <2>1
  <2>3. /\ p.head \in Nat /\ p.head <= Size
        /\ p.head = b.head + k \/ p.head = b.head + k - Size
    <3>1. \/ b.tail = b.head + b.filled
          \/ b.tail = b.head + b.filled - Size
          \/ b.tail = b.head + b.filled - 2 * Size
      <4>1. b.tail - b.head - b.filled \in {-2 * Size, -Size, 0, Size}
          BY DEF Sound, Linked
      <4>2. b.tail - b.head - b.filled # Size
          BY <1>2, <1>4
      <4> QED BY <1>2, <4>1, <4>2
    <3>2. HeadAfter(b, n, k) \in Nat /\ HeadAfter(b, n, k) <= Size
        BY <1>2, <1>4, <3>1 DEF HeadAfter, FirstCall
    <3>3. HeadAfter(b, n, k) = b.head + k \/ HeadAfter(b, n, k) = b.head + k - Size
        BY <1>2 DEF HeadAfter, FirstCall
    <3> QED BY <2>1, <3>2, <3>3
  <2>4. ASSUME NEW j \in 0 .. p.filled - 1
        PROVE  /\ Wrap(p.head + j) = Wrap(b.head + (k + j))
               /\ k + j \in 0 .. b.filled - 1
    <3>1. j \in Nat /\ k + j < b.filled
        BY <1>2, <2>2
    <3>2. Wrap(p.head + j) = Wrap(b.head + (k + j))
        BY <1>2, <2>3, <3>1 DEF Wrap
    <3> QED BY <1>2, <3>1, <3>2
  <2>5. Linked(p)
    <3>1. b.tail - b.head - b.filled \in {-2 * Size, -Size, 0, Size}
        BY DEF Sound, Linked
    <3>2. p.tail = b.tail
        BY <2>1
    <3>3. p.tail - p.head - p.filled \in {-2 * Size, -Size, 0, Size}
        BY <1>2, <1>4, <2>2, <2>3, <3>1, <3>2
    <3> QED BY <2>2, <3>3 DEF Linked
  <2>6. Places(b.head, k) = {Wrap(b.head + j) : j \in 0 .. k - 1}
    <3>1. k \in 0 .. Size
        BY <1>2
    <3> QED BY <1>1, <3>1, PlacesAre
  <2>7. \A j \in 0 .. k - 1, i \in k .. b.filled - 1 : Wrap(b.head + j) # Wrap(b.head + i)
    <3> SUFFICES ASSUME NEW j \in 0 .. k - 1, NEW i \in k .. b.filled - 1
                 PROVE  Wrap(b.head + j) # Wrap(b.head + i)
        OBVIOUS
    <3>1. j \in Nat /\ i \in Nat /\ j < i /\ i < Size
        BY <1>2
    <3> QED BY <1>2, <3>1 DEF Wrap
  <2>8. ASSUME NEW i \in 0 .. Size - 1 PROVE p.cell[i] # Blank <=> Holds(p, i)
    <3>1. ASSUME Holds(p, i) PROVE p.cell[i] # Blank
      <4>1. PICK j \in 0 .. p.filled - 1 : i = Wrap(p.head + j)
          BY <3>1 DEF Holds
      <4>2. i = Wrap(b.head + (k + j)) /\ k + j \in 0 .. b.filled - 1
          BY <2>4, <4>1
      <4>3. k + j \in k .. b.filled - 1
          BY <1>2, <2>2, <4>2
      <4>4. i \notin Places(b.head, k)
          BY <2>6, <2>7, <4>2, <4>3
      <4>5. Holds(b, i)
          BY <4>2 DEF Holds
      <4> QED BY <2>1, <4>4, <4>5 DEF Sound
    <3>2. ASSUME p.cell[i] # Blank PROVE Holds(p, i)
      <4>1. i \notin Places(b.head, k) /\ b.cell[i] # Blank
          BY <2>1, <3>2
      <4>2. PICK j \in 0 .. b.filled - 1 : i = Wrap(b.head + j)
          BY <4>1 DEF Sound, Holds
      <4>3. ~(j < k)
        <5>1. ASSUME j < k PROVE j \in 0 .. k - 1
            BY <1>2, <5>1
        <5> QED BY <2>6, <4>1, <4>2, <5>1
      <4>4. j - k \in 0 .. p.filled - 1 /\ k + (j - k) = j
          BY <1>2, <2>2, <4>3
      <4>5. i = Wrap(p.head + (j - k))
          BY <2>4, <4>2, <4>4
      <4> QED BY <4>4, <4>5 DEF Holds
    <3> QED BY <3>1, <3>2
  <2>9. p \in BufferRec
    <3>1. p.cell \in [0 .. Size - 1 -> Cell]
        BY <1>1, <2>1 DEF Cell
    <3>2. p.head \in 0 .. Size /\ p.tail \in 0 .. Size /\ p.filled \in 0 .. Size
        BY <1>1, <1>2, <2>1, <2>2, <2>3
    <3> QED BY <2>1, <3>1, <3>2 DEF BufferRec
  <2>10. Sound(p)
      BY <2>5, <2>8, <2>9 DEF Sound
  <2>11. Contents(p) = SubSeq(Contents(b), k + 1, b.filled)
    <3> DEFINE c == Contents(b)
               d == SubSeq(c, k + 1, b.filled)
               e == Contents(p)
    <3>1. /\ c \in Seq(Nat) /\ Len(c) = b.filled
          /\ \A j \in 0 .. b.filled - 1 : c[j + 1] = b.cell[Wrap(b.head + j)]
        BY ContentsAre
    <3>2. /\ e \in Seq(Nat) /\ Len(e) = p.filled
          /\ \A j \in 0 .. p.filled - 1 : /\ e[j + 1] = p.cell[Wrap(p.head + j)]
                                          /\ Wrap(p.head + j) \in 0 .. Size - 1
        BY <2>10, ContentsAre
    <3> HIDE DEF c, e
    <3>3. /\ d \in Seq(Nat) /\ Len(d) = b.filled - k
          /\ \A i \in 1 .. b.filled - k : d[i] = c[k + i]
      <4>1. \A i \in k + 1 .. b.filled : c[i] \in Nat
          BY <1>2, <3>1
      <4>2. /\ d \in Seq(Nat)
            /\ Len(d) = IF k + 1 <= b.filled THEN b.filled - (k + 1) + 1 ELSE 0
            /\ \A i \in 1 .. b.filled - (k + 1) + 1 : d[i] = c[k + 1 + i - 1]
          BY <1>2, <4>1, SubSeqProperties
      <4>3. /\ b.filled - (k + 1) + 1 = b.filled - k
            /\ k + 1 <= b.filled
            /\ \A i \in 1 .. b.filled - k : k + 1 + i - 1 = k + i
          BY <1>2, <1>4
      <4> QED BY <4>2, <4>3
    <3> HIDE DEF d
    <3>4. ASSUME NEW i \in 1 .. p.filled PROVE e[i] = d[i]
      <4> DEFINE j == i - 1
      <4>1. /\ j \in 0 .. p.filled - 1 /\ j + 1 = i
            /\ i \in 1 .. b.filled - k /\ (k + j) + 1 = k + i
          BY <1>2, <2>2
      <4> HIDE DEF j
      <4>2. e[i] = p.cell[Wrap(p.head + j)] /\ Wrap(p.head + j) \in 0 .. Size - 1
          BY <3>2, <4>1
      <4>3. /\ Wrap(p.head + j) = Wrap(b.head + (k + j))
            /\ k + j \in 0 .. b.filled - 1
          BY <2>4, <4>1
      <4>4. d[i] = b.cell[Wrap(b.head + (k + j))]
          BY <3>1, <3>3, <4>1, <4>3
      <4>5. p.cell[Wrap(p.head + j)] = b.cell[Wrap(p.head + j)]
        <5>1. k + j \in k .. b.filled - 1
            BY <1>2, <4>1, <4>3
        <5>2. Wrap(p.head + j) \notin Places(b.head, k)
            BY <2>6, <2>7, <4>3, <5>1
        <5> QED BY <2>1, <4>2, <5>2
      <4> QED BY <4>2, <4>3, <4>4, <4>5
    <3>5. e = d
        BY <2>2, <3>2, <3>3, <3>4, SeqEqual
    <3> QED BY <3>5 DEF c, d, e
  <2> QED BY <2>2, <2>10, <2>11 DEF p
<1> QED BY <1>3, <1>4

\* The bytes are moved to the beginning of the memory.
LEMMA Rearranged ==
    ASSUME NEW b, Sound(b)
    PROVE  /\ Sound(rearrange(b)) /\ rearrange(b).head = 0
           /\ rearrange(b).filled = b.filled
           /\ Contents(rearrange(b)) = Contents(b)
<1> DEFINE r == rearrange(b)
           c == Contents(b)
<1>1. /\ c \in Seq(Nat) /\ Len(c) = b.filled /\ b.filled \in 0 .. Size
    BY ContentsAre
<1>2. /\ r.cell = [i \in 0 .. Size - 1 |-> IF i < b.filled THEN c[i + 1] ELSE Blank]
      /\ r.head = 0 /\ r.tail = b.filled /\ r.filled = b.filled
      /\ r = [cell |-> r.cell, head |-> r.head, tail |-> r.tail, filled |-> r.filled]
    BY DEF rearrange
<1> HIDE DEF r, c
<1>3. b.filled \in Nat /\ b.filled <= Size /\ Size \in Nat \ {0}
    BY <1>1, SizeAssumption
<1>4. \A j \in 0 .. b.filled - 1 : j \in 0 .. Size - 1 /\ c[j + 1] \in Nat /\ 0 + j = j
  <2> SUFFICES ASSUME NEW j \in 0 .. b.filled - 1
               PROVE  j \in 0 .. Size - 1 /\ c[j + 1] \in Nat /\ 0 + j = j
      OBVIOUS
  <2>1. j + 1 \in 1 .. Len(c)
      BY <1>1, <1>3
  <2>2. c[j + 1] \in Nat
      BY <1>1, <2>1, ElementOfSeq
  <2> QED BY <1>3, <2>2
<1>5. ASSUME NEW i \in 0 .. Size - 1
      PROVE  /\ r.cell[i] \in Cell
             /\ r.cell[i] # Blank <=> Holds(r, i)
  <2>1. CASE i < b.filled
    <3>1. i \in 0 .. b.filled - 1
        BY <1>3, <2>1
    <3>2. r.cell[i] \in Nat
        BY <1>2, <1>4, <2>1, <3>1
    <3>3. i = Wrap(0 + i)
        BY <1>3, <2>1 DEF Wrap
    <3> QED BY <1>2, <3>1, <3>2, <3>3, SizeAssumption DEF Cell, Holds
  <2>2. CASE ~(i < b.filled)
    <3>1. r.cell[i] = Blank
        BY <1>2, <2>2
    <3>2. \A j \in 0 .. b.filled - 1 : i # Wrap(0 + j)
        BY <1>3, <2>2 DEF Wrap
    <3> QED BY <1>2, <3>1, <3>2 DEF Cell, Holds
  <2> QED BY <2>1, <2>2
<1>6. Sound(r)
  <2>1. r.cell \in [0 .. Size - 1 -> Cell]
      BY <1>2, <1>5
  <2>2. r.head \in 0 .. Size /\ r.tail \in 0 .. Size /\ r.filled \in 0 .. Size
      BY <1>2, <1>3
  <2>3. Linked(r)
      BY <1>2, <1>3 DEF Linked
  <2> QED BY <1>2, <1>5, <2>1, <2>2, <2>3 DEF Sound, BufferRec
<1>7. Contents(r) = c
  <2> DEFINE e == Contents(r)
  <2>1. /\ e \in Seq(Nat) /\ Len(e) = r.filled
        /\ \A j \in 0 .. r.filled - 1 : e[j + 1] = r.cell[Wrap(r.head + j)]
      BY <1>6, ContentsAre
  <2> HIDE DEF e
  <2>2. ASSUME NEW i \in 1 .. b.filled PROVE e[i] = c[i]
    <3>1. i - 1 \in 0 .. b.filled - 1 /\ (i - 1) + 1 = i /\ i - 1 < b.filled
        BY <1>3
    <3>2. i - 1 \in 0 .. Size - 1 /\ Wrap(0 + (i - 1)) = i - 1
        BY <1>3, <3>1 DEF Wrap
    <3>3. e[i] = r.cell[Wrap(0 + (i - 1))]
        BY <1>2, <2>1, <3>1
    <3> QED BY <1>2, <3>1, <3>2, <3>3
  <2>3. e = c
    <3>1. c \in Seq(Nat) /\ Len(c) = b.filled /\ Len(e) = b.filled
        BY <1>1, <1>2, <2>1
    <3> HIDE DEF c
    <3> QED BY <2>1, <2>2, <3>1, SeqEqual
  <2> QED BY <2>3 DEF e
<1> QED BY <1>2, <1>6, <1>7 DEF r, c

-----------------------------------------------------------------------------
(* Codes.                                                                  *)

\* The operators of the module, by what they depend on.
PackAs(h, c) == IF h THEN Packed(c) ELSE c

CodesAs(h, p) == FlattenSeq([i \in DOMAIN p |-> PackAs(h, p[i])])

\* What a caller of sendCode gives.
Given(h) == IF h THEN {c \in Seq(Nat) : Len(c) \in {1, 2} /\ c[1] # ZERO}
                     ELSE {c \in Seq(Nat) : Len(c) = DirectLength}

LEMMA GivenType ==
    ASSUME NEW h \in BOOLEAN
    PROVE  /\ \A c \in Given(h) : c \in Seq(Nat) /\ c # <<>> /\ Len(c) \in Nat \ {0}
           /\ Given(h) \subseteq Seq(Nat)
<1>1. DirectLength \in Nat \ {0}
    BY ReserveAssumption, SizeAssumption
<1>2. ASSUME NEW c \in Given(h) PROVE c \in Seq(Nat) /\ c # <<>> /\ Len(c) \in Nat \ {0}
  <2>1. c \in Seq(Nat) /\ Len(c) \in Nat \ {0}
      BY <1>1 DEF Given
  <2> QED BY <2>1, EmptySeq
<1> QED BY <1>2

\* A code behind its head.
LEMMA PackedIs ==
    ASSUME NEW c \in Seq(Nat)
    PROVE  /\ Packed(c) \in Seq(Nat) /\ Len(Packed(c)) = HeadLength + Len(c)
           /\ Packed(c)[1] = ZERO /\ Packed(c)[2] = ONE /\ Packed(c)[3] = ONE
           /\ Packed(c)[4] = ZERO /\ Packed(c)[5] = Len(c)
           /\ \A i \in 1 .. Len(c) : Packed(c)[5 + i] = c[i]
<1> DEFINE z == <<ZERO>>
           o == [i \in 1 .. Ones |-> ONE]
           t == <<ZERO, Len(c)>>
           h == z \o o
           u == h \o t
<1>1. Len(c) \in Nat /\ ZERO \in Nat /\ ONE \in Nat
    BY DEF ZERO, ONE
<1>2. z \in Seq(Nat) /\ Len(z) = 1 /\ z[1] = ZERO
    BY <1>1
<1>3. o \in Seq(Nat) /\ Len(o) = 2 /\ o[1] = ONE /\ o[2] = ONE
    BY <1>1 DEF Ones
<1>4. t \in Seq(Nat) /\ Len(t) = 2 /\ t[1] = ZERO /\ t[2] = Len(c)
    BY <1>1
<1>5. Packed(c) = u \o c
    BY DEF Packed
<1> HIDE DEF z, o, t
<1>6. h \in Seq(Nat) /\ Joined(h, z, o)
    BY <1>2, <1>3, JoinIs
<1> HIDE DEF h
<1>7. h[1] = ZERO /\ h[2] = ONE /\ h[3] = ONE /\ Len(h) = 3
  <2>1. h[1] = z[1] /\ h[1 + 1] = o[1] /\ h[1 + 2] = o[2] /\ Len(h) = 1 + 2
      BY <1>2, <1>3, <1>6 DEF Joined
  <2> QED BY <1>2, <1>3, <2>1
<1>8. u \in Seq(Nat) /\ Joined(u, h, t)
    BY <1>4, <1>6, JoinIs
<1> HIDE DEF u
<1>9. /\ u[1] = ZERO /\ u[2] = ONE /\ u[3] = ONE /\ u[4] = ZERO /\ u[5] = Len(c)
      /\ Len(u) = 5
  <2>1. /\ u[1] = h[1] /\ u[2] = h[2] /\ u[3] = h[3] /\ u[3 + 1] = t[1] /\ u[3 + 2] = t[2]
        /\ Len(u) = 3 + 2
      BY <1>4, <1>7, <1>8 DEF Joined
  <2> QED BY <1>4, <1>7, <2>1
<1> DEFINE w == u \o c
<1>10. w \in Seq(Nat) /\ Joined(w, u, c)
    BY <1>8, JoinIs
<1> HIDE DEF w
<1>11. /\ w[1] = ZERO /\ w[2] = ONE /\ w[3] = ONE /\ w[4] = ZERO /\ w[5] = Len(c)
       /\ Len(w) = 5 + Len(c)
       /\ \A i \in 1 .. Len(c) : w[5 + i] = c[i]
    BY <1>9, <1>10 DEF Joined
<1>13. HeadLength = 5 /\ Packed(c) = w
    BY <1>5 DEF HeadLength, Ones, w
<1> QED BY <1>10, <1>11, <1>13

LEMMA PackType ==
    ASSUME NEW h \in BOOLEAN, NEW c \in Given(h)
    PROVE  /\ PackAs(h, c) \in Seq(Nat) /\ Len(PackAs(h, c)) \in Nat \ {0}
           /\ Len(PackAs(h, c)) <= Size - Reserve
<1>1. c \in Seq(Nat) /\ Len(c) \in Nat \ {0}
    BY GivenType
<1>2. CASE h
  <2>1. PackAs(h, c) = Packed(c) /\ Len(c) \in {1, 2}
      BY <1>2 DEF PackAs, Given
  <2>2. PackAs(h, c) \in Seq(Nat) /\ Len(PackAs(h, c)) = 5 + Len(c)
      BY <1>1, <2>1, PackedIs DEF HeadLength, Ones
  <2>3. 5 + 2 <= Size - Reserve /\ Size \in Int /\ Reserve \in Int
      BY ReserveAssumption, SizeAssumption DEF HeadLength, Ones
  <2> DEFINE n == Len(PackAs(h, c))
             m == Len(c)
  <2>4. m \in {1, 2} /\ n = 5 + m
      BY <2>1, <2>2
  <2> HIDE DEF n, m
  <2>5. n \in Nat \ {0} /\ n <= Size - Reserve
      BY <2>3, <2>4
  <2> QED BY <2>2, <2>5 DEF n
<1>3. CASE ~h
  <2>1. PackAs(h, c) = c /\ Len(c) = DirectLength
      BY <1>3 DEF PackAs, Given
  <2> QED BY <1>1, <2>1, ReserveAssumption, SizeAssumption
<1> QED BY <1>2, <1>3

\* The packed codes, one by one.
Packs(h, p) == [i \in DOMAIN p |-> PackAs(h, p[i])]

LEMMA PacksType ==
    ASSUME NEW h \in BOOLEAN, NEW p \in Seq(Given(h))
    PROVE  Packs(h, p) \in Seq(Seq(Nat)) /\ Len(Packs(h, p)) = Len(p)
<1>1. Len(p) \in Nat /\ DOMAIN p = 1 .. Len(p)
    OBVIOUS
<1>2. \A i \in 1 .. Len(p) : PackAs(h, p[i]) \in Seq(Nat)
    BY ElementOfSeq, PackType
<1> QED BY <1>1, <1>2 DEF Packs

LEMMA CodesType ==
    ASSUME NEW h \in BOOLEAN, NEW p \in Seq(Given(h))
    PROVE  CodesAs(h, p) \in Seq(Nat) /\ Len(CodesAs(h, p)) \in Nat
<1>1. CodesAs(h, p) \in Seq(Nat)
    BY PacksType, FlattenType DEF CodesAs, Packs
<1> QED BY <1>1

LEMMA CodesEmpty == ASSUME NEW h PROVE CodesAs(h, <<>>) = <<>>
<1>1. [i \in DOMAIN <<>> |-> PackAs(h, <<>>[i])] = <<>>
    OBVIOUS
<1> QED BY <1>1, EmptySeq DEF CodesAs, FlattenSeq

LEMMA CodesConcat ==
    ASSUME NEW h \in BOOLEAN, NEW p \in Seq(Given(h)), NEW q \in Seq(Given(h))
    PROVE  CodesAs(h, p \o q) = CodesAs(h, p) \o CodesAs(h, q)
<1> DEFINE r == p \o q
<1>1. /\ Packs(h, p) \in Seq(Seq(Nat)) /\ Len(Packs(h, p)) = Len(p)
      /\ Packs(h, q) \in Seq(Seq(Nat)) /\ Len(Packs(h, q)) = Len(q)
    BY PacksType
<1>2. /\ r \in Seq(Given(h)) /\ Len(r) = Len(p) + Len(q)
      /\ \A i \in 1 .. Len(p) + Len(q) : r[i] = IF i <= Len(p) THEN p[i] ELSE q[i - Len(p)]
    BY ConcatProperties
<1> HIDE DEF r
<1>3. Packs(h, r) \in Seq(Seq(Nat)) /\ Len(Packs(h, r)) = Len(r)
    BY <1>2, PacksType
<1> DEFINE u == Packs(h, p)
           v == Packs(h, q)
           w == Packs(h, r)
<1>4. /\ Len(p) \in Nat /\ Len(q) \in Nat /\ Len(r) \in Nat
      /\ DOMAIN p = 1 .. Len(p) /\ DOMAIN q = 1 .. Len(q) /\ DOMAIN r = 1 .. Len(r)
    BY <1>2
<1>5. /\ \A i \in 1 .. Len(p) : u[i] = PackAs(h, p[i])
      /\ \A i \in 1 .. Len(q) : v[i] = PackAs(h, q[i])
      /\ \A i \in 1 .. Len(r) : w[i] = PackAs(h, r[i])
    BY <1>4 DEF Packs
<1> HIDE DEF u, v, w
<1>6. /\ u \o v \in Seq(Seq(Nat)) /\ Len(u \o v) = Len(p) + Len(q)
      /\ \A i \in 1 .. Len(p) + Len(q) :
            (u \o v)[i] = IF i <= Len(p) THEN u[i] ELSE v[i - Len(p)]
    BY <1>1, ConcatProperties DEF u, v
<1>7. ASSUME NEW i \in 1 .. Len(p) + Len(q) PROVE w[i] = (u \o v)[i]
  <2>1. w[i] = PackAs(h, r[i])
      BY <1>2, <1>5
  <2>2. CASE i <= Len(p)
    <3>1. i \in 1 .. Len(p)
        BY <1>4, <2>2
    <3> QED BY <1>2, <1>5, <1>6, <2>1, <2>2, <3>1
  <2>3. CASE ~(i <= Len(p))
    <3>1. i - Len(p) \in 1 .. Len(q)
        BY <1>4, <2>3
    <3> QED BY <1>2, <1>5, <1>6, <2>1, <2>3, <3>1
  <2> QED BY <2>2, <2>3
<1>8. w = u \o v
  <2>1. w \in Seq(Seq(Nat)) /\ Len(w) = Len(p) + Len(q)
      BY <1>2, <1>3 DEF w
  <2> QED BY <1>6, <1>7, <2>1, SeqEqual
<1>9. FlattenSeq(u \o v) = FlattenSeq(u) \o FlattenSeq(v)
    BY <1>1, FlattenConcat DEF u, v
<1> QED BY <1>8, <1>9 DEF u, v, w, r, CodesAs, Packs

LEMMA CodesOne ==
    ASSUME NEW h \in BOOLEAN, NEW c \in Given(h)
    PROVE  CodesAs(h, <<c>>) = PackAs(h, c)
<1>1. Packs(h, <<c>>) = <<PackAs(h, c)>>
    BY DEF Packs
<1>2. <<PackAs(h, c)>> = Append(<<>>, PackAs(h, c)) /\ PackAs(h, c) \in Seq(Nat)
    BY PackType
<1>3. <<>> \in Seq(Seq(Nat)) /\ FlattenSeq(<<>>) = <<>>
    BY EmptySeq DEF FlattenSeq
<1>4. FlattenSeq(<<PackAs(h, c)>>) = <<>> \o PackAs(h, c)
    BY <1>2, <1>3, FlattenAppend
<1>5. <<>> \o PackAs(h, c) = PackAs(h, c)
    BY <1>2, ConcatEmptySeq
<1> QED BY <1>1, <1>4, <1>5 DEF CodesAs, Packs

LEMMA CodesAppend ==
    ASSUME NEW h \in BOOLEAN, NEW p \in Seq(Given(h)), NEW c \in Given(h)
    PROVE  CodesAs(h, Append(p, c)) = CodesAs(h, p) \o PackAs(h, c)
<1>1. Append(p, c) = p \o <<c>> /\ <<c>> \in Seq(Given(h))
    BY AppendIsConcat
<1> QED BY <1>1, CodesConcat, CodesOne

-----------------------------------------------------------------------------
(* The inductive invariant.                                                *)

Harms == {"repeat", "cut", "twice"}

\* The types, and both rings.
Shape ==
    /\ needHead \in BOOLEAN /\ limit \in Nat
    /\ conn \in {"open", "broken", "closed"}
    /\ Sound(sbuf) /\ Sound(rbuf)
    /\ wire \in Seq(Nat) /\ taken \in 0 .. Len(wire)
    /\ calls \in Nat
    /\ rest \in Seq(Nat) /\ promised \in Seq(Given(needHead))
    /\ hasMessage \in BOOLEAN
    /\ ~hasMessage => rbuf.head = 0
    /\ harm \subseteq Harms

\* What was sent and what is kept is what was accepted.  A closed socket
\* whose buffer was cleared has lost the end.
Accounted ==
    harm = {} /\ (conn # "closed" \/ sbuf.filled > 0)
        => wire \o Contents(sbuf) = rest \o CodesAs(needHead, promised)

\* With or without the end, nothing else is on the connection.
Sent == harm = {} => \E u \in Seq(Nat) : wire \o u = rest \o CodesAs(needHead, promised)

\* Where a head may be taken to begin.
NoHead(s) == \A i \in 1 .. Len(s) - 1 : ~(s[i] = ZERO /\ s[i + 1] = ONE)

Headless == harm = {} /\ needHead => NoHead(rest)

\* The place on the connection behind the first m codes.
Reach(r, p, m) == Len(r) + Len(CodesAs(TRUE, SubSeq(p, 1, m)))

\* The first m codes have been found before the place d.
Behind(r, p, d, m) == IF m = 0 THEN d <= Len(r) ELSE d = Reach(r, p, m)

\* With heads: t bytes were read, the codes that were returned are the first
\* m, the bytes kept in the buffer begin behind them, and unless there may be
\* a whole code in the buffer the next one has not yet arrived.
FramedAt(r, p, w, t, b, more, got) ==
    /\ b.filled <= t
    /\ Contents(b) = SubSeq(w, t - b.filled + 1, t)
    /\ \E m \in 0 .. Len(p) :
          /\ got = SubSeq(p, 1, m)
          /\ Behind(r, p, t - b.filled, m)
          /\ ~more /\ m < Len(p) => t < Reach(r, p, m + 1)

Framed ==
    harm = {} /\ needHead
        => FramedAt(rest, promised, wire, taken, rbuf, hasMessage, received)

\* Without heads: what was returned is what was read.
Streamed == harm = {} /\ ~needHead => received = SubSeq(wire, 1, taken)

StreamIInv == Shape /\ Accounted /\ Sent /\ Headless /\ Framed /\ Streamed

-----------------------------------------------------------------------------
(* Sending.                                                                *)

\* What backupToSendBuff promises.
BackupOK(kept, b, code) ==
    /\ kept.result \in {-2, -5} /\ Sound(kept.buf) /\ kept.harm \subseteq {"cut"}
    /\ kept.result = -2 /\ kept.harm = {} => Contents(kept.buf) = Contents(b) \o code
    /\ kept.result = -5 => kept.buf = b /\ kept.harm = {}
    /\ b.filled = 0 /\ Len(code) <= Size - Reserve => kept.result = -2

LEMMA BackupIs ==
    ASSUME NEW b, Sound(b), NEW code \in Seq(Nat), NEW urgent \in BOOLEAN, NEW kept,
           kept = backupToSendBuff(b, code, urgent)
    PROVE  BackupOK(kept, b, code)
<1> DEFINE stored == Fits(b, code) \/ (urgent /\ Len(code) <= freeLength(b))
<1>1. /\ kept.result = IF stored THEN -2 ELSE -5
      /\ kept.buf = IF stored THEN writeIntoBuffer(b, code) ELSE b
      /\ kept.harm = IF stored /\ Len(code) > freeLength(b) THEN {"cut"} ELSE {}
    BY DEF backupToSendBuff
<1>2. b.filled \in 0 .. Size /\ Len(code) \in Nat /\ Size \in Nat /\ Reserve \in 0 .. Size
    BY SizeAssumption, ReserveAssumption DEF Sound, BufferRec
<1>3. b.filled = 0 /\ Len(code) <= Size - Reserve => stored
    BY <1>2 DEF Fits, freeLength
<1> HIDE DEF stored
<1> DEFINE n == Least(Len(code), freeLength(b))
<1>4. /\ Sound(writeIntoBuffer(b, code))
      /\ Contents(writeIntoBuffer(b, code)) = Contents(b) \o SubSeq(code, 1, n)
  <2>1. Stored(writeIntoBuffer(b, code), b, code, n)
      BY Written
  <2> QED BY <2>1 DEF Stored
<1>5. ASSUME ~(Len(code) > freeLength(b)) PROVE SubSeq(code, 1, n) = code
  <2>1. n = Len(code)
      BY <1>2, <1>5 DEF Least, freeLength
  <2> QED BY <2>1, SubSeqFull
<1> HIDE DEF n
<1>6. kept.result = -2 /\ kept.harm = {} => stored /\ ~(Len(code) > freeLength(b))
    BY <1>1
<1>7. kept.result = -5 => ~stored
    BY <1>1
<1> QED BY <1>1, <1>3, <1>4, <1>5, <1>6, <1>7 DEF BackupOK

\* What a call of sendCode does to the stream: x goes out.
Kept(content, x) ==
    \/ promised' = promised /\ x \o Contents(sbuf') = Contents(sbuf)
    \/ /\ promised' = Append(promised, content)
       /\ x \o Contents(sbuf') = Contents(sbuf) \o PackAs(needHead, content)

Effect(content) ==
    /\ \E x \in Seq(Nat) : wire' = wire \o x /\ (harm' = {} => Kept(content, x))
    /\ Sound(sbuf')
    /\ promised' \in Seq(Given(needHead))
    /\ harm' \subseteq Harms /\ harm \subseteq harm'
    /\ calls' = calls + 1
    /\ UNCHANGED <<conn, rest>>

LEMMA PackIs == ASSUME NEW c PROVE pack(c) = PackAs(needHead, c)
BY DEF pack, PackAs

\* What a return does.
LEMMA ReturnEffect ==
    ASSUME Shape, NEW content \in Given(needHead), NEW result \in {1, 0, -2, -5, -9},
           NEW b, Sound(b), NEW x \in Seq(Nat), NEW asked, NEW harms \in SUBSET Harms,
           harms = {} => IF result \in {1, -2}
                         THEN x \o Contents(b) = Contents(sbuf) \o PackAs(needHead, content)
                         ELSE x \o Contents(b) = Contents(sbuf),
           Return(content, result, b, x, asked, harms)
    PROVE  Effect(content)
<1>1. /\ sbuf' = b /\ wire' = wire \o x
      /\ promised' = IF result \in {1, -2} THEN Append(promised, content) ELSE promised
      /\ harm' = harm \cup harms /\ calls' = calls + 1 /\ UNCHANGED <<conn, rest>>
    BY DEF Return
<1>2. promised \in Seq(Given(needHead)) /\ harm \subseteq Harms
    BY DEF Shape
<1>3. Append(promised, content) \in Seq(Given(needHead))
    BY <1>2, AppendProperties
<1>4. promised' \in Seq(Given(needHead))
    BY <1>1, <1>2, <1>3
<1>5. harm' = {} => Kept(content, x)
    BY <1>1 DEF Kept
<1> QED BY <1>1, <1>2, <1>4, <1>5 DEF Effect

\* The end of the code is kept, behind the first k bytes that went out.
Partial(code, b, k, before, sent, harms) ==
    /\ Sound(b) /\ k \in 0 .. Len(code) /\ (k = 0 \/ b.filled = 0)
    /\ before \in Seq(Nat) /\ sent = before \o SubSeq(code, 1, k)
    /\ harms \subseteq Harms
    /\ harms = {} => before \o Contents(b) = Contents(sbuf)

LEMMA BackupEffect ==
    ASSUME Shape, NEW content \in Given(needHead), NEW b, NEW k, NEW from, from = k + 1,
           NEW before, NEW sent, NEW urgent \in BOOLEAN, NEW asked, NEW harms,
           Partial(PackAs(needHead, content), b, k, before, sent, harms),
           Backup(content, b, from, urgent, sent, asked, harms)
    PROVE  Effect(content)
<1> DEFINE code == PackAs(needHead, content)
           p == SubSeq(code, 1, k)
           q == SubSeq(code, k + 1, Len(code))
           kept == backupToSendBuff(b, q, urgent)
<1>1. code \in Seq(Nat) /\ Len(code) \in Nat /\ Len(code) <= Size - Reserve
    BY PackType DEF Shape
<1>2. /\ k \in 0 .. Len(code) /\ Sound(b) /\ (k = 0 \/ b.filled = 0)
      /\ before \in Seq(Nat) /\ sent = before \o SubSeq(code, 1, k)
      /\ harms \subseteq Harms
      /\ harms = {} => before \o Contents(b) = Contents(sbuf)
    BY DEF Partial
<1> HIDE DEF code
<1>3. /\ p \in Seq(Nat) /\ Len(p) = k /\ q \in Seq(Nat) /\ Len(q) = Len(code) - k
      /\ p \o q = code
    BY <1>1, <1>2, CutIs
<1>4. Return(content, kept.result, kept.buf, sent, asked, harms \cup kept.harm)
    BY PackIs DEF Backup, code
<1> HIDE DEF p, q
<1>17. k = 0 \/ b.filled = 0
    BY <1>2
<1>15. kept = backupToSendBuff(b, q, urgent)
    OBVIOUS
<1> HIDE DEF kept
<1>16. BackupOK(kept, b, q)
    BY <1>2, <1>3, <1>15, BackupIs
<1>5. /\ kept.result \in {-2, -5} /\ Sound(kept.buf) /\ kept.harm \subseteq {"cut"}
      /\ kept.result = -2 /\ kept.harm = {} => Contents(kept.buf) = Contents(b) \o q
      /\ kept.result = -5 => kept.buf = b /\ kept.harm = {}
      /\ b.filled = 0 /\ Len(q) <= Size - Reserve => kept.result = -2
    BY <1>16 DEF BackupOK
<1>6. sent = before \o p
    BY <1>2 DEF p, code
<1>7. sent \in Seq(Nat)
    BY <1>2, <1>3, <1>6, ConcatProperties
<1>8. /\ Contents(b) \in Seq(Nat) /\ Len(Contents(b)) = b.filled
      /\ Contents(sbuf) \in Seq(Nat)
    BY <1>2, ContentsAre DEF Shape
<1>9. b.filled = 0 => kept.result = -2
  <2>1. Len(q) <= Size - Reserve
    <3>1. Size \in Int /\ Reserve \in Int
        BY SizeAssumption, ReserveAssumption
    <3> QED BY <1>1, <1>2, <1>3, <3>1
  <2> QED BY <1>5, <2>1
<1>10. ASSUME k = 0 PROVE p = <<>> /\ q = code
  <2>1. p = <<>>
      BY <1>3, <1>10, EmptySeq
  <2> QED BY <1>3, <2>1, ConcatEmptySeq
<1>11. ASSUME harms \cup kept.harm = {}, kept.result = -2
       PROVE  sent \o Contents(kept.buf) = Contents(sbuf) \o code
  <2>1. \A x, y, z \in Seq(Nat) : Cat(Cat(x, y), z) = Cat(x, Cat(y, z))
      BY CatAssociative
  <2>7. before \in Seq(Nat) /\ p \in Seq(Nat) /\ q \in Seq(Nat) /\ Contents(b) \in Seq(Nat)
      BY <1>2, <1>3, <1>8
  <2>2. /\ Contents(kept.buf) = Cat(Contents(b), q) /\ sent = Cat(before, p)
        /\ Cat(before, Contents(b)) = Contents(sbuf) /\ Cat(p, q) = code
      BY <1>2, <1>3, <1>5, <1>6, <1>11 DEF Cat
  <2>3. Cat(before, <<>>) = before /\ Cat(<<>>, q) = q
      BY <2>7, ConcatEmptySeq DEF Cat
  <2>4. sent \o Contents(kept.buf) = Cat(sent, Contents(kept.buf))
        /\ Contents(sbuf) \o code = Cat(Contents(sbuf), code)
      BY DEF Cat
  <2>5. CASE k = 0
    <3>1. sent = before /\ q = code
        BY <1>10, <2>2, <2>3, <2>5
    <3>2. Cat(sent, Contents(kept.buf)) = Cat(Contents(sbuf), code)
      <4>1. Cat(Cat(before, Contents(b)), q) = Cat(before, Cat(Contents(b), q))
          BY <2>1, <2>7
      <4> QED BY <2>2, <3>1, <4>1
    <3> QED BY <2>4, <3>2
  <2>6. CASE b.filled = 0
    <3>1. Contents(b) = <<>>
        BY <1>8, <2>6, EmptySeq
    <3>2. Contents(kept.buf) = q /\ before = Contents(sbuf)
        BY <2>2, <2>3, <3>1
    <3>3. Cat(sent, q) = Cat(before, Cat(p, q))
      <4>1. Cat(Cat(before, p), q) = Cat(before, Cat(p, q))
          BY <2>1, <2>7
      <4> QED BY <2>2, <4>1
    <3> QED BY <2>2, <2>4, <3>2, <3>3
  <2> QED BY <1>17, <2>5, <2>6
<1>12. ASSUME harms \cup kept.harm = {}, kept.result = -5
       PROVE  sent \o Contents(kept.buf) = Contents(sbuf)
  <2>1. b.filled # 0
      BY <1>9, <1>12
  <2>2. p = <<>>
      BY <1>10, <1>17, <2>1
  <2>3. sent = before
      BY <1>2, <1>6, <2>2, ConcatEmptySeq
  <2> QED BY <1>2, <1>5, <1>12, <2>3
<1>13. harms \cup kept.harm = {} =>
          IF kept.result \in {1, -2} THEN sent \o Contents(kept.buf) = Contents(sbuf) \o code
                                     ELSE sent \o Contents(kept.buf) = Contents(sbuf)
  <2>1. CASE kept.result = -2
      BY <1>11, <2>1
  <2>2. CASE kept.result = -5
    <3>1. ~(kept.result \in {1, -2})
        BY <2>2
    <3> QED BY <1>12, <2>2, <3>1
  <2> QED BY <1>5, <2>1, <2>2
<1>14. harms \cup kept.harm \in SUBSET Harms /\ kept.result \in {1, 0, -2, -5, -9}
    BY <1>2, <1>5 DEF Harms
<1> QED BY <1>4, <1>5, <1>7, <1>13, <1>14, ReturnEffect DEF code

\* Nothing was left to send, or it is all out now.
LEMMA DirectEffect ==
    ASSUME Shape, NEW content \in Given(needHead), NEW b, Sound(b), b.filled = 0,
           NEW sent, sent = Contents(sbuf), NEW urgent \in BOOLEAN, NEW asked,
           Direct(content, b, urgent, sent, asked)
    PROVE  Effect(content)
<1> DEFINE code == PackAs(needHead, content)
<1>1. code \in Seq(Nat) /\ Len(code) \in Nat
    BY PackType DEF Shape
<1>2. sent \in Seq(Nat)
    BY ContentsAre DEF Shape
<1>3. Contents(b) = <<>>
    BY ContentsAre, EmptySeq
<1>4. pack(content) = code
    BY PackIs
<1>5. sent \o Contents(b) = Contents(sbuf)
    BY <1>2, <1>3, ConcatEmptySeq
<1>6. PICK k \in 0 .. Len(code) :
        IF k = Len(code)
        THEN Return(content, 1, b, sent \o code, asked, {})
        ELSE Backup(content, b, k + 1, urgent, sent \o SubSeq(code, 1, k), asked, {})
    BY <1>4 DEF Direct
<1>7. CASE k = Len(code)
  <2>1. Return(content, 1, b, sent \o code, asked, {})
      BY <1>6, <1>7
  <2>2. sent \o code \in Seq(Nat)
      BY <1>1, <1>2, ConcatProperties
  <2> DEFINE x == sent \o code
  <2>3. x \o Contents(b) = Contents(sbuf) \o code
    <3>1. x \o Contents(b) = x
        BY <1>3, <2>2, ConcatEmptySeq
    <3> QED BY <3>1
  <2> HIDE DEF x, code
  <2>4. IF 1 \in {1, -2} THEN x \o Contents(b) = Contents(sbuf) \o code
                         ELSE x \o Contents(b) = Contents(sbuf)
      BY <2>3
  <2> DEFINE result == 1
             harms == {}
  <2>5. /\ result \in {1, 0, -2, -5, -9} /\ harms \in SUBSET Harms
        /\ harms = {} => IF result \in {1, -2}
                         THEN x \o Contents(b) = Contents(sbuf) \o code
                         ELSE x \o Contents(b) = Contents(sbuf)
        /\ Return(content, result, b, x, asked, harms)
      BY <2>1, <2>4 DEF x
  <2>6. x \in Seq(Nat)
      BY <2>2 DEF x
  <2> HIDE DEF result, harms
  <2> QED BY <2>5, <2>6, ReturnEffect DEF code
<1>8. CASE k # Len(code)
  <2> DEFINE from == k + 1
             out == sent \o SubSeq(code, 1, k)
             harms == {}
  <2>1. Backup(content, b, from, urgent, out, asked, harms)
      BY <1>6, <1>8
  <2>2. Partial(code, b, k, sent, out, harms)
      BY <1>2, <1>5 DEF Partial
  <2>3. from = k + 1
      OBVIOUS
  <2> HIDE DEF from, out, harms
  <2> QED BY <2>1, <2>2, <2>3, BackupEffect
<1> QED BY <1>7, <1>8

\* None of the code has gone out, and all of it is kept.
LEMMA KeepEffect ==
    ASSUME Shape, NEW content \in Given(needHead), NEW b, Sound(b),
           NEW sent \in Seq(Nat), NEW urgent \in BOOLEAN, NEW asked,
           NEW harms \in SUBSET Harms,
           harms = {} => sent \o Contents(b) = Contents(sbuf),
           Backup(content, b, 1, urgent, sent, asked, harms)
    PROVE  Effect(content)
<1> DEFINE code == PackAs(needHead, content)
           k == 0
           from == 1
<1>1. code \in Seq(Nat) /\ Len(code) \in Nat
    BY PackType DEF Shape
<1>2. SubSeq(code, 1, k) = <<>>
    BY SubSeqEmpty
<1>3. sent = sent \o SubSeq(code, 1, k)
    BY <1>2, ConcatEmptySeq
<1>4. k \in 0 .. Len(code) /\ from = k + 1 /\ k = 0
    BY <1>1
<1>5. Backup(content, b, from, urgent, sent, asked, harms)
    OBVIOUS
<1>6. Partial(code, b, k, sent, sent, harms)
    BY <1>3, <1>4 DEF Partial
<1> HIDE DEF k, from
<1> QED BY <1>4, <1>5, <1>6, BackupEffect

\* A code that is not accepted.
LEMMA RefusedEffect ==
    ASSUME Shape, NEW content \in Given(needHead), NEW result \in {0, -5, -9},
           NEW b, Sound(b), NEW x \in Seq(Nat), x \o Contents(b) = Contents(sbuf),
           NEW asked, Return(content, result, b, x, asked, {})
    PROVE  Effect(content)
<1> DEFINE none == {}
<1>1. result \in {1, 0, -2, -5, -9} /\ ~(result \in {1, -2})
    OBVIOUS
<1>2. none \in SUBSET Harms /\ Return(content, result, b, x, asked, none)
    OBVIOUS
<1>3. none = {} => IF result \in {1, -2}
                   THEN x \o Contents(b) = Contents(sbuf) \o PackAs(needHead, content)
                   ELSE x \o Contents(b) = Contents(sbuf)
    BY <1>1
<1> HIDE DEF none
<1> QED BY <1>1, <1>2, <1>3, ReturnEffect

\* What was left goes out first.
LEMMA UnsentEffect ==
    ASSUME Shape, NEW content \in Given(needHead), NEW urgent \in BOOLEAN,
           sendUnsentCode(content, urgent)
    PROVE  Effect(content)
<1> DEFINE n == Least(limit, sbuf.filled)
           c == Contents(sbuf)
<1>1. /\ Sound(sbuf) /\ limit \in Nat
      /\ c \in Seq(Nat) /\ Len(c) = sbuf.filled /\ sbuf.filled \in 0 .. Size
    BY ContentsAre DEF Shape
<1>2. n \in 0 .. sbuf.filled
    BY <1>1 DEF Least
<1> DEFINE sent(k) == SubSeq(c, 1, k)
           left(k) == readFromBuffer(sbuf, n, k)
           harms(k) == IF Repeats(sbuf, n, k) THEN {"repeat"} ELSE {}
           once(k) == backupToSendBuff(left(k), PackAs(needHead, content), urgent)
<1>3. PICK k \in 0 .. n :
         \/ /\ k = n /\ left(k).filled = 0
            /\ Direct(content, left(k), urgent, sent(k), TRUE)
         \/ /\ k = n /\ left(k).filled > 0 /\ once(k).result = -2
            /\ Backup(content, once(k).buf, 1, urgent, sent(k), TRUE, {"twice"} \cup once(k).harm)
         \/ /\ k = n /\ left(k).filled > 0 /\ once(k).result = -5
            /\ Return(content, -5, left(k), sent(k), TRUE, {})
         \/ /\ k = 0 /\ n > 0 /\ FirstCall(sbuf, n) = 0
            /\ Return(content, 0, sbuf, <<>>, TRUE, {})
         \/ /\ k < n /\ (k > 0 \/ FirstCall(sbuf, n) > 0)
            /\ Backup(content, left(k), 1, urgent, sent(k), TRUE, harms(k))
    BY PackIs DEF sendUnsentCode
<1> HIDE DEF n
<1> DEFINE out == sent(k)
           b == left(k)
           bad == harms(k)
           kept == once(k)
<1>4. \/ k = n /\ b.filled = 0 /\ Direct(content, b, urgent, out, TRUE)
      \/ Backup(content, kept.buf, 1, urgent, out, TRUE, {"twice"} \cup kept.harm)
      \/ k = n /\ Return(content, -5, b, out, TRUE, {})
      \/ Return(content, 0, sbuf, <<>>, TRUE, {})
      \/ Backup(content, b, 1, urgent, out, TRUE, bad)
    BY <1>3
<1>5. k \in 0 .. n /\ k \in 0 .. Len(c)
    BY <1>1, <1>2
<1>6. out \in Seq(Nat) /\ out \o SubSeq(c, k + 1, Len(c)) = c
    BY <1>1, <1>5, CutIs
<1>7. ASSUME Repeats(sbuf, n, k)
      PROVE  b = sbuf /\ bad = {"repeat"} /\ k # n
  <2>1. k # n
      BY <1>2, <1>7 DEF Repeats
  <2> QED BY <1>7, <2>1 DEF readFromBuffer
<1>8. ASSUME ~Repeats(sbuf, n, k)
      PROVE  Sound(b) /\ out \o Contents(b) = c /\ bad = {}
  <2>1. b = Pop(sbuf, n, k) /\ bad = {}
      BY <1>8 DEF readFromBuffer
  <2>2. Sound(b) /\ Contents(b) = SubSeq(c, k + 1, sbuf.filled)
      BY <1>1, <1>2, <1>5, <2>1, Popped
  <2> QED BY <1>1, <1>6, <2>1, <2>2
<1>9. kept = backupToSendBuff(b, PackAs(needHead, content), urgent)
    OBVIOUS
<1> HIDE DEF out, b, bad, kept
<1>10. /\ Sound(b) /\ bad \in SUBSET Harms
       /\ bad = {} => out \o Contents(b) = c
       /\ k = n => out \o Contents(b) = c
    BY <1>1, <1>7, <1>8 DEF Harms
<1>11. ASSUME k = n, b.filled = 0, Direct(content, b, urgent, out, TRUE)
       PROVE  Effect(content)
  <2>1. Contents(b) = <<>>
      BY <1>10, <1>11, ContentsAre, EmptySeq
  <2>2. out = c
      BY <1>6, <1>10, <1>11, <2>1, ConcatEmptySeq
  <2> QED BY <1>10, <1>11, <2>2, DirectEffect
<1>12. ASSUME Backup(content, kept.buf, 1, urgent, out, TRUE, {"twice"} \cup kept.harm)
       PROVE  Effect(content)
  <2> DEFINE code == PackAs(needHead, content)
             d == kept.buf
             both == {"twice"} \cup kept.harm
  <2>1. code \in Seq(Nat)
      BY PackType DEF Shape
  <2>2. kept = backupToSendBuff(b, code, urgent)
      BY <1>9
  <2> HIDE DEF code
  <2>3. BackupOK(kept, b, code)
      BY <1>10, <2>1, <2>2, BackupIs
  <2>4. /\ Sound(d) /\ both \in SUBSET Harms
        /\ both = {} => out \o Contents(d) = Contents(sbuf)
        /\ Backup(content, d, 1, urgent, out, TRUE, both)
      BY <1>12, <2>3 DEF BackupOK, Harms
  <2> HIDE DEF d, both
  <2> QED BY <1>6, <2>4, KeepEffect
<1>13. ASSUME k = n, Return(content, -5, b, out, TRUE, {})
       PROVE  Effect(content)
  <2> DEFINE result == -5
  <2>1. result \in {0, -5, -9}
      OBVIOUS
  <2>2. Return(content, result, b, out, TRUE, {})
      BY <1>13
  <2> HIDE DEF result
  <2> QED BY <1>6, <1>10, <1>13, <2>1, <2>2, RefusedEffect
<1>14. ASSUME Return(content, 0, sbuf, <<>>, TRUE, {})
       PROVE  Effect(content)
  <2> DEFINE x == <<>>
             result == 0
  <2>1. x \in Seq(Nat) /\ x \o Contents(sbuf) = Contents(sbuf)
      BY <1>1, EmptySeq, ConcatEmptySeq
  <2>2. result \in {0, -5, -9}
      OBVIOUS
  <2>3. Return(content, result, sbuf, x, TRUE, {})
      BY <1>14
  <2> HIDE DEF x, result
  <2> QED BY <1>1, <2>1, <2>2, <2>3, RefusedEffect
<1>15. ASSUME Backup(content, b, 1, urgent, out, TRUE, bad)
       PROVE  Effect(content)
    BY <1>6, <1>10, <1>15, KeepEffect
<1> QED BY <1>4, <1>11, <1>12, <1>13, <1>14, <1>15

\* Every way a call of sendCode can end.
LEMMA SendEffect ==
    ASSUME Shape, NEW content \in Given(needHead), NEW urgent \in BOOLEAN,
           sendMessage(content, urgent)
    PROVE  Effect(content)
<1> DEFINE x == <<>>
<1>1. Sound(sbuf) /\ Contents(sbuf) \in Seq(Nat) /\ Len(Contents(sbuf)) = sbuf.filled
    BY ContentsAre DEF Shape
<1>2. x \in Seq(Nat) /\ x \o Contents(sbuf) = Contents(sbuf)
    BY <1>1, EmptySeq, ConcatEmptySeq
<1>3. \/ Return(content, 0, sbuf, x, FALSE, {})
      \/ Return(content, -9, sbuf, x, sbuf.filled > 0, {})
      \/ sbuf.filled = 0 /\ Direct(content, sbuf, urgent, x, FALSE)
      \/ Backup(content, sbuf, 1, urgent, x, FALSE, {})
      \/ sendUnsentCode(content, urgent)
    BY DEF sendMessage
<1>4. sbuf.filled = 0 => x = Contents(sbuf)
    BY <1>1, EmptySeq
<1> HIDE DEF x
<1>5. ASSUME Return(content, 0, sbuf, x, FALSE, {}) PROVE Effect(content)
  <2> DEFINE result == 0
  <2>1. result \in {0, -5, -9}
      OBVIOUS
  <2>2. Return(content, result, sbuf, x, FALSE, {})
      BY <1>5
  <2> HIDE DEF result
  <2> QED BY <1>1, <1>2, <2>1, <2>2, RefusedEffect
<1>6. ASSUME Return(content, -9, sbuf, x, sbuf.filled > 0, {}) PROVE Effect(content)
  <2> DEFINE result == -9
             asked == sbuf.filled > 0
  <2>1. result \in {0, -5, -9}
      OBVIOUS
  <2>2. Return(content, result, sbuf, x, asked, {})
      BY <1>6
  <2> HIDE DEF result, asked
  <2> QED BY <1>1, <1>2, <2>1, <2>2, RefusedEffect
<1>7. ASSUME sbuf.filled = 0, Direct(content, sbuf, urgent, x, FALSE) PROVE Effect(content)
    BY <1>1, <1>4, <1>7, DirectEffect
<1>8. ASSUME Backup(content, sbuf, 1, urgent, x, FALSE, {}) PROVE Effect(content)
  <2> DEFINE none == {}
  <2>1. none \in SUBSET Harms /\ Backup(content, sbuf, 1, urgent, x, FALSE, none)
      BY <1>8
  <2> HIDE DEF none
  <2> QED BY <1>1, <1>2, <2>1, KeepEffect
<1> QED BY <1>3, <1>5, <1>6, <1>7, <1>8, UnsentEffect

-----------------------------------------------------------------------------
(* Receiving: what _readFromBuff finds in bytes that start with the end of *)
(* one code and go on with the next, as far as they have arrived.          *)

\* The first r bytes hold no head, and the code c begins behind them.
Aligned(bytes, r, c) ==
    /\ \A i \in 1 .. Len(bytes) - 1 : i + 1 <= r => ~(bytes[i] = ZERO /\ bytes[i + 1] = ONE)
    /\ \A j \in 1 .. HeadLength + Len(c) : r + j <= Len(bytes) => bytes[r + j] = Packed(c)[j]

Stopped(bytes, w) == w.state = "End" \/ Len(bytes) - w.read <= w.need

\* Where the walk may be.
Place(bytes, r, c, w) ==
    \/ w.state = "Wait" /\ w.need = 5 /\ w.read \in 0 .. r /\ w.code = <<>>
    \/ /\ w.state = "Begin" /\ w.need = 4 /\ w.read \in 1 .. r + 1 /\ w.code = <<>>
       /\ bytes[w.read] = ZERO
    \/ w.state = "Appear" /\ w.need = 3 /\ w.read = r + 2 /\ w.code = <<>>
    \/ w.state = "Prepare" /\ w.need = 2 /\ w.read = r + 3 /\ w.code = <<>>
    \/ /\ w.state = "End" /\ w.need = 5 /\ w.read = r + 5 + Len(c) /\ w.code = c
       /\ r + 5 + Len(c) <= Len(bytes)
    \/ /\ w.state = "End" /\ w.need = 5 /\ w.read = r /\ w.code = <<>>
       /\ Len(bytes) < r + 5 + Len(c)

IsWalk(w) == w = [state |-> w.state, need |-> w.need, read |-> w.read, code |-> w.code]

Walked(bytes, r, c, w, i) ==
    /\ IsWalk(w)
    /\ Place(bytes, r, c, w)
    /\ w.read <= Len(bytes)
    /\ Stopped(bytes, w) \/ w.read = i

\* The bytes at the places around the head.
LEMMA AlignedIs ==
    ASSUME NEW bytes \in Seq(Nat), NEW r \in Nat, NEW c \in Given(TRUE), Aligned(bytes, r, c)
    PROVE  /\ \A i \in 1 .. Len(bytes) :
                 /\ i + 1 <= r /\ i < Len(bytes) => ~(bytes[i] = ZERO /\ bytes[i + 1] = ONE)
                 /\ i = r + 1 => bytes[i] = ZERO
                 /\ i = r + 2 => bytes[i] = ONE
                 /\ i = r + 3 => bytes[i] = ONE
                 /\ i = r + 4 => bytes[i] = ZERO
                 /\ i = r + 5 => bytes[i] = Len(c)
           /\ \A j \in 1 .. Len(c) : r + 5 + j <= Len(bytes) => bytes[r + 5 + j] = c[j]
           /\ c \in Seq(Nat) /\ Len(c) \in {1, 2} /\ Len(bytes) \in Nat
<1>1. c \in Seq(Nat) /\ Len(c) \in {1, 2} /\ Len(bytes) \in Nat
    BY DEF Given
<1>2. /\ HeadLength = 5
      /\ Packed(c)[1] = ZERO /\ Packed(c)[2] = ONE /\ Packed(c)[3] = ONE
      /\ Packed(c)[4] = ZERO /\ Packed(c)[5] = Len(c)
      /\ \A i \in 1 .. Len(c) : Packed(c)[5 + i] = c[i]
    BY <1>1, PackedIs DEF HeadLength, Ones
<1>3. /\ \A i \in 1 .. Len(bytes) : i + 1 <= r /\ i < Len(bytes) => ~(bytes[i] = ZERO /\ bytes[i + 1] = ONE)
      /\ \A j \in 1 .. 5 + Len(c) : r + j <= Len(bytes) => bytes[r + j] = Packed(c)[j]
  <2>1. \A i \in 1 .. Len(bytes) : i < Len(bytes) => i \in 1 .. Len(bytes) - 1
      BY <1>1
  <2> QED BY <1>2, <2>1 DEF Aligned
<1>4. \A j \in 1 .. 5 : r + j <= Len(bytes) => bytes[r + j] = Packed(c)[j]
  <2>1. \A j \in 1 .. 5 : j \in 1 .. 5 + Len(c)
      BY <1>1
  <2> QED BY <1>3, <2>1
<1>5. /\ r + 1 <= Len(bytes) => bytes[r + 1] = ZERO
      /\ r + 2 <= Len(bytes) => bytes[r + 2] = ONE
      /\ r + 3 <= Len(bytes) => bytes[r + 3] = ONE
      /\ r + 4 <= Len(bytes) => bytes[r + 4] = ZERO
      /\ r + 5 <= Len(bytes) => bytes[r + 5] = Len(c)
  <2>1. 1 \in 1 .. 5 /\ 2 \in 1 .. 5 /\ 3 \in 1 .. 5 /\ 4 \in 1 .. 5 /\ 5 \in 1 .. 5
      OBVIOUS
  <2>2. /\ r + 1 <= Len(bytes) => bytes[r + 1] = Packed(c)[1]
        /\ r + 2 <= Len(bytes) => bytes[r + 2] = Packed(c)[2]
        /\ r + 3 <= Len(bytes) => bytes[r + 3] = Packed(c)[3]
        /\ r + 4 <= Len(bytes) => bytes[r + 4] = Packed(c)[4]
        /\ r + 5 <= Len(bytes) => bytes[r + 5] = Packed(c)[5]
      BY ONLY <1>4, <2>1
  <2> QED BY <1>2, <2>2
<1>6. ASSUME NEW j \in 1 .. Len(c), r + 5 + j <= Len(bytes) PROVE bytes[r + 5 + j] = c[j]
  <2>1. 5 + j \in 1 .. 5 + Len(c) /\ r + (5 + j) = r + 5 + j
      BY <1>1
  <2> QED BY <1>2, <1>3, <1>6, <2>1
<1> QED BY <1>1, <1>3, <1>5, <1>6

\* Behind the delimiter.
LEMMA TakeIs ==
    ASSUME NEW bytes \in Seq(Nat), NEW r \in Nat, NEW c \in Given(TRUE), Aligned(bytes, r, c),
           r + 6 <= Len(bytes), NEW w, w = Take(bytes, r + 4), NEW i
    PROVE  Walked(bytes, r, c, w, i)
<1>1. /\ c \in Seq(Nat) /\ Len(c) \in {1, 2} /\ Len(bytes) \in Nat
      /\ bytes[r + 5] = Len(c)
      /\ \A j \in 1 .. Len(c) : r + 5 + j <= Len(bytes) => bytes[r + 5 + j] = c[j]
  <2>1. r + 5 \in 1 .. Len(bytes)
      OBVIOUS
  <2>2. \A k \in 1 .. Len(bytes) : k = r + 5 => bytes[k] = Len(c)
      BY AlignedIs
  <2>3. bytes[r + 5] = Len(c)
      BY <2>1, <2>2
  <2>4. /\ c \in Seq(Nat) /\ Len(c) \in {1, 2} /\ Len(bytes) \in Nat
        /\ \A j \in 1 .. Len(c) : r + 5 + j <= Len(bytes) => bytes[r + 5 + j] = c[j]
      BY AlignedIs
  <2> QED BY <2>3, <2>4
<1>2. (r + 4) + 1 = r + 5 /\ HeadLength = 5 /\ r + 4 + 2 = r + 6 /\ r + 5 - 5 = r
    BY DEF HeadLength, Ones
<1>3. CASE Len(c) > Len(bytes) - (r + 5)
  <2>1. w = [state |-> "End", need |-> 5, read |-> r, code |-> <<>>]
      BY <1>1, <1>2, <1>3 DEF Take
  <2>2. w.state = "End" /\ w.need = 5 /\ w.read = r /\ w.code = <<>> /\ IsWalk(w)
      BY <2>1 DEF IsWalk
  <2>3. Len(bytes) < r + 5 + Len(c) /\ r <= Len(bytes)
    <3> DEFINE k == Len(c)
               n == Len(bytes)
    <3>1. k \in {1, 2} /\ n \in Nat /\ k > n - (r + 5) /\ r \in Nat /\ r + 5 <= n
        BY <1>1, <1>3
    <3> HIDE DEF k, n
    <3>2. n < r + 5 + k /\ r <= n
        BY <3>1
    <3> QED BY <3>2 DEF k, n
  <2> QED BY <2>2, <2>3 DEF Walked, Place, Stopped
<1>4. CASE ~(Len(c) > Len(bytes) - (r + 5))
  <2> DEFINE s == SubSeq(bytes, r + 6, r + 5 + Len(c))
  <2>1. w = [state |-> "End", need |-> 5, read |-> r + 5 + Len(c), code |-> s]
      BY <1>1, <1>2, <1>4 DEF Take
  <2>2. s = c
    <3> DEFINE m == r + 5
               n == r + 5 + Len(c)
    <3>1. m \in Nat /\ n \in Nat /\ m <= n /\ n <= Len(bytes) /\ n - m = Len(c) /\ r + 6 = m + 1
        BY <1>1, <1>4
    <3>2. s = SubSeq(bytes, m + 1, n)
        BY <3>1
    <3>3. ASSUME NEW j \in 1 .. Len(c)
          PROVE  m + j <= Len(bytes) /\ bytes[m + j] = c[j]
      <4>1. r + 5 + j <= Len(bytes)
          BY <1>1, <1>4
      <4> QED BY <1>1, <4>1
    <3> HIDE DEF s, m, n
    <3>4. s \in Seq(Nat) /\ Len(s) = n - m /\ \A j \in 1 .. n - m : s[j] = bytes[m + j]
      <4>1. SubSeq(bytes, m + 1, n) \in Seq(Nat) /\ Piece(SubSeq(bytes, m + 1, n), bytes, m, n)
          BY <3>1, PieceOf
      <4>2. s \in Seq(Nat) /\ Piece(s, bytes, m, n)
          BY <3>2, <4>1
      <4> QED BY <4>2 DEF Piece
    <3>5. Len(s) = Len(c) /\ \A j \in 1 .. Len(s) : s[j] = c[j]
        BY <3>1, <3>3, <3>4
    <3> QED BY <1>1, <3>4, <3>5, SeqEqual
  <2> HIDE DEF s
  <2>3. /\ w.state = "End" /\ w.need = 5 /\ w.read = r + 5 + Len(c) /\ w.code = c
        /\ IsWalk(w)
      BY <2>1, <2>2 DEF IsWalk
  <2>4. r + 5 + Len(c) <= Len(bytes)
      BY <1>1, <1>4
  <2> QED BY <2>3, <2>4 DEF Walked, Place, Stopped
<1> QED BY <1>3, <1>4

\* One more byte.
LEMMA StepIs ==
    ASSUME NEW bytes \in Seq(Nat), NEW r \in Nat, NEW c \in Given(TRUE), Aligned(bytes, r, c),
           NEW i \in 1 .. Len(bytes), NEW w, Walked(bytes, r, c, w, i - 1)
    PROVE  Walked(bytes, r, c, Walk(bytes, w, bytes[i]), i)
<1> DEFINE b == bytes[i]
           next == Seek(w, b)
           v == Walk(bytes, w, b)
           u == [w EXCEPT !.state = next[1], !.need = next[2], !.read = @ + 1]
<1> SUFFICES Walked(bytes, r, c, v, i)
    OBVIOUS
<1>1. /\ IsWalk(w) /\ Place(bytes, r, c, w) /\ w.read <= Len(bytes)
      /\ Stopped(bytes, w) \/ w.read = i - 1
    BY DEF Walked
<1>2. v = IF Stopped(bytes, w) THEN w
          ELSE IF next[1] = "Found" THEN Take(bytes, w.read + 1) ELSE u
    BY DEF Walk, Stopped
<1>3. CASE Stopped(bytes, w)
    BY <1>1, <1>2, <1>3 DEF Walked
<1>4. CASE ~Stopped(bytes, w)
  <2>1. /\ \A k \in 1 .. Len(bytes) :
              /\ k + 1 <= r /\ k < Len(bytes) => ~(bytes[k] = ZERO /\ bytes[k + 1] = ONE)
              /\ k = r + 1 => bytes[k] = ZERO
              /\ k = r + 2 => bytes[k] = ONE
              /\ k = r + 3 => bytes[k] = ONE
              /\ k = r + 4 => bytes[k] = ZERO
              /\ k = r + 5 => bytes[k] = Len(c)
        /\ Len(c) \in {1, 2} /\ Len(bytes) \in Nat
      BY AlignedIs
  <2>2. i \in Nat /\ i >= 1 /\ i <= Len(bytes) /\ Len(bytes) \in Nat /\ r \in Nat
      BY <2>1
  <2>3. w.read = i - 1 /\ w.state # "End" /\ ~(Len(bytes) - w.read <= w.need)
      BY <1>1, <1>4 DEF Stopped
  <2>4. /\ i = r + 1 => b = ZERO
        /\ i = r + 2 => b = ONE
        /\ i = r + 3 => b = ONE
        /\ i = r + 4 => b = ZERO
      BY <2>1
  <2>5. ZERO # ONE
      BY DEF ZERO, ONE
  <2>6. /\ IsWalk(u) /\ u.state = next[1] /\ u.need = next[2] /\ u.read = w.read + 1
        /\ u.code = w.code
    <3> DEFINE x == next[1]
               y == next[2]
    <3>1. w = [state |-> w.state, need |-> w.need, read |-> w.read, code |-> w.code]
        BY <1>1 DEF IsWalk
    <3>2. u = [w EXCEPT !.state = x, !.need = y, !.read = @ + 1]
        OBVIOUS
    <3> HIDE DEF u, x, y
    <3>3. u = [state |-> x, need |-> y, read |-> w.read + 1, code |-> w.code]
        BY <3>1, <3>2
    <3>4. /\ IsWalk(u) /\ u.state = x /\ u.need = y /\ u.read = w.read + 1
          /\ u.code = w.code
        BY <3>3 DEF IsWalk
    <3> QED BY <3>4 DEF x, y, u
  <2>7. u.read = i
      BY <2>2, <2>3, <2>6
  <2> HIDE DEF b, u, v, next
  <2>8. CASE w.state = "Wait"
    <3>1. w.need = 5 /\ w.read \in 0 .. r /\ w.code = <<>>
        BY <1>1, <2>8 DEF Place
    <3>2. CASE b = ZERO
      <4>1. next = <<"Begin", 4>>
          BY <2>8, <3>1, <3>2 DEF Seek, next
      <4>2. v = u /\ u.state = "Begin" /\ u.need = 4
          BY <1>2, <1>4, <2>6, <4>1
      <4>3. i \in 1 .. r + 1
          BY <2>2, <2>3, <3>1
      <4>4. Place(bytes, r, c, u)
          BY <2>6, <2>7, <3>1, <3>2, <4>2, <4>3 DEF Place, b
      <4> QED BY <2>2, <2>6, <2>7, <4>2, <4>4 DEF Walked
    <3>3. CASE b # ZERO
      <4>1. next = <<"Wait", 5>>
          BY <2>8, <3>3 DEF Seek, next, HeadLength, Ones
      <4>2. v = u /\ u.state = "Wait" /\ u.need = 5
          BY <1>2, <1>4, <2>6, <4>1
      <4>3. i \in 0 .. r
          BY <2>2, <2>3, <2>4, <3>1, <3>3
      <4>4. Place(bytes, r, c, u)
          BY <2>6, <2>7, <3>1, <4>2, <4>3 DEF Place
      <4> QED BY <2>2, <2>6, <2>7, <4>2, <4>4 DEF Walked
    <3> QED BY <3>2, <3>3 DEF b
  <2>9. CASE w.state = "Begin"
    <3>1. /\ w.need = 4 /\ w.read \in 1 .. r + 1 /\ w.code = <<>>
          /\ bytes[w.read] = ZERO
        BY <1>1, <2>9 DEF Place
    <3>2. i \in 2 .. r + 2
        BY <2>2, <2>3, <3>1
    <3>3. i <= r => b # ONE
      <4>1. i - 1 \in 1 .. Len(bytes) /\ (i - 1) + 1 = i /\ i - 1 < Len(bytes)
          BY <2>2, <3>2
      <4>2. i <= r => ~(bytes[i - 1] = ZERO /\ bytes[i] = ONE)
          BY <2>1, <4>1
      <4> QED BY <2>3, <3>1, <4>2 DEF b
    <3>4. CASE b = ONE
      <4>1. next = <<"Appear", 3>>
          BY <2>9, <3>1, <3>4, <2>5 DEF Seek, next
      <4>2. v = u /\ u.state = "Appear" /\ u.need = 3
          BY <1>2, <1>4, <2>6, <4>1
      <4>3. i = r + 2
          BY <2>2, <2>4, <2>5, <3>2, <3>3, <3>4
      <4>4. Place(bytes, r, c, u)
          BY <2>6, <2>7, <3>1, <4>2, <4>3 DEF Place
      <4> QED BY <2>2, <2>6, <2>7, <4>2, <4>4 DEF Walked
    <3>5. CASE b = ZERO
      <4>1. next = <<"Begin", 4>>
          BY <2>9, <3>1, <3>5, <2>5 DEF Seek, next
      <4>2. v = u /\ u.state = "Begin" /\ u.need = 4
          BY <1>2, <1>4, <2>6, <4>1
      <4>3. i \in 1 .. r + 1
          BY <2>2, <2>4, <2>5, <3>2, <3>5
      <4>4. Place(bytes, r, c, u)
          BY <2>6, <2>7, <3>1, <3>5, <4>2, <4>3 DEF Place, b
      <4> QED BY <2>2, <2>6, <2>7, <4>2, <4>4 DEF Walked
    <3>6. CASE b # ONE /\ b # ZERO
      <4>1. next = <<"Wait", 5>>
          BY <2>9, <3>6 DEF Seek, next, HeadLength, Ones
      <4>2. v = u /\ u.state = "Wait" /\ u.need = 5
          BY <1>2, <1>4, <2>6, <4>1
      <4>3. i \in 0 .. r
          BY <2>2, <2>4, <3>2, <3>6
      <4>4. Place(bytes, r, c, u)
          BY <2>6, <2>7, <3>1, <4>2, <4>3 DEF Place
      <4> QED BY <2>2, <2>6, <2>7, <4>2, <4>4 DEF Walked
    <3> QED BY <3>4, <3>5, <3>6 DEF b
  <2>10. CASE w.state = "Appear"
    <3>1. w.need = 3 /\ w.read = r + 2 /\ w.code = <<>>
        BY <1>1, <2>10 DEF Place
    <3>6. i = r + 3
        BY <2>2, <2>3, <3>1
    <3>2. i = r + 3 /\ b = ONE
        BY <2>4, <3>6
    <3>3. next = <<"Prepare", 2>>
        BY <2>5, <2>10, <3>1, <3>2 DEF Seek, next
    <3>4. v = u /\ u.state = "Prepare" /\ u.need = 2
        BY <1>2, <1>4, <2>6, <3>3
    <3>5. Place(bytes, r, c, u)
        BY <2>6, <2>7, <3>1, <3>2, <3>4 DEF Place
    <3> QED BY <2>2, <2>6, <2>7, <3>4, <3>5 DEF Walked
  <2>11. CASE w.state = "Prepare"
    <3>1. w.need = 2 /\ w.read = r + 3 /\ w.code = <<>>
        BY <1>1, <2>11 DEF Place
    <3>2. i = r + 4 /\ b = ZERO /\ r + 6 <= Len(bytes) /\ w.read + 1 = r + 4
      <4>1. i = r + 4 /\ w.read + 1 = r + 4
          BY <2>2, <2>3, <3>1
      <4>2. r + 6 <= Len(bytes)
          BY <2>2, <2>3, <3>1
      <4> QED BY <2>4, <4>1, <4>2
    <3>3. next = <<"Found", 2>>
        BY <2>5, <2>11, <3>1, <3>2 DEF Seek, next
    <3>4. v = Take(bytes, r + 4)
        BY <1>2, <1>4, <3>2, <3>3
    <3> QED BY <3>2, <3>4, TakeIs
  <2> QED BY <1>1, <2>3, <2>8, <2>9, <2>10, <2>11 DEF Place, b
<1> QED BY <1>3, <1>4

\* The recursion has one solution.
Steps(bytes, f) ==
    [i \in 0 .. Len(bytes) |->
        IF i = 0 THEN StartWalk ELSE Walk(bytes, f[i - 1], bytes[i])]

LEMMA WalkExists ==
    ASSUME NEW bytes \in Seq(Nat)
    PROVE  \E f : f = Steps(bytes, f)
<1> DEFINE B(g, i) == IF i = 0 THEN StartWalk ELSE Walk(bytes, g[i - 1], bytes[i])
           P(k, g) == g = [i \in 0 .. k |-> B(g, i)]
           T == {k \in Nat : \E g : P(k, g)}
<1>1. Len(bytes) \in Nat
    OBVIOUS
<1>2. 0 \in T
  <2> DEFINE g == [i \in 0 .. 0 |-> StartWalk]
  <2>1. P(0, g)
      OBVIOUS
  <2> QED BY <2>1
<1>3. ASSUME NEW k \in 1 .. Len(bytes), k - 1 \in T PROVE k \in T
  <2>1. PICK g : P(k - 1, g)
      BY <1>3
  <2> DEFINE h == [i \in 0 .. k |-> IF i = k THEN B(g, k) ELSE g[i]]
  <2>2. ASSUME NEW i \in 0 .. k PROVE h[i] = B(h, i)
    <3>1. CASE i = k
      <4>1. k - 1 \in 0 .. k /\ k - 1 # k /\ k # 0
          OBVIOUS
      <4>2. h[k - 1] = g[k - 1] /\ h[i] = B(g, k)
          BY <3>1, <4>1
      <4> HIDE DEF h
      <4> QED BY <3>1, <4>1, <4>2
    <3>2. CASE i # k
      <4>1. i \in 0 .. k - 1 /\ (i # 0 => i - 1 \in 0 .. k - 1 /\ i - 1 # k /\ i - 1 \in 0 .. k)
          BY <3>2
      <4>2. h[i] = g[i] /\ (i # 0 => h[i - 1] = g[i - 1])
          BY <3>2, <4>1
      <4>3. g[i] = B(g, i)
          BY <2>1, <4>1
      <4> HIDE DEF h
      <4> QED BY <4>2, <4>3
    <3> QED BY <3>1, <3>2
  <2>3. h = [i \in 0 .. k |-> h[i]]
      OBVIOUS
  <2> HIDE DEF h, B
  <2>4. P(k, h)
      BY <2>2, <2>3
  <2> QED BY <1>1, <2>4
<1> HIDE DEF T
<1>4. 0 .. Len(bytes) \subseteq T
    BY <1>1, <1>2, <1>3, FromZero
<1>5. Len(bytes) \in T
    BY <1>1, <1>4
<1>6. PICK g : P(Len(bytes), g)
    BY <1>5 DEF T
<1> QED BY <1>6 DEF Steps

\* What _readFromBuff finds: the next code as soon as all of it has arrived,
\* and what is in front of it is done with then and only then.
LEMMA ReadIs ==
    ASSUME NEW bytes \in Seq(Nat), NEW r \in Nat, NEW c \in Given(TRUE), Aligned(bytes, r, c),
           NEW found, found = _readFromBuff(bytes)
    PROVE  /\ found.used \in 0 .. Len(bytes)
           /\ IF r + 5 + Len(c) <= Len(bytes)
              THEN found.code = c /\ found.used = r + 5 + Len(c)
              ELSE found.code = <<>> /\ found.used <= r
<1> DEFINE walk == CHOOSE f : f = Steps(bytes, f)
           n == Len(bytes)
           w == walk[n]
<1>1. n \in Nat /\ Len(c) \in Nat
    BY DEF Given
<1>2. walk = Steps(bytes, walk)
    BY WalkExists
<1>3. found = [code |-> w.code, used |-> w.read - (HeadLength - w.need)]
    BY DEF _readFromBuff, Steps
<1> HIDE DEF walk
<1>4. walk[0] = StartWalk /\ \A i \in 1 .. n : walk[i] = Walk(bytes, walk[i - 1], bytes[i])
  <2>1. 0 \in 0 .. n /\ \A i \in 1 .. n : i \in 0 .. n /\ i # 0
      BY <1>1
  <2>2. \A i \in 0 .. n : walk[i] = IF i = 0 THEN StartWalk
                                    ELSE Walk(bytes, walk[i - 1], bytes[i])
      BY <1>2 DEF Steps
  <2> HIDE DEF n
  <2> QED BY <2>1, <2>2
<1> DEFINE T == {i \in Nat : Walked(bytes, r, c, walk[i], i)}
<1>5. 0 \in T
  <2>1. /\ StartWalk.state = "Wait" /\ StartWalk.need = 5 /\ StartWalk.read = 0
        /\ StartWalk.code = <<>> /\ IsWalk(StartWalk)
      BY DEF StartWalk, IsWalk, HeadLength, Ones
  <2>2. Walked(bytes, r, c, StartWalk, 0)
      BY <1>1, <2>1 DEF Walked, Place
  <2> QED BY <1>4, <2>2
<1>6. ASSUME NEW i \in 1 .. n, i - 1 \in T PROVE i \in T
  <2>1. Walked(bytes, r, c, walk[i - 1], i - 1)
      BY <1>6
  <2> DEFINE v == walk[i - 1]
  <2>2. Walked(bytes, r, c, v, i - 1)
      BY <2>1
  <2>3. walk[i] = Walk(bytes, v, bytes[i]) /\ i \in Nat
      BY <1>1, <1>4
  <2> HIDE DEF v
  <2>4. Walked(bytes, r, c, Walk(bytes, v, bytes[i]), i)
      BY <2>2, StepIs
  <2> QED BY <2>3, <2>4
<1> HIDE DEF T
<1>7. 0 .. n \subseteq T
    BY <1>1, <1>5, <1>6, FromZero
<1>8. Walked(bytes, r, c, w, n)
    BY <1>1, <1>7 DEF T
<1> HIDE DEF w
<1>9. /\ Place(bytes, r, c, w) /\ w.read <= n /\ (Stopped(bytes, w) \/ w.read = n)
      /\ HeadLength = 5
    BY <1>8 DEF Walked, HeadLength, Ones
<1>10. found.code = w.code /\ found.used = w.read - (5 - w.need)
    BY <1>3, <1>9
<1>11. CASE w.state = "End" /\ w.read = r + 5 + Len(c)
  <2>1. w.need = 5 /\ w.code = c /\ r + 5 + Len(c) <= n
      BY <1>1, <1>9, <1>11 DEF Place
  <2> QED BY <1>1, <1>10, <1>11, <2>1
<1>12. CASE w.state = "End" /\ w.read # r + 5 + Len(c)
  <2>1. w.need = 5 /\ w.code = <<>> /\ w.read = r /\ n < r + 5 + Len(c)
      BY <1>9, <1>12 DEF Place
  <2> QED BY <1>1, <1>9, <1>10, <2>1
<1>13. CASE w.state # "End"
  <2>1. n - w.read <= w.need
    <3>1. /\ w.read = n => n - w.read = 0
          /\ w.need \in {2, 3, 4, 5}
        BY <1>1, <1>9, <1>13 DEF Place
    <3> QED BY <1>9, <1>13, <3>1 DEF Stopped
  <2>2. /\ w.code = <<>>
        /\ \/ w.need = 5 /\ w.read \in 0 .. r
           \/ w.need = 4 /\ w.read \in 1 .. r + 1
           \/ w.need = 3 /\ w.read = r + 2
           \/ w.need = 2 /\ w.read = r + 3
      BY <1>9, <1>13 DEF Place
  <2>3. Len(c) > 0
      BY DEF Given
  <2>4. ~(r + 5 + Len(c) <= n) /\ found.used \in 0 .. n /\ found.used <= r
    <3> DEFINE d == w.need
               e == w.read
               m == Len(c)
               k == found.used
    <3>1. /\ n \in Nat /\ m \in Nat /\ m > 0 /\ e <= n /\ n - e <= d /\ k = e - (5 - d)
          /\ \/ d = 5 /\ e \in 0 .. r
             \/ d = 4 /\ e \in 1 .. r + 1
             \/ d = 3 /\ e = r + 2
             \/ d = 2 /\ e = r + 3
        BY <1>1, <1>9, <1>10, <2>1, <2>2, <2>3
    <3> HIDE DEF n, d, e, m, k
    <3>2. ~(r + 5 + m <= n) /\ k \in 0 .. n /\ k <= r
        BY <3>1
    <3> QED BY <3>2 DEF n, m, k
  <2> QED BY <1>10, <2>2, <2>4
<1> QED BY <1>11, <1>12, <1>13

\* Where a code is on the connection.
Lies(r, p, m, s) ==
    /\ Reach(r, p, m) \in Nat
    /\ p[m + 1] \in Given(TRUE) /\ Len(p[m + 1]) \in Nat \ {0}
    /\ Reach(r, p, m + 1) = Reach(r, p, m) + 5 + Len(p[m + 1])
    /\ \A j \in 1 .. 5 + Len(p[m + 1]) : s[Reach(r, p, m) + j] = Packed(p[m + 1])[j]

LEMMA ReachIs ==
    ASSUME NEW r \in Seq(Nat), NEW p \in Seq(Given(TRUE)), NEW m \in 0 .. Len(p), m < Len(p)
    PROVE  Lies(r, p, m, r \o CodesAs(TRUE, p))
<1> DEFINE c == p[m + 1]
           a == SubSeq(p, 1, m)
           z == SubSeq(p, m + 2, Len(p))
           one == <<c>>
<1>1. Len(p) \in Nat /\ m \in Nat /\ m + 1 \in 1 .. Len(p) /\ m + 1 \in 0 .. Len(p)
    OBVIOUS
<1>2. c \in Given(TRUE) /\ c \in Seq(Nat) /\ Len(c) \in Nat \ {0}
    BY <1>1, ElementOfSeq, GivenType
<1>18. SubSeq(p, 1, m + 1) = SubSeq(p, 1, m) \o <<c>>
  <2>1. 1 \in 1 .. Len(p) /\ m + 1 \in 1 .. Len(p) /\ (m + 1) - 1 = m
      BY <1>1
  <2>2. m + 1 \in 1 .. m + 1
      BY <1>1
  <2> QED BY <1>1, <2>1, <2>2, SubSeqRecursiveSecond
<1> HIDE DEF c
<1>3. a \in Seq(Given(TRUE)) /\ one \in Seq(Given(TRUE)) /\ z \in Seq(Given(TRUE))
  <2>1. a \in Seq(Given(TRUE))
      BY <1>1, CutIs
  <2>2. one \in Seq(Given(TRUE))
      BY <1>2, OneIs
  <2>3. m + 2 = (m + 1) + 1
      BY <1>1
  <2>4. z \in Seq(Given(TRUE))
      BY <1>1, <2>3, CutIs
  <2> QED BY <2>1, <2>2, <2>4
<1>4. SubSeq(p, 1, m + 1) = a \o one
    BY <1>18
<1>5. p = SubSeq(p, 1, m + 1) \o z
  <2>1. m + 2 = (m + 1) + 1
      BY <1>1
  <2> QED BY <1>1, <2>1, CutIs
<1> HIDE DEF a, z, one
<1> DEFINE A == CodesAs(TRUE, a)
           C == Packed(c)
           Z == CodesAs(TRUE, z)
           AC == A \o C
           all == AC \o Z
           stream == r \o all
<1>6. A \in Seq(Nat) /\ Z \in Seq(Nat) /\ C \in Seq(Nat) /\ Len(C) = 5 + Len(c)
  <2>1. HeadLength = 5
      BY DEF HeadLength, Ones
  <2> QED BY <1>2, <1>3, <2>1, CodesType, PackedIs
<1>7. CodesAs(TRUE, one) = C
  <2>1. CodesAs(TRUE, <<c>>) = PackAs(TRUE, c)
      BY <1>2, CodesOne
  <2> QED BY <2>1 DEF one, PackAs
<1>8. CodesAs(TRUE, SubSeq(p, 1, m + 1)) = AC
    BY <1>3, <1>4, <1>7, CodesConcat
<1>9. CodesAs(TRUE, p) = all
  <2> DEFINE q == SubSeq(p, 1, m + 1)
  <2>1. q \in Seq(Given(TRUE))
      BY <1>1, CutIs
  <2>2. p = q \o z /\ CodesAs(TRUE, q) = AC
      BY <1>5, <1>8
  <2> HIDE DEF q, AC
  <2>3. CodesAs(TRUE, q \o z) = AC \o Z
      BY <1>3, <2>1, <2>2, CodesConcat
  <2> QED BY <2>2, <2>3
<1> HIDE DEF A, C, Z
<1>10. AC \in Seq(Nat) /\ Joined(AC, A, C)
    BY <1>6, JoinIs
<1> HIDE DEF AC
<1>11. all \in Seq(Nat) /\ Joined(all, AC, Z)
    BY <1>6, <1>10, JoinIs
<1> HIDE DEF all
<1>12. stream \in Seq(Nat) /\ Joined(stream, r, all)
    BY <1>11, JoinIs
<1> HIDE DEF stream
<1>13. Reach(r, p, m) = Len(r) + Len(A) /\ Reach(r, p, m + 1) = Len(r) + Len(AC)
    BY <1>8 DEF Reach, A, a
<1>14. /\ Len(r) \in Nat /\ Len(A) \in Nat /\ Len(Z) \in Nat
       /\ Len(AC) = Len(A) + Len(C) /\ Len(all) = Len(AC) + Len(Z)
       /\ Len(C) = 5 + Len(c) /\ Len(c) \in Nat
    BY <1>2, <1>6, <1>10, <1>11, <1>12 DEF Joined
<1>15. ASSUME NEW j \in 1 .. Len(C)
       PROVE  stream[Reach(r, p, m) + j] = C[j]
  <2> DEFINE k == Len(A) + j
  <2>1. k \in 1 .. Len(AC) /\ k \in 1 .. Len(all) /\ Reach(r, p, m) + j = Len(r) + k
      BY <1>13, <1>14
  <2>2. AC[k] = C[j]
      BY <1>10 DEF Joined
  <2> HIDE DEF k
  <2>3. all[k] = AC[k] /\ stream[Len(r) + k] = all[k]
      BY <1>11, <1>12, <2>1 DEF Joined
  <2> QED BY <2>1, <2>2, <2>3
<1>16. Reach(r, p, m) \in Nat /\ Reach(r, p, m + 1) = Reach(r, p, m) + 5 + Len(c)
    BY <1>13, <1>14
<1>17. stream = r \o CodesAs(TRUE, p)
    BY <1>9 DEF stream
<1>19. c = p[m + 1]
    BY DEF c
<1>20. \A j \in 1 .. 5 + Len(c) : stream[Reach(r, p, m) + j] = Packed(c)[j]
    BY <1>14, <1>15 DEF C
<1> QED BY <1>2, <1>16, <1>17, <1>19, <1>20 DEF Lies

\* The whole stream, and the place behind all of it.
LEMMA ReachAll ==
    ASSUME NEW r \in Seq(Nat), NEW p \in Seq(Given(TRUE))
    PROVE  /\ Reach(r, p, Len(p)) = Len(r \o CodesAs(TRUE, p))
           /\ Reach(r, p, 0) = Len(r)
           /\ Joined(r \o CodesAs(TRUE, p), r, CodesAs(TRUE, p))
<1>1. SubSeq(p, 1, Len(p)) = p
    BY SubSeqFull
<1>5. SubSeq(p, 1, 0) = <<>>
    BY SubSeqEmpty
<1>2. CodesAs(TRUE, p) \in Seq(Nat)
  <2>1. TRUE \in BOOLEAN
      OBVIOUS
  <2> QED BY <2>1, CodesType
<1>3. Joined(r \o CodesAs(TRUE, p), r, CodesAs(TRUE, p))
    BY <1>2, JoinIs
<1>4. CodesAs(TRUE, <<>>) = <<>> /\ Len(<<>>) = 0
    BY CodesEmpty, EmptySeq
<1>6. Reach(r, p, Len(p)) = Len(r) + Len(CodesAs(TRUE, p))
    BY <1>1 DEF Reach
<1>7. Reach(r, p, 0) = Len(r) + 0
    BY <1>4, <1>5 DEF Reach
<1> DEFINE n == Len(r)
<1>8. n \in Nat /\ Len(r \o CodesAs(TRUE, p)) = n + Len(CodesAs(TRUE, p))
    BY <1>3 DEF Joined
<1>9. n + 0 = n
    BY <1>8
<1> QED BY <1>3, <1>6, <1>7, <1>8, <1>9

\* The bytes kept in the buffer, against the codes.
OnWire(r, p, w) ==
    /\ r \in Seq(Nat) /\ NoHead(r) /\ p \in Seq(Given(TRUE)) /\ w \in Seq(Nat)
    /\ \E u \in Seq(Nat) : w \o u = r \o CodesAs(TRUE, p)

KeptOK(r, p, m, d, n, bytes) ==
    /\ bytes \in Seq(Nat) /\ Len(bytes) = n
    /\ Reach(r, p, m) - d \in Nat
    /\ m # 0 => Reach(r, p, m) = d
    /\ \E c \in Given(TRUE) :
          /\ Aligned(bytes, Reach(r, p, m) - d, c)
          /\ m < Len(p) => /\ c = p[m + 1]
                           /\ Reach(r, p, m + 1) = Reach(r, p, m) + 5 + Len(c)
          /\ m = Len(p) => Len(bytes) <= Reach(r, p, m) - d

LEMMA KeptAligned ==
    ASSUME NEW r, NEW p, NEW w, OnWire(r, p, w),
           NEW m \in 0 .. Len(p), NEW t \in 0 .. Len(w), NEW d \in 0 .. t,
           Behind(r, p, d, m), NEW bytes, bytes = SubSeq(w, d + 1, t)
    PROVE  KeptOK(r, p, m, d, t - d, bytes)
<1>13. /\ r \in Seq(Nat) /\ NoHead(r) /\ p \in Seq(Given(TRUE)) /\ w \in Seq(Nat)
       /\ \E u \in Seq(Nat) : w \o u = r \o CodesAs(TRUE, p)
    BY DEF OnWire
<1>14. PICK u \in Seq(Nat) : w \o u = r \o CodesAs(TRUE, p)
    BY <1>13
<1> DEFINE all == CodesAs(TRUE, p)
           stream == r \o all
           R == Reach(r, p, m)
<1>1. /\ all \in Seq(Nat) /\ Joined(stream, r, all)
      /\ Reach(r, p, Len(p)) = Len(stream) /\ Reach(r, p, 0) = Len(r)
  <2>1. TRUE \in BOOLEAN
      OBVIOUS
  <2> QED BY <1>13, <2>1, CodesType, ReachAll
<1>2. Joined(stream, w, u)
  <2>1. Joined(w \o u, w, u)
      BY <1>13, <1>14, JoinIs
  <2> QED BY <1>14, <2>1
<1> HIDE DEF all, stream
<1>3. /\ Len(r) \in Nat /\ Len(all) \in Nat /\ Len(stream) = Len(r) + Len(all)
      /\ Len(w) \in Nat /\ Len(u) \in Nat /\ Len(stream) = Len(w) + Len(u)
      /\ \A i \in 1 .. Len(r) : stream[i] = r[i]
      /\ \A i \in 1 .. Len(w) : stream[i] = w[i]
    BY <1>1, <1>2 DEF Joined
<1>4. t \in Nat /\ d \in Nat /\ d <= t /\ t <= Len(w) /\ m \in Nat /\ Len(p) \in Nat
    BY <1>3
<1>5. bytes \in Seq(Nat) /\ Len(bytes) = t - d /\ \A i \in 1 .. t - d : bytes[i] = w[d + i]
  <2> DEFINE e == SubSeq(w, d + 1, t)
  <2>1. e \in Seq(Nat) /\ Piece(e, w, d, t)
      BY <1>4, <1>13, PieceOf
  <2>2. bytes = e
      OBVIOUS
  <2> HIDE DEF e
  <2> QED BY <2>1, <2>2 DEF Piece
<1>6. m < Len(p) =>
         /\ R \in Nat /\ p[m + 1] \in Given(TRUE) /\ Len(p[m + 1]) \in Nat \ {0}
         /\ Reach(r, p, m + 1) = R + 5 + Len(p[m + 1])
         /\ \A j \in 1 .. 5 + Len(p[m + 1]) : stream[R + j] = Packed(p[m + 1])[j]
  <2>1. stream = r \o CodesAs(TRUE, p)
      BY DEF stream, all
  <2>2. m < Len(p) => Lies(r, p, m, r \o CodesAs(TRUE, p))
      BY <1>13, ReachIs
  <2>3. m < Len(p) => Lies(r, p, m, stream)
      BY <2>1, <2>2
  <2> QED BY <2>3 DEF Lies
<1>7. R \in Nat /\ (m = 0 => R = Len(r)) /\ (m # 0 => R = d) /\ (m = Len(p) => R = Len(stream))
  <2>1. m = Len(p) \/ m < Len(p)
      BY <1>4
  <2> QED BY <1>1, <1>3, <1>6, <2>1 DEF Behind
<1>8. R - d \in Nat
  <2>1. m = 0 => d <= Len(r)
      BY DEF Behind
  <2> HIDE DEF R
  <2> QED BY <1>3, <1>4, <1>7, <2>1
<1> HIDE DEF R
<1>9. ASSUME NEW i \in 1 .. Len(bytes) PROVE bytes[i] = stream[d + i] /\ d + i \in 1 .. Len(w)
  <2>1. i \in 1 .. t - d /\ d + i \in 1 .. Len(w)
      BY <1>4, <1>5
  <2> QED BY <1>3, <1>5, <2>1
<1>10. ASSUME NEW i \in 1 .. Len(bytes) - 1, i + 1 <= R - d
       PROVE  ~(bytes[i] = ZERO /\ bytes[i + 1] = ONE)
  <2>1. m = 0
      BY <1>4, <1>7, <1>10
  <2>2. i \in 1 .. Len(bytes) /\ i + 1 \in 1 .. Len(bytes) /\ i \in Nat
      BY <1>4, <1>5
  <2>3. /\ d + i \in 1 .. Len(r) - 1 /\ d + i \in 1 .. Len(r) /\ d + i + 1 \in 1 .. Len(r)
        /\ d + (i + 1) = d + i + 1
    <3>1. R = Len(r)
        BY <1>7, <2>1
    <3> QED BY <1>3, <1>4, <1>10, <2>2, <3>1
  <2>4. bytes[i] = r[d + i] /\ bytes[i + 1] = r[d + i + 1]
      BY <1>3, <1>9, <2>2, <2>3
  <2> QED BY <1>13, <2>3, <2>4 DEF NoHead
<1>11. CASE m < Len(p)
  <2> DEFINE c == p[m + 1]
  <2>1. ASSUME NEW j \in 1 .. HeadLength + Len(c), R - d + j <= Len(bytes)
        PROVE  bytes[R - d + j] = Packed(c)[j]
    <3>1. j \in 1 .. 5 + Len(c) /\ Len(c) \in Nat
        BY <1>6, <1>11 DEF HeadLength, Ones
    <3>2. R - d + j \in 1 .. Len(bytes) /\ d + (R - d + j) = R + j
      <4> DEFINE e == R - d
                 n == Len(bytes)
      <4>1. /\ e \in Nat /\ n = t - d /\ e + j <= n /\ j \in Nat /\ j >= 1
            /\ R \in Nat /\ e = R - d /\ d \in Nat /\ t \in Nat
          BY <1>4, <1>5, <1>7, <1>8, <2>1, <3>1
      <4> HIDE DEF e, n
      <4>2. e + j \in 1 .. n /\ d + (e + j) = R + j
          BY <4>1
      <4> QED BY <4>2 DEF e, n
    <3>3. bytes[R - d + j] = stream[R + j]
        BY <1>9, <3>2
    <3> QED BY <1>6, <1>11, <3>1, <3>3
  <2>2. Aligned(bytes, R - d, c)
      BY <1>10, <2>1 DEF Aligned
  <2>3. m # Len(p)
      BY <1>4, <1>11
  <2> QED BY <1>5, <1>6, <1>7, <1>8, <1>11, <2>2, <2>3 DEF R, KeptOK
<1>12. CASE ~(m < Len(p))
  <2> DEFINE c == <<1>>
  <2>1. c \in Given(TRUE) /\ Len(c) \in Nat
      BY DEF Given, ZERO
  <2>2. m = Len(p) /\ Len(bytes) <= R - d /\ Len(bytes) \in Nat
      BY <1>3, <1>4, <1>5, <1>7, <1>12
  <2> HIDE DEF c
  <2>3. ASSUME NEW j \in 1 .. HeadLength + Len(c), R - d + j <= Len(bytes) PROVE FALSE
    <3>1. HeadLength + Len(c) \in Nat /\ j > 0
        BY <2>1 DEF HeadLength, Ones
    <3> QED BY <1>8, <2>2, <2>3, <3>1
  <2>4. Aligned(bytes, R - d, c)
      BY <1>10, <2>3 DEF Aligned
  <2> QED BY <1>5, <1>7, <1>8, <1>12, <2>1, <2>2, <2>4 DEF R, KeptOK
<1> QED BY <1>11, <1>12

\* A code is handed out, or the buffer waits for more: the invariant of the
\* receiver with t bytes read.
LEMMA DeliverIs ==
    ASSUME OnWire(rest, promised, wire), NEW t \in 0 .. Len(wire), NEW b, Sound(b),
           FramedAt(rest, promised, wire, t, b, TRUE, received), Deliver(b)
    PROVE  /\ Sound(rbuf') /\ hasMessage' \in BOOLEAN /\ (~hasMessage' => rbuf'.head = 0)
           /\ FramedAt(rest, promised, wire, t, rbuf', hasMessage', received')
<1> DEFINE bytes == Contents(b)
           found == _readFromBuff(bytes)
           left == Pop(b, b.filled, found.used)
           d == t - b.filled
<1>1. /\ bytes \in Seq(Nat) /\ Len(bytes) = b.filled /\ b.filled \in 0 .. Size
    BY ContentsAre
<1>18. /\ rest \in Seq(Nat) /\ promised \in Seq(Given(TRUE)) /\ wire \in Seq(Nat)
    BY DEF OnWire
<1>2. /\ b.filled <= t /\ bytes = SubSeq(wire, d + 1, t)
    BY DEF FramedAt
<1>17. \E m \in 0 .. Len(promised) :
           received = SubSeq(promised, 1, m) /\ Behind(rest, promised, d, m)
    BY DEF FramedAt
<1> HIDE DEF bytes, d
<1>3. PICK m \in 0 .. Len(promised) :
         received = SubSeq(promised, 1, m) /\ Behind(rest, promised, d, m)
    BY <1>17
<1> DEFINE R == Reach(rest, promised, m)
<1>4. t \in Nat /\ b.filled \in Nat /\ d \in 0 .. t /\ Len(wire) \in Nat /\ t <= Len(wire)
      /\ m \in Nat /\ Len(promised) \in Nat /\ m <= Len(promised)
      /\ t = d + b.filled /\ Size \in Nat
  <2> DEFINE n == b.filled
             l == Len(promised)
             k == Len(wire)
  <2>3. l \in Nat /\ k \in Nat
      BY <1>18, LenProperties
  <2>1. n \in 0 .. Size /\ n <= t /\ Size \in Nat /\ d = t - n /\ l \in Nat /\ k \in Nat
        /\ t \in 0 .. k /\ m \in 0 .. l
      BY <1>1, <1>2, <2>3, SizeAssumption DEF d
  <2> HIDE DEF n, l, k
  <2>2. /\ t \in Nat /\ n \in Nat /\ d \in 0 .. t /\ k \in Nat /\ t <= k
        /\ m \in Nat /\ l \in Nat /\ m <= l /\ t = d + n
      BY <2>1
  <2> QED BY <2>1, <2>2 DEF n, l, k
<1>5. /\ R - d \in Nat /\ (m # 0 => R = d)
      /\ \E c \in Given(TRUE) :
            /\ Aligned(bytes, R - d, c)
            /\ m < Len(promised) => /\ c = promised[m + 1]
                                    /\ Reach(rest, promised, m + 1) = R + 5 + Len(c)
            /\ m = Len(promised) => Len(bytes) <= R - d
  <2>1. KeptOK(rest, promised, m, d, t - d, bytes)
      BY <1>2, <1>3, <1>4, KeptAligned
  <2> QED BY <2>1 DEF KeptOK
<1> HIDE DEF R
<1>6. PICK c \in Given(TRUE) :
            /\ Aligned(bytes, R - d, c)
            /\ m < Len(promised) => /\ c = promised[m + 1]
                                    /\ Reach(rest, promised, m + 1) = R + 5 + Len(c)
            /\ m = Len(promised) => Len(bytes) <= R - d
    BY <1>5
<1>7. c \in Seq(Nat) /\ c # <<>> /\ Len(c) \in Nat \ {0}
  <2>1. TRUE \in BOOLEAN
      OBVIOUS
  <2> QED BY <2>1, GivenType
<1> DEFINE r == R - d
<1>8. r \in Nat /\ Aligned(bytes, r, c) /\ (m = Len(promised) => Len(bytes) <= r)
      /\ (m # 0 => r = 0)
    BY <1>4, <1>5, <1>6
<1>9. /\ found.used \in 0 .. Len(bytes)
      /\ IF r + 5 + Len(c) <= Len(bytes)
         THEN found.code = c /\ found.used = r + 5 + Len(c)
         ELSE found.code = <<>> /\ found.used <= r
  <2>1. found = _readFromBuff(bytes)
      OBVIOUS
  <2> HIDE DEF found, r
  <2> QED BY <1>1, <1>8, <2>1, ReadIs
<1>10. /\ found.code # <<>> => /\ received' = Append(received, found.code)
                               /\ hasMessage' = (left.filled # 0) /\ rbuf' = left
       /\ found.code = <<>> => /\ hasMessage' = FALSE /\ rbuf' = rearrange(left)
                               /\ received' = received
    BY DEF Deliver, bytes
<1> HIDE DEF found
<1> DEFINE used == found.used
<1>11. /\ Sound(left) /\ left.filled = b.filled - used
       /\ Contents(left) = SubSeq(bytes, used + 1, b.filled)
  <2>1. b.filled \in 0 .. b.filled /\ used \in 0 .. b.filled
      BY <1>1, <1>4, <1>9
  <2> QED BY <2>1, Popped DEF bytes
<1> HIDE DEF left, used
<1>12. used \in 0 .. b.filled
    BY <1>1, <1>9 DEF used
<1> DEFINE e == d + used
<1>13. /\ t - left.filled = e /\ left.filled <= t /\ left.filled \in Nat
       /\ e \in Nat /\ e <= t /\ e = d + used /\ used \in Nat /\ used <= b.filled
       /\ t - e = b.filled - used /\ t - d = b.filled
  <2> DEFINE n == b.filled
             l == left.filled
  <2>1. n \in Nat /\ l = n - used /\ used \in 0 .. n /\ t = d + n /\ d \in Nat /\ t \in Nat
        /\ e = d + used
      BY <1>4, <1>11, <1>12
  <2> HIDE DEF n, l, e
  <2>2. /\ t - l = e /\ l <= t /\ l \in Nat /\ e \in Nat /\ e <= t /\ used \in Nat
        /\ used <= n /\ t - e = n - used /\ t - d = n
      BY <2>1
  <2> QED BY <2>1, <2>2 DEF n, l
<1> HIDE DEF e
<1>14. Contents(left) = SubSeq(wire, e + 1, t)
  <2> DEFINE n == b.filled
             x == SubSeq(bytes, used + 1, n)
             y == SubSeq(wire, e + 1, t)
             z == SubSeq(wire, d + 1, t)
  <2>1. /\ n \in Nat /\ n = Len(bytes) /\ used \in Nat /\ used <= n
        /\ t \in Nat /\ t <= Len(wire) /\ e \in Nat /\ e <= t /\ d \in Nat /\ d <= t
        /\ t - e = n - used /\ e = d + used /\ t - d = n
      BY <1>1, <1>4, <1>13
  <2>2. bytes = z /\ Contents(left) = x
      BY <1>2, <1>11
  <2> HIDE DEF n
  <2>3. x \in Seq(Nat) /\ Piece(x, bytes, used, n)
    <3>1. bytes \in Seq(Nat) /\ used \in Nat /\ n \in Nat /\ used <= n /\ n <= Len(bytes)
        BY <1>1, <2>1
    <3> QED BY <3>1, PieceOf
  <2>4. y \in Seq(Nat) /\ Piece(y, wire, e, t)
      BY <1>18, <2>1, PieceOf
  <2>5. Piece(z, wire, d, t)
      BY <1>18, <2>1, PieceOf
  <2> HIDE DEF x, y, z
  <2>6. ASSUME NEW i \in 1 .. n - used PROVE x[i] = y[i]
    <3>1. i \in 1 .. t - e /\ used + i \in 1 .. t - d /\ d + (used + i) = e + i
        BY <2>1
    <3>2. x[i] = bytes[used + i]
        BY <2>3 DEF Piece
    <3>3. y[i] = wire[e + i]
        BY <2>4, <3>1 DEF Piece
    <3>4. z[used + i] = wire[d + (used + i)]
        BY <2>5, <3>1 DEF Piece
    <3> QED BY <2>2, <3>1, <3>2, <3>3, <3>4
  <2>7. Len(x) = n - used /\ Len(y) = n - used
      BY <2>1, <2>3, <2>4 DEF Piece
  <2>8. x = y
      BY <2>3, <2>4, <2>6, <2>7, SeqEqual
  <2> QED BY <2>2, <2>8 DEF y
<1>15. CASE r + 5 + Len(c) <= Len(bytes)
  <2>1. /\ found.code = c /\ used = r + 5 + Len(c) /\ m < Len(promised)
        /\ c = promised[m + 1] /\ Reach(rest, promised, m + 1) = R + 5 + Len(c)
    <3>1. m # Len(promised)
        BY <1>7, <1>8, <1>15
    <3>2. m < Len(promised)
        BY <1>4, <3>1
    <3> QED BY <1>6, <1>9, <1>15, <3>2 DEF used
  <2>2. e = Reach(rest, promised, m + 1)
    <3>1. R \in Nat
        BY <1>18, <2>1, ReachIs DEF R, Lies
    <3> DEFINE k == Len(c)
    <3>2. /\ d \in Nat /\ r = R - d /\ k \in Nat /\ e = d + used /\ used = r + 5 + k
          /\ Reach(rest, promised, m + 1) = R + 5 + k
        BY <1>4, <1>7, <1>13, <2>1
    <3> HIDE DEF r, k
    <3> QED BY <3>1, <3>2
  <2>3. received' = SubSeq(promised, 1, m + 1) /\ hasMessage' = (left.filled # 0) /\ rbuf' = left
    <3>1. received' = Append(received, c) /\ hasMessage' = (left.filled # 0) /\ rbuf' = left
        BY <1>7, <1>10, <2>1
    <3>2. SubSeq(promised, 1, m + 1) = SubSeq(promised, 1, m) \o <<promised[m + 1]>>
      <4>1. 1 \in 1 .. Len(promised) /\ m + 1 \in 1 .. Len(promised) /\ (m + 1) - 1 = m
            /\ m + 1 \in 1 .. m + 1
          BY <1>4, <2>1
      <4> QED BY <4>1, SubSeqRecursiveSecond
    <3>3. received \in Seq(Given(TRUE))
      <4>1. SubSeq(promised, 1, m) \in Seq(Given(TRUE))
          BY <1>18, CutIs
      <4> QED BY <1>3, <4>1
    <3>4. Append(received, c) = received \o <<c>>
        BY <3>3, AppendIsConcat
    <3> QED BY <1>3, <2>1, <3>1, <3>2, <3>4
  <2>4. m + 1 \in 0 .. Len(promised) /\ m + 1 # 0
      BY <1>4, <2>1
  <2>5. ASSUME ~hasMessage', m + 1 < Len(promised)
        PROVE  t < Reach(rest, promised, (m + 1) + 1)
    <3> DEFINE k == m + 1
    <3>1. k \in 0 .. Len(promised) /\ k < Len(promised)
        BY <2>4, <2>5
    <3>2. t = e
      <4>1. left.filled = 0
          BY <2>3, <2>5
      <4> QED BY <1>4, <1>13, <4>1
    <3> HIDE DEF k
    <3>3. /\ Reach(rest, promised, k) \in Nat /\ Len(promised[k + 1]) \in Nat
          /\ Reach(rest, promised, k + 1) = Reach(rest, promised, k) + 5 + Len(promised[k + 1])
        BY <1>18, <3>1, ReachIs DEF Lies
    <3>4. t < Reach(rest, promised, k + 1)
      <4>1. t = Reach(rest, promised, k)
          BY <2>2, <3>2 DEF k
      <4> QED BY <3>3, <4>1
    <3> QED BY <3>4 DEF k
  <2>6. ~hasMessage' => rbuf'.head = 0
      BY <1>11, <2>3 DEF Sound, Linked
  <2> QED BY <1>11, <1>13, <1>14, <2>2, <2>3, <2>4, <2>5, <2>6 DEF FramedAt, Behind
<1>16. CASE ~(r + 5 + Len(c) <= Len(bytes))
  <2>1. found.code = <<>> /\ used <= r
      BY <1>9, <1>16 DEF used
  <2>2. hasMessage' = FALSE /\ rbuf' = rearrange(left) /\ received' = received
      BY <1>10, <2>1
  <2>3. /\ Sound(rbuf') /\ rbuf'.head = 0 /\ rbuf'.filled = left.filled
        /\ Contents(rbuf') = Contents(left)
      BY <1>11, <2>2, Rearranged
  <2>4. Behind(rest, promised, e, m)
    <3>1. CASE m = 0
      <4>1. R = Len(rest) /\ Len(rest) \in Nat
        <5>1. Reach(rest, promised, 0) = Len(rest)
            BY <1>18, ReachAll
        <5>2. Len(rest) \in Nat
            BY <1>18, LenProperties
        <5> QED BY <3>1, <5>1, <5>2 DEF R
      <4>2. e <= Len(rest)
          BY <1>4, <1>8, <1>13, <2>1, <4>1
      <4> QED BY <3>1, <4>2 DEF Behind
    <3>2. CASE m # 0
      <4>1. e = d /\ d = R
          BY <1>4, <1>5, <1>8, <1>13, <2>1, <3>2
      <4> QED BY <3>2, <4>1 DEF Behind, R
    <3> QED BY <3>1, <3>2
  <2>5. ASSUME m < Len(promised) PROVE t < Reach(rest, promised, m + 1)
    <3>1. R \in Nat /\ Reach(rest, promised, m + 1) = R + 5 + Len(c)
        BY <1>6, <1>18, <2>5, ReachIs DEF R, Lies
    <3> DEFINE k == Len(c)
               n == Len(bytes)
    <3>2. k \in Nat /\ n \in Nat /\ t = d + n /\ r = R - d /\ ~(r + 5 + k <= n) /\ d \in Nat
        BY <1>1, <1>4, <1>7, <1>16
    <3> HIDE DEF k, n, r
    <3>3. t < R + 5 + k
        BY <3>1, <3>2
    <3> QED BY <3>1, <3>3 DEF k
  <2> QED BY <1>3, <1>13, <1>14, <2>2, <2>3, <2>4, <2>5 DEF FramedAt
<1> QED BY <1>15, <1>16

\* Bytes are read behind those that are kept.
LEMMA FindHeadIs ==
    ASSUME Shape, needHead, OnWire(rest, promised, wire),
           FramedAt(rest, promised, wire, taken, rbuf, hasMessage, received),
           recvCodeByFindHead
    PROVE  /\ taken' \in 0 .. Len(wire)
           /\ Sound(rbuf') /\ hasMessage' \in BOOLEAN /\ (~hasMessage' => rbuf'.head = 0)
           /\ FramedAt(rest, promised, wire, taken', rbuf', hasMessage', received')
<1>1. /\ Sound(rbuf) /\ wire \in Seq(Nat) /\ taken \in 0 .. Len(wire) /\ hasMessage \in BOOLEAN
      /\ Len(wire) \in Nat /\ taken \in Nat
    BY DEF Shape
<1>2. ASSUME ~hasMessage, NEW n \in 1 .. Least(Len(wire) - taken, freeLength(rbuf)),
             Deliver(writeIntoBuffer(rbuf, Arrived(n))), taken' = taken + n
      PROVE  /\ taken' \in 0 .. Len(wire)
             /\ Sound(rbuf') /\ hasMessage' \in BOOLEAN /\ (~hasMessage' => rbuf'.head = 0)
             /\ FramedAt(rest, promised, wire, taken', rbuf', hasMessage', received')
  <2> DEFINE a == Arrived(n)
             t == taken + n
             b == writeIntoBuffer(rbuf, a)
             d == taken - rbuf.filled
  <2>1. rbuf.filled \in 0 .. Size /\ Size \in Nat
      BY <1>1, SizeAssumption DEF Sound, BufferRec
  <2>2. /\ n \in Nat /\ n > 0 /\ n <= Len(wire) - taken /\ n <= Size - rbuf.filled
      BY <1>1, <2>1 DEF Least, freeLength
  <2>3. t \in 0 .. Len(wire) /\ t \in Nat /\ taken <= t /\ t <= Len(wire) /\ t - taken = n
      BY <1>1, <2>2
  <2>4. a \in Seq(Nat) /\ Len(a) = n
    <3> DEFINE e == SubSeq(wire, taken + 1, t)
    <3>1. e \in Seq(Nat) /\ Piece(e, wire, taken, t)
        BY <1>1, <2>3, PieceOf
    <3>2. a = e
        BY DEF Arrived
    <3> HIDE DEF e, a, t
    <3> QED BY <2>3, <3>1, <3>2 DEF Piece
  <2>5. n = Least(Len(a), freeLength(rbuf))
      BY <2>1, <2>2, <2>4 DEF Least, freeLength
  <2>6. SubSeq(a, 1, n) = a
      BY <2>4, SubSeqFull
  <2>7. Sound(b) /\ b.filled = rbuf.filled + n /\ Contents(b) = Contents(rbuf) \o a
    <3>1. Stored(b, rbuf, a, n)
      <4> HIDE DEF a
      <4> QED BY <1>1, <2>4, <2>5, Written
    <3> QED BY <2>6, <3>1 DEF Stored
  <2>8. /\ rbuf.filled <= taken
        /\ Contents(rbuf) = SubSeq(wire, d + 1, taken)
        /\ \E m \in 0 .. Len(promised) :
              received = SubSeq(promised, 1, m) /\ Behind(rest, promised, d, m)
      BY DEF FramedAt
  <2> HIDE DEF b
  <2>9. t - b.filled = d /\ b.filled <= t /\ d \in Nat /\ d <= taken
    <3> DEFINE f == rbuf.filled
               e == b.filled
    <3>1. f \in Nat /\ f <= taken /\ e = f + n /\ n \in Nat /\ taken \in Nat
        BY <1>1, <2>1, <2>2, <2>7, <2>8
    <3> HIDE DEF f, e
    <3>2. (taken + n) - e = taken - f /\ e <= taken + n /\ taken - f \in Nat
          /\ taken - f <= taken
        BY <3>1
    <3> QED BY <3>2 DEF e, f
  <2>10. Contents(b) = SubSeq(wire, d + 1, t)
    <3>1. /\ d + 1 \in 1 .. Len(wire) + 1 /\ taken \in (d + 1) - 1 .. Len(wire)
          /\ t \in taken .. Len(wire)
      <4> DEFINE l == Len(wire)
      <4>1. l \in Nat /\ d \in Nat /\ d <= taken /\ taken \in Nat /\ taken <= t /\ t <= l
            /\ t \in Nat
          BY <1>1, <2>3, <2>9
      <4> HIDE DEF l, d, t
      <4>2. d + 1 \in 1 .. l + 1 /\ taken \in (d + 1) - 1 .. l /\ t \in taken .. l
          BY <4>1
      <4> QED BY <4>2 DEF l
    <3> HIDE DEF d, t
    <3>2. SubSeq(wire, d + 1, taken) \o SubSeq(wire, taken + 1, t) = SubSeq(wire, d + 1, t)
        BY <1>1, <3>1, ConcatAdjacentSubSeq
    <3>3. a = SubSeq(wire, taken + 1, t)
        BY DEF Arrived, t
    <3> QED BY <2>7, <2>8, <3>2, <3>3
  <2>11. FramedAt(rest, promised, wire, t, b, TRUE, received)
    <3> HIDE DEF t, d
    <3>1. \E m \in 0 .. Len(promised) :
             received = SubSeq(promised, 1, m) /\ Behind(rest, promised, t - b.filled, m)
        BY <2>8, <2>9
    <3>2. Contents(b) = SubSeq(wire, t - b.filled + 1, t)
        BY <2>9, <2>10
    <3> QED BY <2>9, <3>1, <3>2 DEF FramedAt
  <2>12. Deliver(b) /\ taken' = t
      BY <1>2 DEF b
  <2> HIDE DEF t
  <2>13. /\ Sound(rbuf') /\ hasMessage' \in BOOLEAN /\ (~hasMessage' => rbuf'.head = 0)
         /\ FramedAt(rest, promised, wire, t, rbuf', hasMessage', received')
      BY <2>3, <2>7, <2>11, <2>12, DeliverIs
  <2> QED BY <2>3, <2>12, <2>13
<1>3. ASSUME hasMessage, Deliver(rbuf), taken' = taken
      PROVE  /\ taken' \in 0 .. Len(wire)
             /\ Sound(rbuf') /\ hasMessage' \in BOOLEAN /\ (~hasMessage' => rbuf'.head = 0)
             /\ FramedAt(rest, promised, wire, taken', rbuf', hasMessage', received')
  <2>1. FramedAt(rest, promised, wire, taken, rbuf, TRUE, received)
      BY DEF FramedAt
  <2>2. /\ Sound(rbuf') /\ hasMessage' \in BOOLEAN /\ (~hasMessage' => rbuf'.head = 0)
        /\ FramedAt(rest, promised, wire, taken, rbuf', hasMessage', received')
      BY <1>1, <1>3, <2>1, DeliverIs
  <2> QED BY <1>1, <1>3, <2>2
<1> QED BY <1>2, <1>3 DEF recvCodeByFindHead

\* Without heads.
LEMMA DirectIs ==
    ASSUME Shape, received = SubSeq(wire, 1, taken), recvCodeDirect
    PROVE  taken' \in 0 .. Len(wire) /\ received' = SubSeq(wire, 1, taken')
<1>1. wire \in Seq(Nat) /\ taken \in Nat /\ taken <= Len(wire) /\ Len(wire) \in Nat
    BY DEF Shape
<1>2. PICK n \in 1 .. Len(wire) - taken : received' = received \o Arrived(n) /\ taken' = taken + n
    BY DEF recvCodeDirect
<1> DEFINE t == taken + n
<1>3. 1 \in 1 .. Len(wire) + 1 /\ taken \in 1 - 1 .. Len(wire) /\ t \in taken .. Len(wire)
      /\ t \in 0 .. Len(wire)
    BY <1>1
<1>4. SubSeq(wire, 1, taken) \o SubSeq(wire, taken + 1, t) = SubSeq(wire, 1, t)
    BY <1>1, <1>3, ConcatAdjacentSubSeq
<1> QED BY <1>2, <1>3, <1>4 DEF Arrived

-----------------------------------------------------------------------------
(* What a call of sendCode leaves of what was received.                    *)

LEMMA FramedGrows ==
    ASSUME NEW r, NEW p, NEW w, OnWire(r, p, w), NEW x \in Seq(Nat),
           NEW q \in Seq(Given(TRUE)), NEW t \in 0 .. Len(w), NEW b, b.filled \in Nat,
           NEW more, NEW got,
           FramedAt(r, p, w, t, b, more, got)
    PROVE  FramedAt(r, p \o q, w \o x, t, b, more, got)
<1>1. /\ r \in Seq(Nat) /\ p \in Seq(Given(TRUE)) /\ w \in Seq(Nat)
      /\ \E u \in Seq(Nat) : w \o u = r \o CodesAs(TRUE, p)
    BY DEF OnWire
<1> DEFINE P == p \o q
<1>2. P \in Seq(Given(TRUE)) /\ Joined(P, p, q)
    BY <1>1, JoinIs
<1>3. Len(p) \in Nat /\ Len(q) \in Nat /\ Len(P) = Len(p) + Len(q)
    BY <1>2 DEF Joined
<1>4. ASSUME NEW m \in 0 .. Len(p)
      PROVE  SubSeq(P, 1, m) = SubSeq(p, 1, m) /\ Reach(r, P, m) = Reach(r, p, m)
  <2> DEFINE k == 0
  <2>1. m \in Nat /\ m <= Len(p) /\ k \in Nat /\ k <= m /\ k + 1 = 1
      BY <1>3
  <2> HIDE DEF k
  <2>2. SubSeq(P, k + 1, m) = SubSeq(p, k + 1, m)
      BY <1>1, <2>1, BeginIs
  <2>3. SubSeq(P, 1, m) = SubSeq(p, 1, m)
      BY <2>1, <2>2
  <2> QED BY <2>3 DEF Reach
<1> HIDE DEF P
<1>5. PICK m \in 0 .. Len(p) : /\ got = SubSeq(p, 1, m) /\ Behind(r, p, t - b.filled, m)
                               /\ ~more /\ m < Len(p) => t < Reach(r, p, m + 1)
    BY DEF FramedAt
<1>6. b.filled <= t /\ Contents(b) = SubSeq(w, t - b.filled + 1, t)
    BY DEF FramedAt
<1>7. SubSeq(w \o x, t - b.filled + 1, t) = SubSeq(w, t - b.filled + 1, t)
  <2> DEFINE d == t - b.filled
  <2>1. d \in Nat /\ t \in Nat /\ d <= t /\ t <= Len(w)
      BY <1>1, <1>6
  <2> HIDE DEF d
  <2>2. SubSeq(w \o x, d + 1, t) = SubSeq(w, d + 1, t)
      BY <1>1, <2>1, BeginIs
  <2> QED BY <2>2 DEF d
<1>8. m \in 0 .. Len(P) /\ got = SubSeq(P, 1, m)
    BY <1>3, <1>4, <1>5
<1>9. Behind(r, P, t - b.filled, m)
    BY <1>4, <1>5 DEF Behind
<1>10. ASSUME ~more, m < Len(P) PROVE t < Reach(r, P, m + 1)
  <2>1. CASE m < Len(p)
    <3>1. m + 1 \in 0 .. Len(p)
        BY <1>3, <2>1
    <3> QED BY <1>4, <1>5, <1>10, <2>1, <3>1
  <2>2. CASE ~(m < Len(p))
    <3>1. m = Len(p)
        BY <1>3, <2>2
    <3>2. t <= Reach(r, p, m) /\ t \in Nat
      <4>1. PICK u \in Seq(Nat) : w \o u = r \o CodesAs(TRUE, p)
          BY <1>1
      <4> DEFINE s == w \o u
      <4>2. Joined(s, w, u)
          BY <1>1, JoinIs
      <4>3. Reach(r, p, Len(p)) = Len(r \o CodesAs(TRUE, p))
          BY <1>1, ReachAll
      <4>4. Reach(r, p, m) = Len(s)
          BY <3>1, <4>1, <4>3
      <4> HIDE DEF s
      <4> QED BY <4>2, <4>4 DEF Joined
    <3>3. /\ Reach(r, P, m) \in Nat /\ Len(P[m + 1]) \in Nat
          /\ Reach(r, P, m + 1) = Reach(r, P, m) + 5 + Len(P[m + 1])
      <4>1. Lies(r, P, m, r \o CodesAs(TRUE, P))
          BY <1>1, <1>2, <1>8, <1>10, ReachIs
      <4> QED BY <4>1 DEF Lies
    <3>4. Reach(r, P, m) = Reach(r, p, m)
        BY <1>4
    <3> QED BY <3>2, <3>3, <3>4
  <2> QED BY <2>1, <2>2
<1> QED BY <1>6, <1>7, <1>8, <1>9, <1>10 DEF FramedAt, P

-----------------------------------------------------------------------------
(* The steps.                                                              *)

\* What is given can be packed.
LEMMA ContentIs ==
    ASSUME Shape, NEW content \in Content
    PROVE  content \in Given(needHead)
<1> DEFINE n == calls + 1
<1>1. n \in Nat /\ n # ZERO
    BY DEF Shape, ZERO
<1>2. ZERO \in Nat /\ DirectLength \in Nat
    BY ReserveAssumption, SizeAssumption DEF ZERO
<1> HIDE DEF n
<1>3. CASE needHead
  <2>1. content = <<n>> \/ content = <<n, ZERO>>
      BY <1>3 DEF Content, n
  <2>2. /\ <<n>> \in Seq(Nat) /\ Len(<<n>>) = 1 /\ <<n>>[1] = n
        /\ <<n, ZERO>> \in Seq(Nat) /\ Len(<<n, ZERO>>) = 2 /\ <<n, ZERO>>[1] = n
      BY <1>1, <1>2
  <2>3. content \in Seq(Nat) /\ Len(content) \in {1, 2} /\ content[1] # ZERO
      BY <1>1, <2>1, <2>2
  <2> QED BY <1>3, <2>3 DEF Given
<1>4. CASE ~needHead
  <2> DEFINE d == [i \in 1 .. DirectLength |-> n]
  <2>1. content = d
      BY <1>4 DEF Content, n
  <2>2. d \in Seq(Nat) /\ Len(d) = DirectLength
      BY <1>1, <1>2
  <2> QED BY <1>4, <2>1, <2>2 DEF Given
<1> QED BY <1>3, <1>4

\* What goes out and what is kept follow what was accepted.
Follows(h, p, q, x, s, t) ==
    \/ q = p /\ x \o t = s
    \/ \E c \in Given(h) : q = Append(p, c) /\ x \o t = s \o PackAs(h, c)

Balance(h, r, p, w, s) == w \o s = r \o CodesAs(h, p)

LEMMA AccountGrows ==
    ASSUME NEW h \in BOOLEAN, NEW r \in Seq(Nat), NEW w \in Seq(Nat), NEW x \in Seq(Nat),
           NEW s \in Seq(Nat), NEW t \in Seq(Nat), NEW p \in Seq(Given(h)), NEW q,
           Balance(h, r, p, w, s), Follows(h, p, q, x, s, t)
    PROVE  Balance(h, r, q, w \o x, t)
<1> DEFINE all == CodesAs(h, p)
<1>1. all \in Seq(Nat)
    BY CodesType
<1>2. Cat(w, s) = Cat(r, all)
    BY DEF Balance, Cat
<1>3. \A a, b, c \in Seq(Nat) : Cat(Cat(a, b), c) = Cat(a, Cat(b, c))
    BY CatAssociative
<1>4. CASE q = p /\ x \o t = s
  <2>1. Cat(x, t) = s /\ CodesAs(h, q) = all
      BY <1>4 DEF Cat
  <2> HIDE DEF all
  <2>2. Cat(Cat(w, x), t) = Cat(w, Cat(x, t))
      BY <1>3
  <2>3. Cat(Cat(w, x), t) = Cat(r, CodesAs(h, q))
      BY <1>2, <2>1, <2>2
  <2> QED BY <2>3 DEF Cat, Balance
<1>5. ASSUME NEW c \in Given(h), q = Append(p, c), x \o t = s \o PackAs(h, c)
      PROVE  Balance(h, r, q, w \o x, t)
  <2> DEFINE k == PackAs(h, c)
  <2>1. k \in Seq(Nat)
      BY PackType
  <2>2. CodesAs(h, q) = Cat(all, k)
      BY <1>5, CodesAppend DEF Cat
  <2>3. Cat(x, t) = Cat(s, k)
      BY <1>5 DEF Cat
  <2> HIDE DEF all, k
  <2>4. Cat(Cat(w, x), t) = Cat(w, Cat(x, t))
      BY <1>3
  <2>5. Cat(Cat(w, s), k) = Cat(w, Cat(s, k))
      BY <1>3, <2>1
  <2>6. Cat(Cat(r, all), k) = Cat(r, Cat(all, k))
      BY <1>1, <1>3, <2>1
  <2>7. Cat(Cat(w, x), t) = Cat(r, CodesAs(h, q))
      BY <1>2, <2>2, <2>3, <2>4, <2>5, <2>6
  <2> QED BY <2>7 DEF Cat, Balance
<1> QED BY <1>4, <1>5 DEF Follows

\* A closed socket takes nothing.
LEMMA ClosedIs ==
    ASSUME conn = "closed", NEW content, NEW urgent, sendMessage(content, urgent),
           wire \in Seq(Nat)
    PROVE  wire' = wire /\ promised' = promised /\ sbuf' = sbuf /\ harm' = harm
<1>1. Return(content, 0, sbuf, <<>>, FALSE, {})
    BY DEF sendMessage
<1>2. wire \o <<>> = wire
    BY ConcatEmptySeq
<1>3. ~(0 \in {1, -2})
    OBVIOUS
<1> QED BY <1>1, <1>2, <1>3 DEF Return

\* What the receiver has is the beginning of more.
LEMMA SendStep ==
    ASSUME StreamIInv, sendCode
    PROVE  StreamIInv'
<1>1. PICK content \in Content, urgent \in BOOLEAN : sendMessage(content, urgent)
    BY DEF sendCode
<1>2. /\ needHead' = needHead /\ limit' = limit
      /\ taken' = taken /\ rbuf' = rbuf /\ hasMessage' = hasMessage /\ received' = received
    BY DEF sendCode, receiver
<1>3. /\ Shape /\ Accounted /\ Sent /\ Headless /\ Framed /\ Streamed
    BY DEF StreamIInv
<1>4. content \in Given(needHead)
    BY <1>3, ContentIs
<1>5. Effect(content)
    BY <1>1, <1>3, <1>4, SendEffect
<1>6. /\ \E x \in Seq(Nat) : wire' = wire \o x /\ (harm' = {} => Kept(content, x))
      /\ Sound(sbuf') /\ promised' \in Seq(Given(needHead))
      /\ harm' \subseteq Harms /\ harm \subseteq harm'
      /\ calls' = calls + 1 /\ conn' = conn /\ rest' = rest
    BY <1>5 DEF Effect
<1>7. PICK x \in Seq(Nat) : wire' = wire \o x /\ (harm' = {} => Kept(content, x))
    BY <1>6
<1>8. /\ needHead \in BOOLEAN /\ limit \in Nat /\ conn \in {"open", "broken", "closed"}
      /\ Sound(sbuf) /\ Sound(rbuf) /\ wire \in Seq(Nat) /\ taken \in 0 .. Len(wire)
      /\ calls \in Nat /\ rest \in Seq(Nat) /\ promised \in Seq(Given(needHead))
      /\ hasMessage \in BOOLEAN /\ (~hasMessage => rbuf.head = 0) /\ harm \subseteq Harms
    BY <1>3 DEF Shape
<1>9. wire' \in Seq(Nat) /\ Joined(wire', wire, x)
    BY <1>7, <1>8, JoinIs
<1>10. taken \in Nat /\ Len(wire) \in Nat /\ taken <= Len(wire) /\ taken \in 0 .. Len(wire')
  <2> DEFINE a == Len(wire)
             b == Len(wire')
  <2>1. a \in Nat /\ b \in Nat /\ a <= b /\ taken \in 0 .. a
      BY <1>8, <1>9 DEF Joined
  <2> HIDE DEF a, b
  <2>2. taken \in Nat /\ taken <= a /\ taken \in 0 .. b
      BY <2>1
  <2> QED BY <2>1, <2>2 DEF a, b
<1>11. Shape'
  <2>1. calls' \in Nat
      BY <1>6, <1>8
  <2> QED BY <1>2, <1>6, <1>8, <1>9, <1>10, <2>1 DEF Shape
<1>12. harm' = {} => harm = {}
    BY <1>6
<1>13. Contents(sbuf) \in Seq(Nat) /\ Contents(sbuf') \in Seq(Nat)
    BY <1>6, <1>8, ContentsAre
<1>14. Accounted' /\ Sent'
  <2>1. CASE conn = "closed"
    <3>1. wire' = wire /\ promised' = promised /\ sbuf' = sbuf /\ harm' = harm
        BY <1>1, <1>8, <2>1, ClosedIs
    <3> QED BY <1>2, <1>3, <1>6, <3>1 DEF Accounted, Sent
  <2>2. CASE conn # "closed"
    <3>1. SUFFICES ASSUME harm' = {}
                   PROVE  wire' \o Contents(sbuf') = rest \o CodesAs(needHead, promised')
        BY <1>2, <1>6, <1>13 DEF Accounted, Sent
    <3>2. wire \o Contents(sbuf) = rest \o CodesAs(needHead, promised)
        BY <1>3, <1>12, <2>2, <3>1 DEF Accounted
    <3>3. Follows(needHead, promised, promised', x, Contents(sbuf), Contents(sbuf'))
        BY <1>4, <1>7, <3>1 DEF Kept, Follows
    <3> DEFINE s == Contents(sbuf)
               t == Contents(sbuf')
               q == promised'
    <3>5. /\ s \in Seq(Nat) /\ t \in Seq(Nat)
          /\ Balance(needHead, rest, promised, wire, s)
          /\ Follows(needHead, promised, q, x, s, t)
        BY <1>13, <3>2, <3>3 DEF Balance
    <3> HIDE DEF s, t, q
    <3>6. Balance(needHead, rest, q, wire \o x, t)
        BY <1>8, <3>5, AccountGrows
    <3>4. (wire \o x) \o Contents(sbuf') = rest \o CodesAs(needHead, promised')
        BY <3>6 DEF t, q, Balance
    <3> QED BY <1>7, <3>4
  <2> QED BY <2>1, <2>2
<1>15. Headless'
    BY <1>2, <1>3, <1>6, <1>12 DEF Headless
<1>16. Streamed'
  <2> SUFFICES ASSUME harm' = {}, ~needHead PROVE received = SubSeq(wire', 1, taken)
      BY <1>2 DEF Streamed
  <2>1. received = SubSeq(wire, 1, taken)
      BY <1>3, <1>12 DEF Streamed
  <2> DEFINE k == 0
  <2>2. k \in Nat /\ k <= taken /\ k + 1 = 1
      BY <1>10
  <2> HIDE DEF k
  <2>3. SubSeq(wire \o x, k + 1, taken) = SubSeq(wire, k + 1, taken)
      BY <1>8, <1>10, <2>2, BeginIs
  <2> QED BY <1>7, <2>1, <2>2, <2>3
<1>17. Framed'
  <2> SUFFICES ASSUME harm' = {}, needHead
               PROVE  FramedAt(rest, promised', wire', taken, rbuf, hasMessage, received)
      BY <1>2, <1>6 DEF Framed
  <2>1. FramedAt(rest, promised, wire, taken, rbuf, hasMessage, received)
      BY <1>3, <1>12 DEF Framed
  <2>2. OnWire(rest, promised, wire)
    <3>1. needHead = TRUE
        BY <1>8
    <3>2. NoHead(rest) /\ \E u \in Seq(Nat) : wire \o u = rest \o CodesAs(TRUE, promised)
        BY <1>3, <1>12, <3>1 DEF Headless, Sent
    <3>3. promised \in Seq(Given(TRUE))
        BY <1>8, <3>1
    <3> QED BY <1>8, <3>2, <3>3 DEF OnWire
  <2>3. \E q \in Seq(Given(TRUE)) : promised' = promised \o q
    <3>1. needHead = TRUE
        BY <1>8
    <3>2. promised \in Seq(Given(TRUE)) /\ content \in Given(TRUE)
        BY <1>4, <1>8, <3>1
    <3>3. CASE promised' = promised
      <4>1. <<>> \in Seq(Given(TRUE)) /\ promised \o <<>> = promised
          BY <3>2, ConcatEmptySeq
      <4> QED BY <3>3, <4>1
    <3>4. CASE promised' = Append(promised, content)
      <4>1. <<content>> \in Seq(Given(TRUE)) /\ promised \o <<content>> = Append(promised, content)
          BY <3>2, AppendIsConcat, OneIs
      <4> QED BY <3>4, <4>1
    <3> QED BY <1>7, <3>3, <3>4 DEF Kept
  <2>4. PICK q \in Seq(Given(TRUE)) : promised' = promised \o q
      BY <2>3
  <2>5. rbuf.filled \in Nat
      BY <1>8, SizeAssumption DEF Sound, BufferRec
  <2>6. FramedAt(rest, promised \o q, wire \o x, taken, rbuf, hasMessage, received)
      BY <1>8, <2>1, <2>2, <2>5, FramedGrows
  <2> QED BY <1>7, <2>4, <2>6
<1> QED BY <1>11, <1>14, <1>15, <1>16, <1>17 DEF StreamIInv

-----------------------------------------------------------------------------
(* A new connection: what is in the send buffer is the end of one code and *)
(* the codes behind it.                                                    *)

\* From the i-th on the codes are still there as a whole.
WholeFrom(h, p, f, i) == Len(CodesAs(h, SubSeq(p, i, Len(p)))) <= f

FirstWhole(h, p, f, i) ==
    /\ i \in 1 .. Len(p) + 1 /\ WholeFrom(h, p, f, i)
    /\ i # 1 => ~WholeFrom(h, p, f, i - 1)

LEMMA StillWholeIs ==
    ASSUME Shape
    PROVE  \E i : /\ FirstWhole(needHead, promised, sbuf.filled, i)
                  /\ StillWhole = SubSeq(promised, i, Len(promised))
<1> DEFINE f == sbuf.filled
           p == promised
           T == {i \in 1 .. Len(p) + 1 : WholeFrom(needHead, p, f, i)}
           i0 == CHOOSE i \in T : \A j \in T : i <= j
<1>1. p \in Seq(Given(needHead)) /\ Len(p) \in Nat /\ f \in Nat /\ needHead \in BOOLEAN
    BY SizeAssumption DEF Shape, Sound, BufferRec
<1>2. StillWhole = SubSeq(p, i0, Len(p))
  <2>1. \A i : Len(Codes(SubSeq(p, i, Len(p)))) <= f <=> WholeFrom(needHead, p, f, i)
      BY DEF Codes, CodesAs, pack, PackAs, WholeFrom
  <2>2. T = {i \in 1 .. Len(p) + 1 : Len(Codes(SubSeq(p, i, Len(p)))) <= f}
      BY <2>1
  <2> QED BY <2>2 DEF StillWhole
<1> HIDE DEF f, p
<1>3. Len(p) + 1 \in T
  <2>1. SubSeq(p, Len(p) + 1, Len(p)) = <<>>
      BY <1>1, SubSeqEmpty
  <2>2. Len(CodesAs(needHead, <<>>)) = 0
      BY CodesEmpty, EmptySeq
  <2>3. 0 <= f /\ Len(p) + 1 \in 1 .. Len(p) + 1
      BY <1>1
  <2> QED BY <2>1, <2>2, <2>3 DEF WholeFrom
<1>4. i0 \in T /\ \A j \in T : i0 <= j
  <2>1. T \in SUBSET Nat /\ T # {}
      BY <1>1, <1>3
  <2> HIDE DEF T
  <2>2. \E i \in T : \A j \in T : i <= j
      BY <2>1, Smallest
  <2> QED BY <2>2
<1> HIDE DEF i0
<1>5. i0 \in 1 .. Len(p) + 1 /\ WholeFrom(needHead, p, f, i0)
    BY <1>4
<1>6. i0 # 1 => ~WholeFrom(needHead, p, f, i0 - 1)
  <2>1. i0 # 1 => i0 - 1 \in 1 .. Len(p) + 1 /\ ~(i0 <= i0 - 1)
      BY <1>1, <1>5
  <2> QED BY <1>4, <2>1
<1> QED BY <1>2, <1>5, <1>6 DEF FirstWhole, f, p

\* A head has no second beginning.
LEMMA NoHeadBehind ==
    ASSUME NEW c \in Given(TRUE), NEW k \in 2 .. Len(Packed(c)) - 1
    PROVE  ~(Packed(c)[k] = ZERO /\ Packed(c)[k + 1] = ONE)
<1> DEFINE s == Packed(c)
           l == Len(c)
           x == c[1]
<1>1. c \in Seq(Nat) /\ l \in {1, 2} /\ x # ZERO
    BY DEF Given
<1>2. /\ Len(s) = HeadLength + l /\ s[2] = ONE /\ s[3] = ONE /\ s[5] = l
      /\ \A i \in 1 .. l : s[5 + i] = c[i]
  <2> HIDE DEF x
  <2> QED BY <1>1, PackedIs
<1> HIDE DEF s, l
<1>3. HeadLength = 5 /\ ZERO = 0 /\ ONE = 255
    BY DEF HeadLength, Ones, ZERO, ONE
<1>4. s[6] = x
  <2>1. 1 \in 1 .. l /\ 5 + 1 = 6
      BY <1>1
  <2> QED BY <1>2, <2>1
<1> HIDE DEF x
<1>5. Len(s) = 6 \/ Len(s) = 7
    BY <1>1, <1>2, <1>3
<1>6. k \in 2 .. Len(s) - 1
    BY DEF s
<1>7. k = 2 \/ k = 3 \/ k = 4 \/ k = 5 \/ k = 6
  <2> DEFINE n == Len(s)
  <2>1. (n = 6 \/ n = 7) /\ k \in 2 .. n - 1
      BY <1>5, <1>6
  <2> HIDE DEF n
  <2> QED BY <2>1
<1>8. s[5] # 0 /\ s[5] # 255 /\ s[2] # 0 /\ s[3] # 0 /\ s[6] # 0
    BY <1>1, <1>2, <1>3, <1>4
<1>9. 4 + 1 = 5
    OBVIOUS
<1>10. ~(s[k] = 0 /\ s[k + 1] = 255)
    BY <1>7, <1>8, <1>9
<1> QED BY <1>3, <1>10 DEF s

\* The end of a sequence without a head, or of a head's inside, has none.
LEMMA EndNoHead ==
    ASSUME NEW s \in Seq(Nat), NEW e \in Seq(Nat), NEW a \in Seq(Nat), s = a \o e,
           \A k \in 1 .. Len(s) - 1 : k > Len(a) => ~(s[k] = ZERO /\ s[k + 1] = ONE)
    PROVE  NoHead(e)
<1>1. Joined(s, a, e)
    BY JoinIs
<1>2. Len(s) = Len(a) + Len(e) /\ Len(a) \in Nat /\ Len(e) \in Nat
    BY <1>1 DEF Joined
<1> SUFFICES ASSUME NEW i \in 1 .. Len(e) - 1 PROVE ~(e[i] = ZERO /\ e[i + 1] = ONE)
    BY DEF NoHead
<1> DEFINE k == Len(a) + i
<1>3. i \in 1 .. Len(e) /\ i + 1 \in 1 .. Len(e) /\ k + 1 = Len(a) + (i + 1)
      /\ k \in 1 .. Len(s) - 1 /\ k > Len(a)
    BY <1>2
<1>4. s[k] = e[i] /\ s[Len(a) + (i + 1)] = e[i + 1]
    BY <1>1, <1>3 DEF Joined
<1> HIDE DEF k
<1> QED BY <1>3, <1>4

\* What a new connection begins with.
CutAt(h, p, s, i, kept, e) ==
    /\ FirstWhole(h, p, Len(s), i)
    /\ kept = SubSeq(p, i, Len(p))
    /\ e = SubSeq(s, 1, Len(s) - Len(CodesAs(h, kept)))

Remains(h, r, s, kept, e) ==
    s = e \o CodesAs(h, kept) /\ (h /\ NoHead(r) => NoHead(e))

LEMMA RestIs ==
    ASSUME NEW h \in BOOLEAN, NEW r \in Seq(Nat), NEW w \in Seq(Nat), NEW s \in Seq(Nat),
           NEW p \in Seq(Given(h)), Balance(h, r, p, w, s),
           NEW i, NEW kept, NEW e, CutAt(h, p, s, i, kept, e)
    PROVE  Remains(h, r, s, kept, e)
<1> DEFINE pre == SubSeq(p, 1, i - 1)
           b == CodesAs(h, kept)
           y == CodesAs(h, pre)
<1>8. /\ FirstWhole(h, p, Len(s), i)
      /\ kept = SubSeq(p, i, Len(p))
      /\ e = SubSeq(s, 1, Len(s) - Len(CodesAs(h, kept)))
    BY DEF CutAt
<1>1. i \in 1 .. Len(p) + 1 /\ Len(b) <= Len(s) /\ Len(p) \in Nat
    BY <1>8 DEF FirstWhole, WholeFrom
<1>2. pre \in Seq(Given(h)) /\ kept \in Seq(Given(h)) /\ p = pre \o kept
  <2> DEFINE n == i - 1
  <2>1. n \in 0 .. Len(p) /\ n + 1 = i
      BY <1>1
  <2> HIDE DEF n
  <2>2. /\ SubSeq(p, 1, n) \in Seq(Given(h)) /\ SubSeq(p, n + 1, Len(p)) \in Seq(Given(h))
        /\ SubSeq(p, 1, n) \o SubSeq(p, n + 1, Len(p)) = p
      BY <2>1, CutIs
  <2> QED BY <1>8, <2>1, <2>2 DEF n
<1> HIDE DEF pre
<1>3. b \in Seq(Nat) /\ y \in Seq(Nat) /\ CodesAs(h, p) = y \o b
    BY <1>2, CodesType, CodesConcat
<1>4. (r \o y) \o b = w \o s
  <2>1. Cat(w, s) = Cat(r, Cat(y, b))
      BY <1>3 DEF Balance, Cat
  <2>2. \A j, k, l \in Seq(Nat) : Cat(Cat(j, k), l) = Cat(j, Cat(k, l))
      BY CatAssociative
  <2> HIDE DEF y, b
  <2>3. Cat(Cat(r, y), b) = Cat(r, Cat(y, b))
      BY <1>3, <2>2
  <2>4. Cat(Cat(r, y), b) = Cat(w, s)
      BY <2>1, <2>3
  <2> QED BY <2>4 DEF Cat
<1> DEFINE a == r \o y
<1>5. a \in Seq(Nat)
    BY <1>3
<1> HIDE DEF b
<1>6. s = e \o b /\ a = w \o e /\ e \in Seq(Nat) /\ Len(e) = Len(s) - Len(b)
  <2>1. a \o b = w \o s
      BY <1>4
  <2> HIDE DEF a
  <2>2. e = SubSeq(s, 1, Len(s) - Len(b))
      BY <1>8 DEF b
  <2>3. Same(a, b, w, s)
      BY <2>1 DEF Same
  <2>4. Shared(Nat, a, b, w, s, e)
      BY <1>1, <1>3, <1>5, <2>2, <2>3, CommonEnd
  <2> QED BY <2>4 DEF Shared
<1>7. ASSUME h, NoHead(r) PROVE NoHead(e)
  <2>1. CASE i = 1
    <3>1. pre = <<>>
        BY <2>1, SubSeqEmpty DEF pre
    <3>2. y = <<>> /\ r \o <<>> = r
        BY <3>1, CodesEmpty, ConcatEmptySeq
    <3>3. r = w \o e
        BY <1>6, <3>2
    <3>4. \A k \in 1 .. Len(r) - 1 : k > Len(w) => ~(r[k] = ZERO /\ r[k + 1] = ONE)
        BY <1>7 DEF NoHead
    <3> QED BY <1>6, <3>3, <3>4, EndNoHead
  <2>2. CASE i # 1
    <3> DEFINE c == p[i - 1]
               one == <<c>>
               pre2 == SubSeq(p, 1, i - 2)
               y2 == CodesAs(h, pre2)
               k == Packed(c)
    <3>1. h = TRUE /\ c \in Given(h) /\ c \in Given(TRUE)
      <4>1. i - 1 \in 1 .. Len(p)
          BY <1>1, <2>2
      <4> QED BY <1>7, <4>1, ElementOfSeq
    <3>2. /\ pre2 \in Seq(Given(h)) /\ one \in Seq(Given(h)) /\ pre = pre2 \o one
          /\ SubSeq(p, i - 1, Len(p)) = one \o kept
      <4> DEFINE n == i - 1
                 G == Given(h)
      <4>1. n \in 1 .. Len(p) /\ n + 1 = i /\ n - 1 = i - 2 /\ n - 1 \in 0 .. Len(p)
          BY <1>1, <2>2
      <4>2. c = p[n]
          OBVIOUS
      <4> HIDE DEF n, c, G
      <4>3. pre2 \in Seq(G)
        <5>1. SubSeq(p, 1, n - 1) \in Seq(G)
            BY <4>1, CutIs DEF G
        <5> QED BY <4>1, <5>1
      <4>4. one \in Seq(G)
          BY <3>1, OneIs DEF G
      <4>5. pre = pre2 \o one
        <5>1. 1 \in 1 .. Len(p) /\ n \in 1 .. Len(p)
            BY <1>1, <4>1
        <5>2. SubSeq(p, 1, n) = SubSeq(p, 1, n - 1) \o <<p[n]>>
            BY <5>1, SubSeqRecursiveSecond
        <5> QED BY <4>1, <4>2, <5>2 DEF pre, n
      <4>6. SubSeq(p, n, Len(p)) = <<p[n]>> \o SubSeq(p, n + 1, Len(p))
          BY <1>1, <4>1, SubSeqRecursiveFirst
      <4> QED BY <1>8, <4>1, <4>2, <4>3, <4>4, <4>5, <4>6 DEF n, G
    <3> HIDE DEF c, pre2
    <3>3. k \in Seq(Nat) /\ y2 \in Seq(Nat) /\ Len(k) \in Nat
      <4>1. PackAs(h, c) = k
          BY <3>1 DEF PackAs
      <4>2. PackAs(h, c) \in Seq(Nat)
          BY <3>1, PackType
      <4> QED BY <3>2, <4>1, <4>2, CodesType
    <3>4. CodesAs(h, one) = k
        BY <3>1, CodesOne DEF PackAs
    <3>5. y = y2 \o k /\ CodesAs(h, one \o kept) = k \o b
      <4> HIDE DEF k
      <4>1. CodesAs(h, pre2 \o one) = y2 \o CodesAs(h, one)
          BY <3>2, CodesConcat
      <4>2. CodesAs(h, one \o kept) = CodesAs(h, one) \o CodesAs(h, kept)
          BY <1>2, <3>2, CodesConcat
      <4> QED BY <3>2, <3>4, <4>1, <4>2 DEF b
    <3> HIDE DEF k, y2, one, y
    <3>6. Len(e) < Len(k)
      <4>1. ~(Len(k \o b) <= Len(s))
          BY <1>8, <2>2, <3>2, <3>5 DEF FirstWhole, WholeFrom
      <4>2. Joined(k \o b, k, b)
          BY <1>3, <3>3, JoinIs
      <4> DEFINE m == Len(k)
                 n == Len(b)
                 l == Len(s)
      <4>3. m \in Nat /\ n \in Nat /\ l \in Nat /\ Len(k \o b) = m + n /\ ~(m + n <= l)
          BY <4>1, <4>2 DEF Joined
      <4> HIDE DEF m, n, l
      <4>4. l - n < m
          BY <4>3
      <4> QED BY <1>6, <4>4 DEF l, m, n
    <3>7. (r \o y2) \o k = w \o e
      <4>1. \A j, l, m \in Seq(Nat) : Cat(Cat(j, l), m) = Cat(j, Cat(l, m))
          BY CatAssociative
      <4>2. Cat(w, e) = Cat(r, Cat(y2, k))
          BY <1>6, <3>5 DEF Cat
      <4>3. Cat(Cat(r, y2), k) = Cat(r, Cat(y2, k))
          BY <3>3, <4>1
      <4>4. Cat(Cat(r, y2), k) = Cat(w, e)
          BY <4>2, <4>3
      <4> QED BY <4>4 DEF Cat
    <3> DEFINE z == r \o y2
               g == SubSeq(k, 1, Len(k) - Len(e))
    <3>8. z \in Seq(Nat) /\ Same(w, e, z, k)
        BY <3>3, <3>7 DEF Same
    <3> HIDE DEF z, g
    <3>12. Len(e) \in Nat /\ Len(e) <= Len(k)
      <4>1. Len(e) \in Nat
          BY <1>6
      <4> DEFINE m == Len(k)
                 n == Len(e)
      <4>2. m \in Nat /\ n \in Nat /\ n < m
          BY <3>3, <3>6, <4>1
      <4> HIDE DEF m, n
      <4>3. n <= m
          BY <4>2
      <4> QED BY <4>1, <4>3 DEF m, n
    <3>13. Shared(Nat, w, e, z, k, g)
        BY <1>6, <3>3, <3>8, <3>12, CommonEnd DEF g
    <3>9. k = g \o e /\ g \in Seq(Nat) /\ Len(g) = Len(k) - Len(e)
        BY <3>13 DEF Shared
    <3>10. Len(g) > 0 /\ Len(g) \in Nat
      <4> DEFINE m == Len(k)
                 n == Len(e)
      <4>1. m \in Nat /\ n \in Nat /\ n < m /\ Len(g) = m - n
          BY <3>3, <3>6, <3>9, <3>12
      <4> HIDE DEF m, n
      <4> QED BY <4>1
    <3>11. ASSUME NEW j \in 1 .. Len(k) - 1, j > Len(g)
           PROVE  ~(k[j] = ZERO /\ k[j + 1] = ONE)
      <4>1. j \in 2 .. Len(k) - 1
          BY <3>3, <3>10, <3>11
      <4> QED BY <3>1, <4>1, NoHeadBehind DEF k
    <3> QED BY <1>6, <3>3, <3>9, <3>11, EndNoHead
  <2> QED BY <2>1, <2>2
<1> QED BY <1>6, <1>7 DEF b, Remains

\* The receiver's side of a new connection.
LEMMA FreshIs ==
    ASSUME NEW r \in Seq(Nat), NEW p \in Seq(Given(TRUE)), NEW more
    PROVE  FramedAt(r, p, <<>>, 0, EmptyBuffer, more, <<>>)
<1> DEFINE b == EmptyBuffer
           w == <<>>
           t == 0
<1>1. b.filled = t /\ Contents(b) = w
    BY EmptySound DEF EmptyBuffer
<1>2. w = SubSeq(w, 1, t) /\ w = SubSeq(p, 1, t) /\ t \in Nat /\ t - t = t /\ t + 1 = 1
      /\ t <= t
  <2>1. SubSeq(w, 1, 0) = <<>> /\ SubSeq(p, 1, 0) = <<>>
      BY SubSeqEmpty
  <2> QED BY <2>1
<1>3. Len(r) \in Nat /\ Len(p) \in Nat
    OBVIOUS
<1>4. t <= Len(r) /\ t \in 0 .. Len(p)
    BY <1>3
<1>5. t = 0
    OBVIOUS
<1> HIDE DEF b, t
<1>6. Behind(r, p, t - b.filled, t)
    BY <1>1, <1>2, <1>4, <1>5 DEF Behind
<1>7. ASSUME t < Len(p) PROVE t < Reach(r, p, t + 1)
  <2>1. Lies(r, p, t, r \o CodesAs(TRUE, p))
      BY <1>4, <1>7, ReachIs
  <2>2. /\ Reach(r, p, t) \in Nat /\ Len(p[t + 1]) \in Nat
        /\ Reach(r, p, t + 1) = Reach(r, p, t) + 5 + Len(p[t + 1])
      BY <2>1 DEF Lies
  <2> QED BY <1>5, <2>2
<1>8. /\ b.filled <= t /\ Contents(b) = SubSeq(w, t - b.filled + 1, t)
    BY <1>1, <1>2
<1>9. w = SubSeq(p, 1, t)
    BY <1>2
<1> HIDE DEF w
<1>10. FramedAt(r, p, w, t, b, more, w)
    BY <1>4, <1>6, <1>7, <1>8, <1>9 DEF FramedAt
<1> QED BY <1>10 DEF b, t, w

\* The sender's side.
LEMMA AgainIs ==
    ASSUME StreamIInv, conn # "open",
           NEW kept, kept = StillWhole,
           NEW e, e = SubSeq(Contents(sbuf), 1, sbuf.filled - Len(Codes(StillWhole)))
    PROVE  /\ kept \in Seq(Given(needHead)) /\ e \in Seq(Nat)
           /\ harm = {} => /\ Contents(sbuf) = e \o CodesAs(needHead, kept)
                           /\ needHead => NoHead(e)
<1>1. Shape /\ Accounted /\ Headless
    BY DEF StreamIInv
<1>2. /\ needHead \in BOOLEAN /\ Sound(sbuf) /\ wire \in Seq(Nat) /\ rest \in Seq(Nat)
      /\ promised \in Seq(Given(needHead))
    BY <1>1 DEF Shape
<1> DEFINE s == Contents(sbuf)
           h == needHead
           p == promised
           f == sbuf.filled
<1>3. s \in Seq(Nat) /\ Len(s) = f /\ f \in Nat
    BY <1>2, ContentsAre, SizeAssumption
<1>4. PICK i : FirstWhole(h, p, f, i) /\ kept = SubSeq(p, i, Len(p))
    BY <1>1, StillWholeIs
<1>5. h \in BOOLEAN /\ p \in Seq(Given(h)) /\ Len(p) \in Nat
    BY <1>2
<1>6. e = SubSeq(s, 1, f - Len(CodesAs(h, kept)))
  <2>1. \A q : Codes(q) = CodesAs(h, q)
      BY DEF Codes, CodesAs, pack, PackAs
  <2> QED BY <2>1
<1>16. harm = {} => /\ (conn # "closed" \/ f > 0) => Balance(h, rest, p, wire, s)
                    /\ h => NoHead(rest)
    BY <1>1 DEF Accounted, Headless, Balance
<1> HIDE DEF s, h, p, f
<1>7. kept \in Seq(Given(h))
  <2>1. i \in 1 .. Len(p) + 1
      BY <1>4 DEF FirstWhole
  <2> DEFINE n == i - 1
  <2>2. n \in 0 .. Len(p) /\ n + 1 = i
      BY <1>5, <2>1
  <2> HIDE DEF n
  <2>3. SubSeq(p, n + 1, Len(p)) \in Seq(Given(h))
      BY <1>5, <2>2, CutIs
  <2> QED BY <1>4, <2>2, <2>3
<1> DEFINE k == Len(CodesAs(h, kept))
           n == f - k
<1>8. k \in Nat /\ k <= f /\ CodesAs(h, kept) \in Seq(Nat)
    BY <1>4, <1>5, <1>7, CodesType DEF FirstWhole, WholeFrom
<1>9. n \in 0 .. f
  <2> HIDE DEF k
  <2> QED BY <1>3, <1>8
<1>10. e \in Seq(Nat)
  <2> HIDE DEF n
  <2>1. SubSeq(s, 1, n) \in Seq(Nat)
      BY <1>3, <1>9, CutIs
  <2> QED BY <1>6, <2>1 DEF n
<1>11. ASSUME Balance(h, rest, p, wire, s), h => NoHead(rest)
       PROVE  s = e \o CodesAs(h, kept) /\ (h => NoHead(e))
  <2>1. CutAt(h, p, s, i, kept, e)
      BY <1>3, <1>4, <1>6 DEF CutAt
  <2>2. Remains(h, rest, s, kept, e)
      BY <1>2, <1>3, <1>5, <1>11, <2>1, RestIs
  <2> QED BY <1>11, <2>2 DEF Remains
<1>12. ASSUME f = 0 PROVE s = e \o CodesAs(h, kept) /\ NoHead(e)
  <2>1. k = 0 /\ n = 0
    <3> HIDE DEF k
    <3> QED BY <1>8, <1>12
  <2>2. s = <<>> /\ CodesAs(h, kept) = <<>>
      BY <1>3, <1>8, <1>12, <2>1, EmptySeq
  <2>3. e = <<>>
    <3>1. e = SubSeq(s, 1, 0)
      <4>1. n = 0
          BY <2>1
      <4>2. e = SubSeq(s, 1, n)
          BY <1>6
      <4> QED BY <4>1, <4>2
    <3> QED BY <3>1, SubSeqEmpty
  <2>4. <<>> \o <<>> = <<>>
      OBVIOUS
  <2>5. NoHead(<<>>)
    <3>1. 1 .. Len(<<>>) - 1 = {}
        OBVIOUS
    <3> QED BY <3>1 DEF NoHead
  <2> QED BY <2>2, <2>3, <2>4, <2>5
<1>13. ASSUME harm = {} PROVE s = e \o CodesAs(h, kept) /\ (h => NoHead(e))
  <2>1. CASE f = 0
      BY <1>12, <2>1
  <2>2. CASE f # 0
    <3>1. f > 0
        BY <1>3, <2>2
    <3> QED BY <1>11, <1>13, <1>16, <3>1
  <2> QED BY <2>1, <2>2
<1> QED BY <1>7, <1>10, <1>13 DEF s, h

LEMMA ReconnectStep ==
    ASSUME StreamIInv, reConnect
    PROVE  StreamIInv'
<1>1. /\ Shape /\ Accounted /\ Sent /\ Headless /\ Framed /\ Streamed
    BY DEF StreamIInv
<1>2. /\ needHead' = needHead /\ limit' = limit /\ sbuf' = sbuf /\ calls' = calls
      /\ harm' = harm /\ conn \in {"broken", "closed"}
    BY DEF reConnect
<1>3. ASSUME conn' = "closed", UNCHANGED <<needSelect, wire, rest, promised, receiver>>
      PROVE  StreamIInv'
  <2>1. /\ wire' = wire /\ rest' = rest /\ promised' = promised /\ taken' = taken
        /\ rbuf' = rbuf /\ hasMessage' = hasMessage /\ received' = received
      BY <1>3 DEF receiver
  <2>2. Shape'
      BY <1>1, <1>2, <1>3, <2>1 DEF Shape
  <2>3. Accounted'
    <3>1. conn' # "closed" \/ sbuf.filled > 0 => conn # "closed" \/ sbuf.filled > 0
        BY <1>3
    <3> QED BY <1>1, <1>2, <2>1, <3>1 DEF Accounted
  <2>4. Sent' /\ Headless' /\ Framed' /\ Streamed'
      BY <1>1, <1>2, <2>1 DEF Sent, Headless, Framed, Streamed
  <2> QED BY <2>2, <2>3, <2>4 DEF StreamIInv
<1>4. ASSUME conn' = "open", wire' = <<>>, taken' = 0, rbuf' = EmptyBuffer,
             hasMessage' \in {hasMessage, FALSE}, promised' = StillWhole,
             rest' = SubSeq(Contents(sbuf), 1, sbuf.filled - Len(Codes(StillWhole))),
             received' = <<>>
      PROVE  StreamIInv'
  <2>1. /\ promised' \in Seq(Given(needHead)) /\ rest' \in Seq(Nat)
        /\ harm = {} => /\ Contents(sbuf) = rest' \o CodesAs(needHead, promised')
                        /\ needHead => NoHead(rest')
    <3> DEFINE kept == promised'
               e == rest'
    <3>1. /\ kept = StillWhole
          /\ e = SubSeq(Contents(sbuf), 1, sbuf.filled - Len(Codes(StillWhole)))
        BY <1>4
    <3>2. conn # "open"
        BY <1>2
    <3> HIDE DEF kept, e
    <3>3. /\ kept \in Seq(Given(needHead)) /\ e \in Seq(Nat)
          /\ harm = {} => /\ Contents(sbuf) = e \o CodesAs(needHead, kept)
                          /\ needHead => NoHead(e)
        BY <3>1, <3>2, AgainIs
    <3> QED BY <3>3 DEF kept, e
  <2>2. needHead \in BOOLEAN /\ Sound(sbuf) /\ hasMessage' \in BOOLEAN
      BY <1>1, <1>4 DEF Shape
  <2>3. Shape'
    <3>1. Sound(rbuf') /\ rbuf'.head = 0
        BY <1>4, EmptySound
    <3>2. wire' \in Seq(Nat) /\ taken' \in 0 .. Len(wire')
        BY <1>4
    <3> QED BY <1>1, <1>2, <1>4, <2>1, <2>2, <3>1, <3>2 DEF Shape
  <2>4. harm = {} => wire' \o Contents(sbuf) = rest' \o CodesAs(needHead, promised')
    <3>1. Contents(sbuf) \in Seq(Nat)
        BY <2>2, ContentsAre
    <3>2. <<>> \o Contents(sbuf) = Contents(sbuf)
        BY <3>1, ConcatEmptySeq
    <3> QED BY <1>4, <2>1, <3>2
  <2>5. Accounted' /\ Sent'
    <3>1. Contents(sbuf) \in Seq(Nat)
        BY <2>2, ContentsAre
    <3> QED BY <1>2, <2>4, <3>1 DEF Accounted, Sent
  <2>6. Headless'
      BY <1>2, <2>1 DEF Headless
  <2>7. Framed'
    <3> SUFFICES ASSUME needHead
                 PROVE  FramedAt(rest', promised', wire', taken', rbuf', hasMessage', received')
        BY <1>2 DEF Framed
    <3> DEFINE p == promised'
               r == rest'
               more == hasMessage'
    <3>1. r \in Seq(Nat) /\ p \in Seq(Given(TRUE))
      <4>1. needHead = TRUE
          BY <2>2
      <4> QED BY <2>1, <4>1
    <3> HIDE DEF p, r, more
    <3>2. FramedAt(r, p, <<>>, 0, EmptyBuffer, more, <<>>)
        BY <3>1, FreshIs
    <3> QED BY <1>4, <3>2 DEF p, r, more
  <2>8. Streamed'
    <3>1. SubSeq(<<>>, 1, 0) = <<>>
        BY SubSeqEmpty
    <3> QED BY <1>4, <3>1 DEF Streamed
  <2> QED BY <2>3, <2>5, <2>6, <2>7, <2>8 DEF StreamIInv
<1> QED BY <1>3, <1>4 DEF reConnect

LEMMA BreakStep ==
    ASSUME StreamIInv, Break
    PROVE  StreamIInv'
<1>1. /\ needHead' = needHead /\ limit' = limit /\ sbuf' = sbuf /\ wire' = wire
      /\ calls' = calls /\ rest' = rest /\ promised' = promised /\ harm' = harm
      /\ taken' = taken /\ rbuf' = rbuf /\ hasMessage' = hasMessage /\ received' = received
      /\ conn = "open" /\ conn' = "broken"
    BY DEF Break, receiver
<1> QED BY <1>1 DEF StreamIInv, Shape, Accounted, Sent, Headless, Framed, Streamed

LEMMA CloseStep ==
    ASSUME StreamIInv, closeSocketConnection
    PROVE  StreamIInv'
<1>1. /\ needHead' = needHead /\ limit' = limit /\ sbuf' = EmptyBuffer /\ wire' = wire
      /\ calls' = calls /\ rest' = rest /\ promised' = promised /\ harm' = harm
      /\ taken' = taken /\ rbuf' = rbuf /\ hasMessage' = hasMessage /\ received' = received
      /\ conn' = "closed"
    BY DEF closeSocketConnection, receiver
<1>2. Sound(sbuf') /\ ~(sbuf'.filled > 0)
    BY <1>1, EmptySound
<1>3. Shape' /\ Accounted'
    BY <1>1, <1>2 DEF StreamIInv, Shape, Accounted
<1>4. Sent' /\ Headless' /\ Framed' /\ Streamed'
    BY <1>1 DEF StreamIInv, Sent, Headless, Framed, Streamed
<1> QED BY <1>3, <1>4 DEF StreamIInv

LEMMA RecvStep ==
    ASSUME StreamIInv, recvCode
    PROVE  StreamIInv'
<1>1. /\ Shape /\ Accounted /\ Sent /\ Headless /\ Framed /\ Streamed
    BY DEF StreamIInv
<1>2. /\ harm = {} /\ needHead' = needHead /\ limit' = limit /\ conn' = conn /\ sbuf' = sbuf
      /\ wire' = wire /\ calls' = calls /\ rest' = rest /\ promised' = promised /\ harm' = harm
    BY DEF recvCode, sender
<1>3. Accounted' /\ Sent' /\ Headless'
    BY <1>1, <1>2 DEF Accounted, Sent, Headless
<1>4. CASE needHead
  <2>1. OnWire(rest, promised, wire)
    <3>1. needHead = TRUE
        BY <1>1, <1>4 DEF Shape
    <3>2. NoHead(rest) /\ \E u \in Seq(Nat) : wire \o u = rest \o CodesAs(TRUE, promised)
        BY <1>1, <1>2, <3>1 DEF Headless, Sent
    <3> QED BY <1>1, <3>1, <3>2 DEF OnWire, Shape
  <2>2. FramedAt(rest, promised, wire, taken, rbuf, hasMessage, received)
      BY <1>1, <1>2, <1>4 DEF Framed
  <2>3. recvCodeByFindHead
      BY <1>4 DEF recvCode
  <2>4. /\ taken' \in 0 .. Len(wire)
        /\ Sound(rbuf') /\ hasMessage' \in BOOLEAN /\ (~hasMessage' => rbuf'.head = 0)
        /\ FramedAt(rest, promised, wire, taken', rbuf', hasMessage', received')
      BY <1>1, <1>4, <2>1, <2>2, <2>3, FindHeadIs
  <2>5. Shape'
      BY <1>1, <1>2, <2>4 DEF Shape
  <2>6. Framed' /\ Streamed'
      BY <1>2, <1>4, <2>4 DEF Framed, Streamed
  <2> QED BY <1>3, <2>5, <2>6 DEF StreamIInv
<1>5. CASE ~needHead
  <2>1. recvCodeDirect /\ received = SubSeq(wire, 1, taken)
      BY <1>1, <1>2, <1>5 DEF recvCode, Streamed
  <2>2. taken' \in 0 .. Len(wire) /\ received' = SubSeq(wire, 1, taken')
      BY <1>1, <2>1, DirectIs
  <2>3. rbuf' = rbuf /\ hasMessage' = hasMessage
      BY <2>1 DEF recvCodeDirect
  <2>4. Shape'
      BY <1>1, <1>2, <2>2, <2>3 DEF Shape
  <2>5. Framed' /\ Streamed'
      BY <1>2, <1>5, <2>2 DEF Framed, Streamed
  <2> QED BY <1>3, <2>4, <2>5 DEF StreamIInv
<1> QED BY <1>4, <1>5

LEMMA IdleStep ==
    ASSUME StreamIInv, UNCHANGED vars
    PROVE  StreamIInv'
<1>1. /\ needHead' = needHead /\ limit' = limit /\ sbuf' = sbuf /\ wire' = wire
      /\ calls' = calls /\ rest' = rest /\ promised' = promised /\ harm' = harm
      /\ taken' = taken /\ rbuf' = rbuf /\ hasMessage' = hasMessage /\ received' = received
      /\ conn' = conn
    BY DEF vars, sender, receiver
<1> QED BY <1>1 DEF StreamIInv, Shape, Accounted, Sent, Headless, Framed, Streamed

LEMMA StreamBegins == ASSUME Init PROVE StreamIInv
<1>1. /\ needHead \in BOOLEAN /\ limit \in Nat /\ conn = "open" /\ sbuf = EmptyBuffer
      /\ rbuf = EmptyBuffer /\ hasMessage = FALSE /\ wire = <<>> /\ taken = 0 /\ calls = 0
      /\ rest = <<>> /\ promised = <<>> /\ received = <<>> /\ harm = {}
    BY ReserveAssumption DEF Init
<1>2. Shape
  <2>1. promised \in Seq(Given(needHead)) /\ wire \in Seq(Nat) /\ rest \in Seq(Nat)
        /\ taken \in 0 .. Len(wire) /\ harm \subseteq Harms
      BY <1>1
  <2> QED BY <1>1, <2>1, EmptySound DEF Shape
<1>3. wire \o Contents(sbuf) = rest \o CodesAs(needHead, promised)
  <2>1. CodesAs(needHead, <<>>) = <<>>
      BY CodesEmpty
  <2> QED BY <1>1, <2>1, EmptySound
<1>4. Accounted /\ Sent
  <2>1. Contents(sbuf) \in Seq(Nat)
      BY <1>1, EmptySound
  <2> QED BY <1>3, <2>1 DEF Accounted, Sent
<1>5. Headless
  <2>1. 1 .. Len(<<>>) - 1 = {}
      OBVIOUS
  <2> QED BY <1>1, <2>1 DEF Headless, NoHead
<1>6. Framed
  <2>1. <<>> \in Seq(Nat) /\ <<>> \in Seq(Given(TRUE))
      OBVIOUS
  <2>2. FramedAt(<<>>, <<>>, <<>>, 0, EmptyBuffer, FALSE, <<>>)
      BY <2>1, FreshIs
  <2> QED BY <1>1, <2>2 DEF Framed
<1>7. Streamed
  <2>1. SubSeq(<<>>, 1, 0) = <<>>
      BY SubSeqEmpty
  <2> QED BY <1>1, <2>1 DEF Streamed
<1> QED BY <1>2, <1>4, <1>5, <1>6, <1>7 DEF StreamIInv

-----------------------------------------------------------------------------
(* The theorems.                                                           *)

\* The invariant holds throughout, whatever send() takes of a code, however
\* the stream is cut into reads and whenever the connection breaks.
THEOREM Invariance == Spec => []StreamIInv
<1>1. Init => StreamIInv
    BY StreamBegins
<1>2. StreamIInv /\ [Next]_vars => StreamIInv'
  <2> SUFFICES ASSUME StreamIInv, [Next]_vars PROVE StreamIInv'
      OBVIOUS
  <2>1. CASE sendCode
      BY <2>1, SendStep
  <2>2. CASE Break
      BY <2>2, BreakStep
  <2>3. CASE closeSocketConnection
      BY <2>3, CloseStep
  <2>4. CASE reConnect
      BY <2>4, ReconnectStep
  <2>5. CASE recvCode
      BY <2>5, RecvStep
  <2>6. CASE UNCHANGED vars
      BY <2>6, IdleStep
  <2> QED BY <2>1, <2>2, <2>3, <2>4, <2>5, <2>6 DEF Next
<1> QED BY <1>1, <1>2, PTL DEF Spec

\* The pointers and lengths of both rings of bytes agree after any sequence
\* of writes, partial writes, reads and reconnections (TBuffer), and the
\* receiver reads from its socket only behind a buffer that starts at the
\* beginning of its memory.
THEOREM TypeCorrect == Spec => []TypeOK
<1>1. StreamIInv => TypeOK
  <2> SUFFICES ASSUME StreamIInv PROVE TypeOK
      OBVIOUS
  <2>1. Shape
      BY DEF StreamIInv
  <2>2. BufferOK(sbuf) /\ BufferOK(rbuf)
      BY <2>1, SoundOK DEF Shape
  <2> QED BY <2>1, <2>2 DEF Shape, TypeOK, Harms
<1> QED BY <1>1, Invariance, PTL

\* The bytes on the connection followed by those in the send buffer are the
\* accepted codes, for every split send() makes of them (sendMessage,
\* sendUnsentCode, backupToSendBuff).
THEOREM Accounting == Spec => []WireAccounted
<1>1. StreamIInv => WireAccounted
  <2> SUFFICES ASSUME StreamIInv, harm = {}, conn # "closed"
               PROVE  wire \o Contents(sbuf) = rest \o Codes(promised)
      BY DEF WireAccounted
  <2>1. Codes(promised) = CodesAs(needHead, promised)
      BY DEF Codes, CodesAs, pack, PackAs
  <2> QED BY <2>1 DEF StreamIInv, Accounted
<1> QED BY <1>1, Invariance, PTL

\* The receiver returns the accepted codes whole and in order, however they
\* arrive (_readFromBuff, recvCodeByFindHead, recvCodeDirect).
THEOREM Framing == Spec => []FramesIntact
<1>1. StreamIInv => FramesIntact
  <2> SUFFICES ASSUME StreamIInv, harm = {}
               PROVE  IF needHead THEN IsPrefix(received, promised)
                                  ELSE IsPrefix(received, rest \o Codes(promised))
      BY DEF FramesIntact
  <2>1. Shape /\ Sent /\ Framed /\ Streamed
      BY DEF StreamIInv
  <2>2. ASSUME NEW S, NEW s \in Seq(S), NEW n \in 0 .. Len(s), NEW g, g = SubSeq(s, 1, n)
        PROVE  IsPrefix(g, s)
    <3>1. Len(g) = n /\ Len(s) \in Nat
        BY <2>2, CutIs
    <3>2. Len(g) <= Len(s) /\ SubSeq(g, 1, Len(g)) = SubSeq(s, 1, Len(g))
      <4>1. g \in Seq(S)
          BY <2>2, CutIs
      <4>2. SubSeq(g, 1, Len(g)) = g
          BY <4>1, SubSeqFull
      <4> QED BY <2>2, <3>1, <4>2
    <3> QED BY <3>2 DEF IsPrefix
  <2>3. CASE needHead
    <3>1. promised \in Seq(Given(needHead))
        BY <2>1 DEF Shape
    <3>2. PICK m \in 0 .. Len(promised) : received = SubSeq(promised, 1, m)
        BY <2>1, <2>3 DEF Framed, FramedAt
    <3>3. IsPrefix(received, promised)
        BY <2>2, <3>1, <3>2
    <3> QED BY <2>3, <3>3
  <2>4. CASE ~needHead
    <3>1. PICK u \in Seq(Nat) : wire \o u = rest \o CodesAs(needHead, promised)
        BY <2>1 DEF Sent
    <3>2. Codes(promised) = CodesAs(needHead, promised)
        BY DEF Codes, CodesAs, pack, PackAs
    <3>3. received = SubSeq(wire, 1, taken) /\ wire \in Seq(Nat) /\ taken \in 0 .. Len(wire)
        BY <2>1, <2>4 DEF Streamed, Shape
    <3> DEFINE s == wire \o u
    <3>4. s \in Seq(Nat) /\ Joined(s, wire, u)
        BY <3>3, JoinIs
    <3>5. taken \in Nat /\ taken <= Len(wire) /\ taken \in 0 .. Len(s)
        BY <3>3, <3>4 DEF Joined
    <3>6. received = SubSeq(s, 1, taken)
      <4> DEFINE k == 0
      <4>1. k \in Nat /\ k <= taken /\ k + 1 = 1
          BY <3>5
      <4> HIDE DEF k
      <4>2. SubSeq(wire \o u, k + 1, taken) = SubSeq(wire, k + 1, taken)
          BY <3>3, <3>5, <4>1, BeginIs
      <4> QED BY <3>3, <4>1, <4>2
    <3> HIDE DEF s
    <3>7. IsPrefix(received, s)
        BY <2>2, <3>4, <3>5, <3>6
    <3> QED BY <2>4, <3>1, <3>2, <3>7 DEF s
  <2> QED BY <2>3, <2>4
<1> QED BY <1>1, Invariance, PTL

\* Before recvCode waits for the socket every whole code that has arrived is
\* handed out (recvBufHasMessage, hasBufferedCode).
THEOREM HandedOut == Spec => []NothingLeftBehind
<1>1. StreamIInv => NothingLeftBehind
  <2> SUFFICES ASSUME StreamIInv, harm = {}, needHead, ~hasMessage,
                      Len(received) < Len(promised)
               PROVE  taken < Len(rest) + Len(Codes(SubSeq(promised, 1, Len(received) + 1)))
      BY DEF NothingLeftBehind
  <2>1. needHead = TRUE /\ promised \in Seq(Given(needHead))
      BY DEF StreamIInv, Shape
  <2>2. FramedAt(rest, promised, wire, taken, rbuf, hasMessage, received)
      BY DEF StreamIInv, Framed
  <2>3. PICK m \in 0 .. Len(promised) :
           /\ received = SubSeq(promised, 1, m)
           /\ ~hasMessage /\ m < Len(promised) => taken < Reach(rest, promised, m + 1)
      BY <2>2 DEF FramedAt
  <2>4. Len(received) = m
      BY <2>1, <2>3, CutIs
  <2>5. taken < Reach(rest, promised, m + 1)
      BY <2>3, <2>4
  <2>6. Codes(SubSeq(promised, 1, m + 1)) = CodesAs(TRUE, SubSeq(promised, 1, m + 1))
      BY <2>1 DEF Codes, CodesAs, pack, PackAs
  <2> QED BY <2>4, <2>5, <2>6 DEF Reach
<1> QED BY <1>1, Invariance, PTL
=============================================================================
