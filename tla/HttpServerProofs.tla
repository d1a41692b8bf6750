-------------------------- MODULE HttpServerProofs --------------------------
(***************************************************************************)
(* Proofs about HttpServer, for any number of clients, requests and parts  *)
(* and any size of a send buffer.                                          *)
(***************************************************************************)
EXTENDS HttpServer, SequenceLemmas

-----------------------------------------------------------------------------
(* The inductive invariant.                                                *)

Size == Nat \ {0}
Part == Nat \X Nat
Stream == [content : Nat, pos : Nat, len : Nat]

\* The first n parts of the i-th answer, and the parts of answers with these
\* sizes.
Numbered(i, n) == [j \in 1 .. n |-> <<i, j>>]
PartsOf(z) == FlattenSeq([i \in DOMAIN z |-> Numbered(i, z[i])])

\* Where the threads may be.
Clearing == {"delete", "pos", "len"}
Handling == {"send", "part", "recv"} \union Clearing
Threads ==
    [at : {"prepare", "select", "accept"} \union Handling, accept : BOOLEAN,
     read : SUBSET Link, write : SUBSET Link, todo : Seq(Link)]
Receivers == [at : {"idle", "len", "content"}, link : Link \union {NoLink}]

\* A thread that handles links has one in hand; an answer is on its way only
\* when there is one.
ThreadShape(th) == th \in Threads /\ (th.at \in Handling => th.todo # <<>>)
ReceiverShape(rc, z) ==
    /\ rc \in Receivers
    /\ rc.at = "idle" <=> rc.link = NoLink
    /\ rc.at # "idle" => z[rc.link] # <<>>

Shape ==
    /\ client \in [Link -> {"new", "waiting", "open", "gone"}]
    /\ inbox \in [Link -> Nat] /\ asked \in [Link -> Nat]
    /\ links \in Seq(Link) /\ posted \in Seq(Link)
    /\ stream \in [Link -> Stream]
    /\ kept \in [Link -> Seq(Part)] /\ out \in [Link -> Seq(Part)]
    /\ handed \in [Link -> Seq(Part)] /\ sizes \in [Link -> Seq(Size)]
    /\ ThreadShape(thread) /\ ReceiverShape(receiver, sizes)

\* Where a thread is in its work on link l.
Place(th, l) == IF th.at \in Handling /\ Head(th.todo) = l THEN th.at ELSE "away"
Turn(rc, l) == IF rc.link = l THEN rc.at ELSE "idle"

\* The socket was given all parts; or the first p of the last answer, which
\* has more.
Whole(z, o) == o = PartsOf(z)
Begun(z, o, p) ==
    /\ z # <<>> /\ p \in Nat /\ p < z[Len(z)]
    /\ o = PartsOf(Front(z)) \o Numbered(Len(z), p)

\* Nothing to send.
Quiet(z, o, s, c, r) ==
    /\ r = "idle" /\ Whole(z, o)
    /\ s.content = NULL /\ s.pos = 0 /\ c \notin {"part", "delete", "pos"}

\* The Receiver fills the stream.
Filling(z, o, s, a, c, r) ==
    /\ r \in {"len", "content"} /\ a = Len(z) /\ Begun(z, o, 0)
    /\ s.content = NULL /\ s.pos = 0 /\ c \notin {"part"} \union Clearing
    /\ r = "content" => s.len = z[Len(z)]

\* The HTTP thread sends it.
Sending(z, o, s, a, c, r) ==
    /\ r = "idle" /\ a = Len(z) /\ Begun(z, o, s.pos)
    /\ s.content = Len(z) /\ s.len = z[Len(z)] /\ c \notin Clearing

\* All is sent, and the HTTP thread clears the stream.
Emptying(z, o, s, c, r) ==
    /\ r = "idle" /\ Whole(z, o)
    /\ c \in {"delete", "pos"}
    /\ c = "pos" => s.content = NULL

\* i requests to read, waiting: one is posted; a were asked.
Asking(z, o, i, a, waiting, c) ==
    /\ a \in {Len(z), Len(z) + 1}
    /\ i = 0 \/ (i = 1 /\ a = Len(z) + 1)
    /\ waiting => i = 0 /\ a = Len(z) + 1 /\ c \notin Clearing
    /\ a = Len(z) + 1 => Whole(z, o)

LinkOK(z, o, s, i, a, waiting, c, r) ==
    /\ Asking(z, o, i, a, waiting, c)
    /\ \/ Quiet(z, o, s, c, r) \/ Filling(z, o, s, a, c, r)
       \/ Sending(z, o, s, a, c, r) \/ Emptying(z, o, s, c, r)

Once(p, l) == \A i, j \in DOMAIN p : p[i] = l /\ p[j] = l => i = j

LinkInv(l) ==
    /\ LinkOK(sizes[l], handed[l], stream[l], inbox[l], asked[l],
              l \in ToSet(posted), Place(thread, l), Turn(receiver, l))
    /\ Once(posted, l)

Streams == \A l \in Link \ early : LinkInv(l)

\* What a socket was given has gone out or is kept, unless it did not accept
\* a part or sent bytes again.
Sockets == \A l \in Link \ (lost \union repeated) : out[l] \o kept[l] = handed[l]

ServerIInv == Shape /\ Streams /\ Sockets

-----------------------------------------------------------------------------
(* Answers and their parts.                                                *)

LEMMA NumberedIs ==
    ASSUME NEW i \in Nat, NEW n \in Nat
    PROVE  /\ Numbered(i, n) \in Seq(Part) /\ Len(Numbered(i, n)) = n
           /\ \A j \in 1 .. n : Numbered(i, n)[j] = <<i, j>>
<1>1. \A j \in 1 .. n : <<i, j>> \in Part
    BY DEF Part
<1> QED BY <1>1 DEF Numbered

LEMMA NumberedNext ==
    ASSUME NEW i \in Nat, NEW n \in Nat
    PROVE  Numbered(i, n + 1) = Append(Numbered(i, n), <<i, n + 1>>)
<1> DEFINE s == Numbered(i, n)
           x == <<i, n + 1>>
           t == Append(s, x)
           u == Numbered(i, n + 1)
<1>1. n + 1 \in Nat
    OBVIOUS
<1>2. /\ s \in Seq(Part) /\ Len(s) = n /\ \A j \in 1 .. n : s[j] = <<i, j>>
      /\ u \in Seq(Part) /\ Len(u) = n + 1 /\ \A j \in 1 .. n + 1 : u[j] = <<i, j>>
    BY <1>1, NumberedIs
<1>3. x \in Part
    BY DEF Part
<1> HIDE DEF s, u
<1>4. /\ t \in Seq(Part) /\ Len(t) = n + 1 /\ t[n + 1] = x
      /\ \A j \in 1 .. n : t[j] = s[j]
    BY <1>2, <1>3
<1> HIDE DEF t
<1>5. ASSUME NEW j \in 1 .. n + 1 PROVE u[j] = t[j]
  <2>1. j \in 1 .. n \/ j = n + 1
      OBVIOUS
  <2> QED BY <1>2, <1>4, <2>1 DEF x
<1>6. u = t
    BY <1>2, <1>4, <1>5, SeqEqual
<1> QED BY <1>6 DEF s, t, u, x

\* The sequences PartsOf puts together.
Answers(z) == [i \in DOMAIN z |-> Numbered(i, z[i])]

LEMMA AnswersType ==
    ASSUME NEW z \in Seq(Size)
    PROVE  /\ Answers(z) \in Seq(Seq(Part)) /\ Len(Answers(z)) = Len(z)
           /\ \A i \in 1 .. Len(z) : Answers(z)[i] = Numbered(i, z[i])
<1>1. DOMAIN z = 1 .. Len(z) /\ Len(z) \in Nat
    OBVIOUS
<1>2. ASSUME NEW i \in 1 .. Len(z) PROVE Numbered(i, z[i]) \in Seq(Part)
  <2>1. i \in Nat /\ z[i] \in Nat
      BY <1>1 DEF Size
  <2> QED BY <2>1, NumberedIs
<1> QED BY <1>1, <1>2 DEF Answers

LEMMA PartsType ==
    ASSUME NEW z \in Seq(Size)
    PROVE  PartsOf(z) \in Seq(Part) /\ Len(PartsOf(z)) \in Nat
<1>1. PartsOf(z) \in Seq(Part)
    BY AnswersType, FlattenType DEF PartsOf, Answers
<1> QED BY <1>1

LEMMA PartsEmpty == PartsOf(<<>>) = <<>>
<1>1. [i \in DOMAIN <<>> |-> Numbered(i, <<>>[i])] = <<>>
    OBVIOUS
<1> QED BY <1>1, EmptySeq DEF PartsOf, FlattenSeq

LEMMA PartsAppend ==
    ASSUME NEW z \in Seq(Size), NEW n \in Size
    PROVE  PartsOf(Append(z, n)) = PartsOf(z) \o Numbered(Len(z) + 1, n)
<1> DEFINE y == Append(z, n)
           k == Numbered(Len(z) + 1, n)
           a == Answers(z)
           b == Answers(y)
           c == Append(a, k)
<1>1. /\ y \in Seq(Size) /\ Len(y) = Len(z) + 1 /\ y[Len(z) + 1] = n
      /\ \A i \in 1 .. Len(z) : y[i] = z[i]
    OBVIOUS
<1> HIDE DEF y
<1>2. /\ a \in Seq(Seq(Part)) /\ Len(a) = Len(z) /\ Len(z) \in Nat
      /\ \A i \in 1 .. Len(z) : a[i] = Numbered(i, z[i])
    BY AnswersType
<1>3. /\ b \in Seq(Seq(Part)) /\ Len(b) = Len(y)
      /\ \A i \in 1 .. Len(y) : b[i] = Numbered(i, y[i])
    BY <1>1, AnswersType
<1>4. k \in Seq(Part)
    BY <1>2, NumberedIs DEF Size
<1> HIDE DEF a, b
<1>8. k = Numbered(Len(z) + 1, n)
    OBVIOUS
<1> HIDE DEF k
<1>5. /\ c \in Seq(Seq(Part)) /\ Len(c) = Len(z) + 1 /\ c[Len(z) + 1] = k
      /\ \A i \in 1 .. Len(z) : c[i] = a[i]
  <2> DEFINE R == Seq(Part)
  <2>1. a \in Seq(R) /\ k \in R /\ Len(a) = Len(z)
      BY <1>2, <1>4
  <2> HIDE DEF R
  <2>2. /\ c \in Seq(R) /\ Len(c) = Len(a) + 1 /\ c[Len(a) + 1] = k
        /\ \A i \in 1 .. Len(a) : c[i] = a[i]
      BY <2>1, AppendProperties
  <2> QED BY <2>1, <2>2 DEF R
<1> HIDE DEF c
<1>6. ASSUME NEW i \in 1 .. Len(z) + 1 PROVE b[i] = c[i]
  <2>1. i \in 1 .. Len(z) \/ i = Len(z) + 1
      BY <1>2
  <2>2. CASE i = Len(z) + 1
    <3>1. b[i] = Numbered(i, y[i])
        BY <1>1, <1>3
    <3> QED BY <1>1, <1>5, <1>8, <2>2, <3>1
  <2>3. CASE i \in 1 .. Len(z)
    <3>1. b[i] = Numbered(i, y[i]) /\ y[i] = z[i] /\ a[i] = Numbered(i, z[i])
        BY <1>1, <1>2, <1>3, <2>3
    <3> QED BY <1>5, <2>3, <3>1
  <2> QED BY <2>1, <2>2, <2>3
<1>7. b = c
  <2>1. Len(b) = Len(z) + 1
      BY <1>1, <1>3
  <2> QED BY <1>3, <1>5, <1>6, <2>1, SeqEqual
<1>9. FlattenSeq(c) = FlattenSeq(a) \o k
    BY <1>2, <1>4, FlattenAppend DEF c
<1> QED BY <1>7, <1>8, <1>9 DEF PartsOf, Answers, a, b, y

\* The last answer, by itself.
LEMMA FrontIs ==
    ASSUME NEW z \in Seq(Size), z # <<>>
    PROVE  /\ Front(z) \in Seq(Size) /\ Len(Front(z)) = Len(z) - 1
           /\ Len(z) \in Size /\ z[Len(z)] \in Size
           /\ z = Append(Front(z), z[Len(z)])
<1>1. Len(z) \in Size
    BY EmptySeq DEF Size
<1>2. z[Len(z)] \in Size
    BY <1>1, ElementOfSeq DEF Size
<1> DEFINE n == Len(z) - 1
<1>3. n \in 0 .. Len(z) /\ n + 1 = Len(z)
    BY <1>1 DEF Size
<1> HIDE DEF n
<1>4. /\ SubSeq(z, 1, n) \in Seq(Size) /\ Len(SubSeq(z, 1, n)) = n
    BY <1>3, CutIs
<1>5. z = SubSeq(z, 1, Len(z) - 1) \o <<z[Len(z)]>>
  <2>1. 1 \in 1 .. Len(z) /\ Len(z) \in 1 .. Len(z)
      BY <1>1 DEF Size
  <2>2. SubSeq(z, 1, Len(z)) = SubSeq(z, 1, Len(z) - 1) \o <<z[Len(z)]>>
      BY <2>1, SubSeqRecursiveSecond
  <2>3. SubSeq(z, 1, Len(z)) = z
      BY SubSeqFull
  <2> QED BY <2>2, <2>3
<1>6. Front(z) \in Seq(Size) /\ Len(Front(z)) = Len(z) - 1
    BY <1>4 DEF Front, n
<1>7. Front(z) \o <<z[Len(z)]>> = Append(Front(z), z[Len(z)])
    BY <1>2, <1>6, AppendIsConcat
<1> QED BY <1>1, <1>2, <1>5, <1>6, <1>7 DEF Front

LEMMA LastAnswer ==
    ASSUME NEW z \in Seq(Size), z # <<>>
    PROVE  PartsOf(z) = PartsOf(Front(z)) \o Numbered(Len(z), z[Len(z)])
<1> DEFINE y == Front(z)
           n == z[Len(z)]
<1>1. y \in Seq(Size) /\ n \in Size /\ z = Append(y, n) /\ Len(y) + 1 = Len(z)
  <2>1. Len(z) \in Size /\ Len(y) = Len(z) - 1
      BY FrontIs
  <2> QED BY <2>1, FrontIs DEF Size
<1> HIDE DEF y, n
<1>2. PartsOf(Append(y, n)) = PartsOf(y) \o Numbered(Len(y) + 1, n)
    BY <1>1, PartsAppend
<1>3. PartsOf(z) = PartsOf(y) \o Numbered(Len(z), n)
    BY <1>1, <1>2
<1> QED BY <1>3 DEF y, n

LEMMA BegunIs ==
    ASSUME NEW z \in Seq(Size), NEW o, NEW p, Begun(z, o, p)
    PROVE  /\ Front(z) \in Seq(Size) /\ Len(z) \in Size /\ z[Len(z)] \in Size /\ p \in Nat
           /\ PartsOf(Front(z)) \in Seq(Part) /\ Len(PartsOf(Front(z))) \in Nat
           /\ Numbered(Len(z), p) \in Seq(Part) /\ Len(Numbered(Len(z), p)) = p
           /\ o \in Seq(Part) /\ Len(o) = Len(PartsOf(Front(z))) + p
<1>1. z # <<>> /\ p \in Nat /\ o = PartsOf(Front(z)) \o Numbered(Len(z), p)
    BY DEF Begun
<1>2. Front(z) \in Seq(Size) /\ Len(z) \in Size /\ z[Len(z)] \in Size
    BY <1>1, FrontIs
<1> DEFINE f == PartsOf(Front(z))
           g == Numbered(Len(z), p)
<1>3. f \in Seq(Part) /\ Len(f) \in Nat
    BY <1>2, PartsType
<1>4. g \in Seq(Part) /\ Len(g) = p
    BY <1>1, <1>2, NumberedIs DEF Size
<1> HIDE DEF f, g
<1>5. f \o g \in Seq(Part) /\ Joined(f \o g, f, g)
    BY <1>3, <1>4, JoinIs
<1>6. Len(f \o g) = Len(f) + p
    BY <1>4, <1>5 DEF Joined
<1> QED BY <1>1, <1>2, <1>3, <1>4, <1>5, <1>6 DEF f, g

\* An answer that is begun is not whole: what is there is less.
LEMMA BegunLess ==
    ASSUME NEW z \in Seq(Size), NEW o, NEW p, Begun(z, o, p)
    PROVE  Len(o) < Len(PartsOf(z)) /\ ~Whole(z, o)
<1> DEFINE f == PartsOf(Front(z))
           g == Numbered(Len(z), z[Len(z)])
<1>1. /\ Len(z) \in Size /\ z[Len(z)] \in Size /\ p \in Nat /\ f \in Seq(Part)
      /\ Len(f) \in Nat /\ Len(o) = Len(f) + p
    BY BegunIs
<1>2. p < z[Len(z)] /\ z # <<>>
    BY DEF Begun
<1>3. PartsOf(z) = f \o g
    BY <1>2, LastAnswer
<1>4. g \in Seq(Part) /\ Len(g) = z[Len(z)]
    BY <1>1, NumberedIs DEF Size
<1> HIDE DEF f, g
<1>5. Joined(f \o g, f, g)
    BY <1>1, <1>4, JoinIs
<1>6. Len(PartsOf(z)) = Len(f) + z[Len(z)]
    BY <1>3, <1>4, <1>5 DEF Joined
<1> DEFINE n == z[Len(z)]
           k == Len(f)
           m == Len(PartsOf(z))
           u == Len(o)
<1>7. n \in Nat /\ k \in Nat /\ p \in Nat /\ p < n /\ m = k + n /\ u = k + p
    BY <1>1, <1>2, <1>6 DEF Size
<1> HIDE DEF n, k, m, u
<1>8. u < m
    BY <1>7
<1>9. Len(o) < Len(PartsOf(z))
    BY <1>8 DEF u, m
<1> QED BY <1>8 DEF Whole, u, m

\* A new answer is begun with nothing of it.
LEMMA BegunNew ==
    ASSUME NEW z \in Seq(Size), NEW o \in Seq(Part), NEW n \in Size, Whole(z, o)
    PROVE  Begun(Append(z, n), o, 0)
<1> DEFINE y == Append(z, n)
<1>1. /\ y \in Seq(Size) /\ Len(y) = Len(z) + 1 /\ y[Len(z) + 1] = n
      /\ \A i \in 1 .. Len(z) : y[i] = z[i]
    OBVIOUS
<1>2. Len(z) \in Nat /\ z \in Seq(Size)
    OBVIOUS
<1> HIDE DEF y
<1>3. y # <<>> /\ n = y[Len(y)]
    BY <1>1, <1>2, EmptySeq
<1>4. Front(y) = z
  <2>1. Front(y) \in Seq(Size) /\ Len(Front(y)) = Len(z)
      BY <1>1, <1>2, <1>3, FrontIs
  <2>2. Front(y) = SubSeq(y, 1, Len(z))
      BY <1>1, <1>2 DEF Front
  <2>3. Len(z) \in 0 .. Len(y)
      BY <1>1, <1>2
  <2>4. \A i \in 1 .. Len(z) : SubSeq(y, 1, Len(z))[i] = y[i]
      BY <1>1, <2>3, CutIs
  <2>5. \A i \in 1 .. Len(z) : Front(y)[i] = z[i]
      BY <1>1, <2>2, <2>4
  <2> DEFINE x == Front(y)
  <2>6. x \in Seq(Size) /\ Len(x) = Len(z) /\ \A i \in 1 .. Len(x) : x[i] = z[i]
      BY <2>1, <2>5
  <2> HIDE DEF x
  <2>7. x = z
      BY <2>6, SeqEqual
  <2> QED BY <2>7 DEF x
<1>5. Numbered(Len(y), 0) = <<>>
  <2>1. Numbered(Len(y), 0) \in Seq(Part) /\ Len(Numbered(Len(y), 0)) = 0
    <3>1. Len(y) \in Nat /\ 0 \in Nat
        BY <1>1, <1>2
    <3> DEFINE q == 0
    <3>2. q \in Nat
        OBVIOUS
    <3> HIDE DEF q
    <3>3. Numbered(Len(y), q) \in Seq(Part) /\ Len(Numbered(Len(y), q)) = q
        BY <3>1, <3>2, NumberedIs
    <3> QED BY <3>3 DEF q
  <2> QED BY <2>1, EmptySeq
<1>6. o = PartsOf(Front(y)) \o Numbered(Len(y), 0)
  <2>1. o \o <<>> = o
      BY ConcatEmptySeq
  <2> QED BY <1>4, <1>5, <2>1 DEF Whole
<1>7. 0 \in Nat /\ 0 < n
    BY DEF Size
<1>8. Begun(y, o, 0)
    BY <1>3, <1>6, <1>7 DEF Begun
<1> QED BY <1>8 DEF y

\* With its next part, an answer is whole or goes on.
LEMMA BegunNext ==
    ASSUME NEW z \in Seq(Size), NEW o \in Seq(Part), NEW p \in Nat, Begun(z, o, p)
    PROVE  /\ p + 1 >= z[Len(z)] => Whole(z, Append(o, <<Len(z), p + 1>>))
           /\ p + 1 < z[Len(z)] => Begun(z, Append(o, <<Len(z), p + 1>>), p + 1)
<1> DEFINE K == Len(z)
           n == z[K]
           x == <<K, p + 1>>
           f == PartsOf(Front(z))
           g == Numbered(K, p)
           h == Numbered(K, p + 1)
<1>1. /\ K \in Nat /\ n \in Nat /\ p < n /\ z # <<>>
      /\ f \in Seq(Part) /\ g \in Seq(Part) /\ o = f \o g
    BY BegunIs DEF Begun, Size
<1>2. PartsOf(z) = f \o Numbered(K, n)
    BY <1>1, LastAnswer
<1>3. h = Append(g, x)
    BY <1>1, NumberedNext
<1>4. x \in Part
    BY <1>1 DEF Part
<1>5. n = z[Len(z)] /\ K = Len(z) /\ x = <<Len(z), p + 1>> /\ h = Numbered(K, p + 1)
    OBVIOUS
<1>10. f = PartsOf(Front(z))
    OBVIOUS
<1> HIDE DEF K, n, x, f, g, h
<1>6. Append(o, x) = f \o h
  <2> DEFINE y == <<x>>
  <2>1. y \in Seq(Part)
      BY <1>4, OneIs
  <2>2. h = Cat(g, y)
      BY <1>1, <1>3, <1>4, AppendIsConcat DEF Cat
  <2>3. Append(o, x) = Cat(Cat(f, g), y)
      BY <1>1, <1>4, AppendIsConcat DEF Cat
  <2> HIDE DEF y
  <2>4. Cat(Cat(f, g), y) = Cat(f, Cat(g, y))
      BY <1>1, <2>1, CatAssociative
  <2>5. Append(o, x) = Cat(f, h)
      BY <2>2, <2>3, <2>4
  <2> QED BY <2>5 DEF Cat
<1>7. ASSUME p + 1 >= n PROVE Whole(z, Append(o, x))
  <2>1. p + 1 = n
      BY <1>1, <1>7
  <2> QED BY <1>2, <1>5, <1>6, <2>1 DEF Whole
<1>8. ASSUME p + 1 < n PROVE Begun(z, Append(o, x), p + 1)
  <2>1. p + 1 \in Nat
      OBVIOUS
  <2> QED BY <1>1, <1>5, <1>6, <1>8, <1>10, <2>1 DEF Begun
<1> QED BY <1>5, <1>7, <1>8

\* What is there is the beginning of all that should be there.
LEMMA PrefixIs ==
    ASSUME NEW S, NEW s \in Seq(S), NEW x \in Seq(S)
    PROVE  IsPrefix(s, s \o x)
<1> DEFINE y == s \o x
           m == 0
           n == Len(s)
<1>1. y \in Seq(S) /\ Joined(y, s, x)
    BY JoinIs
<1>2. m \in Nat /\ n \in Nat /\ m <= n /\ n <= Len(s)
    OBVIOUS
<1> HIDE DEF m, n
<1>3. SubSeq(s \o x, m + 1, n) = SubSeq(s, m + 1, n)
    BY <1>2, BeginIs
<1>4. m + 1 = 1
    BY DEF m
<1>5. SubSeq(y, 1, Len(s)) = SubSeq(s, 1, Len(s))
    BY <1>3, <1>4 DEF n
<1> HIDE DEF y
<1>6. Len(s) <= Len(y)
    BY <1>1 DEF Joined
<1> QED BY <1>5, <1>6 DEF IsPrefix, y

LEMMA BegunPrefix ==
    ASSUME NEW z \in Seq(Size), NEW o, NEW p, Begun(z, o, p)
    PROVE  IsPrefix(o, PartsOf(z))
<1> DEFINE K == Len(z)
           n == z[K]
           f == PartsOf(Front(z))
           g == Numbered(K, p)
           w == Numbered(K, n)
           x == SubSeq(w, p + 1, n)
<1>1. /\ K \in Nat /\ n \in Nat /\ p \in Nat /\ p < n /\ z # <<>>
      /\ f \in Seq(Part) /\ g \in Seq(Part) /\ o = f \o g /\ o \in Seq(Part)
    BY BegunIs DEF Begun, Size
<1>2. PartsOf(z) = f \o w
    BY <1>1, LastAnswer
<1>3. w \in Seq(Part) /\ Len(w) = n /\ \A j \in 1 .. n : w[j] = <<K, j>>
    BY <1>1, NumberedIs
<1>4. Len(g) = p /\ \A j \in 1 .. p : g[j] = <<K, j>>
    BY <1>1, NumberedIs
<1> HIDE DEF f, g, w, K, n
<1> DEFINE v == SubSeq(w, 1, p)
<1>5. p \in 0 .. Len(w) /\ Len(w) = n
    BY <1>1, <1>3
<1>6. /\ v \in Seq(Part) /\ Len(v) = p /\ x \in Seq(Part) /\ v \o x = w
      /\ \A i \in 1 .. p : v[i] = w[i]
  <2>1. /\ SubSeq(w, 1, p) \in Seq(Part) /\ Len(SubSeq(w, 1, p)) = p
        /\ SubSeq(w, p + 1, Len(w)) \in Seq(Part)
        /\ \A i \in 1 .. p : SubSeq(w, 1, p)[i] = w[i]
        /\ SubSeq(w, 1, p) \o SubSeq(w, p + 1, Len(w)) = w
      BY <1>3, <1>5, CutIs
  <2> QED BY <1>5, <2>1
<1> HIDE DEF v, x
<1>7. ASSUME NEW i \in 1 .. p PROVE v[i] = g[i]
  <2>1. i \in 1 .. n
      BY <1>1
  <2> QED BY <1>3, <1>4, <1>6, <2>1
<1>8. v = g
    BY <1>1, <1>4, <1>6, <1>7, SeqEqual
<1>9. PartsOf(z) = o \o x
  <2>1. w = Cat(g, x) /\ PartsOf(z) = Cat(f, w) /\ o = Cat(f, g)
      BY <1>1, <1>2, <1>6, <1>8 DEF Cat
  <2>2. Cat(Cat(f, g), x) = Cat(f, Cat(g, x))
      BY <1>1, <1>6, CatAssociative
  <2>3. PartsOf(z) = Cat(o, x)
      BY <2>1, <2>2
  <2> QED BY <2>3 DEF Cat
<1> QED BY <1>1, <1>6, <1>9, PrefixIs

\* A link in good order has given its socket a beginning of its answers.
LEMMA LinkPrefix ==
    ASSUME NEW z \in Seq(Size), NEW o \in Seq(Part), NEW s, NEW i, NEW a, NEW w, NEW c, NEW r,
           LinkOK(z, o, s, i, a, w, c, r)
    PROVE  IsPrefix(o, PartsOf(z))
<1>1. CASE Whole(z, o)
  <2>1. <<>> \in Seq(Part) /\ o \o <<>> = o
      BY ConcatEmptySeq
  <2>2. IsPrefix(o, o \o <<>>)
      BY <2>1, PrefixIs
  <2> QED BY <1>1, <2>1, <2>2 DEF Whole
<1>2. CASE \E p : Begun(z, o, p)
    BY <1>2, BegunPrefix
<1>3. Whole(z, o) \/ \E p : Begun(z, o, p)
    BY DEF LinkOK, Quiet, Filling, Sending, Emptying
<1> QED BY <1>1, <1>2, <1>3

-----------------------------------------------------------------------------
(* What a step does to a link in good order.                               *)

\* The Receiver and the answers are never both in two ways.
LEMMA NotBoth ==
    ASSUME NEW z \in Seq(Size), NEW o \in Seq(Part), NEW s, NEW i, NEW a, NEW w, NEW c, NEW r,
           LinkOK(z, o, s, i, a, w, c, r)
    PROVE  /\ Whole(z, o) => Quiet(z, o, s, c, r) \/ Emptying(z, o, s, c, r)
           /\ r # "idle" => Filling(z, o, s, a, c, r)
           /\ c = "part" => Sending(z, o, s, a, c, r)
           /\ c \in {"delete", "pos"} => Emptying(z, o, s, c, r)
           /\ c = "len" => Quiet(z, o, s, c, r)
<1>1. \/ Quiet(z, o, s, c, r) \/ Filling(z, o, s, a, c, r)
      \/ Sending(z, o, s, a, c, r) \/ Emptying(z, o, s, c, r)
    BY DEF LinkOK
<1>2. \A p : Begun(z, o, p) => ~Whole(z, o)
    BY BegunLess
<1>3. Filling(z, o, s, a, c, r) \/ Sending(z, o, s, a, c, r) => ~Whole(z, o)
    BY <1>2 DEF Filling, Sending
<1>4. Whole(z, o) => Quiet(z, o, s, c, r) \/ Emptying(z, o, s, c, r)
    BY <1>1, <1>3
<1>5. r # "idle" => Filling(z, o, s, a, c, r)
    BY <1>1 DEF Quiet, Sending, Emptying
<1>6. c = "part" => Sending(z, o, s, a, c, r)
    BY <1>1 DEF Quiet, Filling, Emptying
<1>7. c \in {"delete", "pos"} => Emptying(z, o, s, c, r)
    BY <1>1 DEF Quiet, Filling, Sending, Clearing
<1>8. c = "len" => Quiet(z, o, s, c, r)
    BY <1>1 DEF Filling, Sending, Emptying, Clearing
<1> QED BY <1>4, <1>5, <1>6, <1>7, <1>8

LEMMA AskLink ==
    ASSUME NEW z \in Seq(Size), NEW o \in Seq(Part), NEW s \in Stream, NEW i \in Nat,
           NEW a \in Nat, NEW w, NEW c, NEW r,
           LinkOK(z, o, s, i, a, w, c, r), Len(z) = a, Whole(z, o)
    PROVE  LinkOK(z, o, s, i + 1, a + 1, w, c, r)
<1>1. Quiet(z, o, s, c, r) \/ Emptying(z, o, s, c, r)
    BY NotBoth
<1>2. Asking(z, o, i, a, w, c)
    BY DEF LinkOK
<1>3. a # Len(z) + 1
    OBVIOUS
<1>4. i = 0 /\ ~w
    BY <1>2, <1>3 DEF Asking
<1>5. i + 1 = 1
    BY <1>4
<1>6. Asking(z, o, i + 1, a + 1, w, c)
    BY <1>4, <1>5 DEF Asking
<1> QED BY <1>1, <1>6 DEF LinkOK

\* A request that is no longer waiting.
LEMMA LessWaiting ==
    ASSUME NEW z, NEW o, NEW s, NEW i, NEW a, NEW w, NEW v, NEW c, NEW r,
           LinkOK(z, o, s, i, a, w, c, r), v => w
    PROVE  LinkOK(z, o, s, i, a, v, c, r)
BY DEF LinkOK, Asking

LEMMA AnswerLink ==
    ASSUME NEW z \in Seq(Size), NEW o \in Seq(Part), NEW s \in Stream, NEW i \in Nat,
           NEW a \in Nat, NEW c, NEW n \in Size,
           LinkOK(z, o, s, i, a, TRUE, c, "idle")
    PROVE  LinkOK(Append(z, n), o, s, i, a, FALSE, c, "len")
<1> DEFINE y == Append(z, n)
<1>1. y \in Seq(Size) /\ Len(y) = Len(z) + 1 /\ Len(z) \in Nat
    OBVIOUS
<1>2. /\ i = 0 /\ a = Len(z) + 1 /\ c \notin Clearing /\ Whole(z, o)
    BY DEF LinkOK, Asking
<1>3. Begun(y, o, 0)
    BY <1>2, BegunNew
<1> HIDE DEF y
<1>4. Quiet(z, o, s, c, "idle")
    BY <1>2, NotBoth DEF Emptying, Clearing
<1>5. Filling(y, o, s, a, c, "len")
    BY <1>1, <1>2, <1>3, <1>4 DEF Filling, Quiet
<1>6. a = Len(y) /\ a # Len(y) + 1
    BY <1>1, <1>2
<1>7. Asking(y, o, i, a, FALSE, c)
    BY <1>2, <1>6 DEF Asking
<1>8. LinkOK(y, o, s, i, a, FALSE, c, "len")
    BY <1>5, <1>7 DEF LinkOK
<1> QED BY <1>8 DEF y

LEMMA LenLink ==
    ASSUME NEW z \in Seq(Size), NEW o \in Seq(Part), NEW s \in Stream, NEW i \in Nat,
           NEW a \in Nat, NEW w, NEW c, LinkOK(z, o, s, i, a, w, c, "len")
    PROVE  LinkOK(z, o, [s EXCEPT !.len = Last(z)], i, a, w, c, "content")
<1> DEFINE t == [s EXCEPT !.len = Last(z)]
<1>1. Filling(z, o, s, a, c, "len")
    BY NotBoth
<1>2. t.content = s.content /\ t.pos = s.pos /\ t.len = z[Len(z)]
    BY DEF Stream, Last
<1> HIDE DEF t
<1>3. Filling(z, o, t, a, c, "content")
    BY <1>1, <1>2 DEF Filling
<1>4. LinkOK(z, o, t, i, a, w, c, "content")
    BY <1>3 DEF LinkOK
<1> QED BY <1>4 DEF t

LEMMA ContentLink ==
    ASSUME NEW z \in Seq(Size), NEW o \in Seq(Part), NEW s \in Stream, NEW i \in Nat,
           NEW a \in Nat, NEW w, NEW c, LinkOK(z, o, s, i, a, w, c, "content")
    PROVE  LinkOK(z, o, [s EXCEPT !.content = Len(z)], i, a, w, c, "idle")
<1> DEFINE t == [s EXCEPT !.content = Len(z)]
<1>1. Filling(z, o, s, a, c, "content")
    BY NotBoth
<1>2. t.content = Len(z) /\ t.pos = s.pos /\ t.len = s.len
    BY DEF Stream
<1> HIDE DEF t
<1>3. Sending(z, o, t, a, c, "idle")
    BY <1>1, <1>2 DEF Filling, Sending
<1>4. LinkOK(z, o, t, i, a, w, c, "idle")
    BY <1>3 DEF LinkOK
<1> QED BY <1>4 DEF t

\* The HTTP thread comes to the link or leaves it.
LEMMA MoveLink ==
    ASSUME NEW z, NEW o, NEW s, NEW i, NEW a, NEW w, NEW c, NEW d, NEW r,
           LinkOK(z, o, s, i, a, w, c, r),
           c \in {"away", "recv"}, d \in {"away", "send", "recv"}
    PROVE  LinkOK(z, o, s, i, a, w, d, r)
<1>1. d \notin Clearing /\ d # "part" /\ c \notin {"delete", "pos"}
    BY DEF Clearing
<1>2. Asking(z, o, i, a, w, d)
    BY <1>1 DEF LinkOK, Asking
<1>3. ~Emptying(z, o, s, c, r)
    BY <1>1 DEF Emptying
<1>4. Quiet(z, o, s, c, r) => Quiet(z, o, s, d, r)
    BY <1>1 DEF Quiet, Clearing
<1>5. Filling(z, o, s, a, c, r) => Filling(z, o, s, a, d, r)
    BY <1>1 DEF Filling
<1>6. Sending(z, o, s, a, c, r) => Sending(z, o, s, a, d, r)
    BY <1>1 DEF Sending
<1> QED BY <1>2, <1>3, <1>4, <1>5, <1>6 DEF LinkOK

LEMMA SendLink ==
    ASSUME NEW z \in Seq(Size), NEW o \in Seq(Part), NEW s \in Stream, NEW i \in Nat,
           NEW a \in Nat, NEW w, NEW r, LinkOK(z, o, s, i, a, w, "send", r)
    PROVE  LinkOK(z, o, s, i, a, w, IF s.content = NULL THEN "recv"
                                    ELSE IF s.pos >= s.len THEN "delete" ELSE "part", r)
<1>1. Asking(z, o, i, a, w, "recv") /\ Asking(z, o, i, a, w, "part")
  <2>1. "recv" \notin Clearing /\ "part" \notin Clearing
      BY DEF Clearing
  <2> QED BY <2>1 DEF LinkOK, Asking
<1>2. CASE Quiet(z, o, s, "send", r)
  <2>1. Quiet(z, o, s, "recv", r) /\ s.content = NULL
      BY <1>2 DEF Quiet
  <2> QED BY <1>1, <2>1 DEF LinkOK
<1>3. CASE Filling(z, o, s, a, "send", r)
  <2>1. Filling(z, o, s, a, "recv", r) /\ s.content = NULL
      BY <1>3 DEF Filling, Clearing
  <2> QED BY <1>1, <2>1 DEF LinkOK
<1>4. CASE Sending(z, o, s, a, "send", r)
  <2>1. Sending(z, o, s, a, "part", r)
      BY <1>4 DEF Sending, Clearing
  <2>2. s.content = Len(z) /\ s.len = z[Len(z)] /\ Begun(z, o, s.pos)
      BY <1>4 DEF Sending
  <2>3. Len(z) \in Size /\ z[Len(z)] \in Size /\ s.pos \in Nat
      BY <2>2, BegunIs
  <2>4. s.pos < s.len /\ s.len \in Nat
      BY <2>2, <2>3 DEF Begun, Size
  <2>5. ~(s.pos >= s.len)
      BY <2>3, <2>4
  <2>6. s.content # NULL
      BY <2>2, <2>3 DEF Size, NULL
  <2> QED BY <1>1, <2>1, <2>5, <2>6 DEF LinkOK
<1>5. ~Emptying(z, o, s, "send", r)
    BY DEF Emptying
<1> QED BY <1>2, <1>3, <1>4, <1>5 DEF LinkOK

LEMMA PartLink ==
    ASSUME NEW z \in Seq(Size), NEW o \in Seq(Part), NEW s \in Stream, NEW i \in Nat,
           NEW a \in Nat, NEW w, NEW r, LinkOK(z, o, s, i, a, w, "part", r)
    PROVE  LinkOK(z, Append(o, <<s.content, s.pos + 1>>), [s EXCEPT !.pos = @ + 1], i, a, w,
                  IF s.pos + 1 >= s.len THEN "delete" ELSE "recv", r)
<1> DEFINE q == Append(o, <<s.content, s.pos + 1>>)
           t == [s EXCEPT !.pos = @ + 1]
           d == IF s.pos + 1 >= s.len THEN "delete" ELSE "recv"
<1>1. Sending(z, o, s, a, "part", r)
    BY NotBoth
<1>2. /\ r = "idle" /\ a = Len(z) /\ Begun(z, o, s.pos)
      /\ s.content = Len(z) /\ s.len = z[Len(z)]
    BY <1>1 DEF Sending
<1>3. s.pos \in Nat /\ s.len \in Nat /\ Len(z) \in Nat
    BY DEF Stream
<1>4. t.content = s.content /\ t.pos = s.pos + 1 /\ t.len = s.len
    BY DEF Stream
<1>5. /\ s.pos + 1 >= s.len => Whole(z, q)
      /\ s.pos + 1 < s.len => Begun(z, q, s.pos + 1)
    BY <1>2, <1>3, BegunNext
<1> HIDE DEF q, t
<1>6. a # Len(z) + 1
    BY <1>2, <1>3
<1>7. Asking(z, q, i, a, w, d)
    BY <1>6 DEF LinkOK, Asking
<1>8. CASE s.pos + 1 >= s.len
  <2>1. d = "delete"
      BY <1>8
  <2> HIDE DEF d
  <2>2. Emptying(z, q, t, d, r)
      BY <1>2, <1>5, <1>8, <2>1 DEF Emptying
  <2>3. LinkOK(z, q, t, i, a, w, d, r)
      BY <1>7, <2>2 DEF LinkOK
  <2> QED BY <2>3 DEF q, t, d
<1>9. CASE ~(s.pos + 1 >= s.len)
  <2>1. d = "recv"
      BY <1>9
  <2>2. s.pos + 1 < s.len
      BY <1>3, <1>9
  <2> HIDE DEF d
  <2>3. Sending(z, q, t, a, d, r)
      BY <1>2, <1>4, <1>5, <2>1, <2>2 DEF Sending, Clearing
  <2>4. LinkOK(z, q, t, i, a, w, d, r)
      BY <1>7, <2>3 DEF LinkOK
  <2> QED BY <2>4 DEF q, t, d
<1> QED BY <1>8, <1>9

\* clear(), assignment by assignment.
LEMMA ClearLink ==
    ASSUME NEW z \in Seq(Size), NEW o \in Seq(Part), NEW s \in Stream, NEW i \in Nat,
           NEW a \in Nat, NEW w, NEW r
    PROVE  /\ LinkOK(z, o, s, i, a, w, "delete", r)
                  => LinkOK(z, o, [s EXCEPT !.content = NULL], i, a, w, "pos", r)
           /\ LinkOK(z, o, s, i, a, w, "pos", r)
                  => LinkOK(z, o, [s EXCEPT !.pos = 0], i, a, w, "len", r)
           /\ LinkOK(z, o, s, i, a, w, "len", r)
                  => LinkOK(z, o, [s EXCEPT !.len = 0], i, a, w, "recv", r)
<1>1. ASSUME LinkOK(z, o, s, i, a, w, "delete", r)
      PROVE  LinkOK(z, o, [s EXCEPT !.content = NULL], i, a, w, "pos", r)
  <2> DEFINE t == [s EXCEPT !.content = NULL]
  <2>1. Emptying(z, o, s, "delete", r)
      BY <1>1, NotBoth
  <2>2. t.content = NULL
      BY DEF Stream
  <2> HIDE DEF t
  <2>3. Emptying(z, o, t, "pos", r)
      BY <2>1, <2>2 DEF Emptying
  <2>4. Asking(z, o, i, a, w, "pos")
      BY <1>1 DEF LinkOK, Asking, Clearing
  <2>5. LinkOK(z, o, t, i, a, w, "pos", r)
      BY <2>3, <2>4 DEF LinkOK
  <2> QED BY <2>5 DEF t
<1>2. ASSUME LinkOK(z, o, s, i, a, w, "pos", r)
      PROVE  LinkOK(z, o, [s EXCEPT !.pos = 0], i, a, w, "len", r)
  <2> DEFINE t == [s EXCEPT !.pos = 0]
  <2>1. Emptying(z, o, s, "pos", r)
      BY <1>2, NotBoth
  <2>2. t.content = s.content /\ t.pos = 0
      BY DEF Stream
  <2> HIDE DEF t
  <2>3. Quiet(z, o, t, "len", r)
      BY <2>1, <2>2 DEF Emptying, Quiet
  <2>4. Asking(z, o, i, a, w, "len")
      BY <1>2 DEF LinkOK, Asking, Clearing
  <2>5. LinkOK(z, o, t, i, a, w, "len", r)
      BY <2>3, <2>4 DEF LinkOK
  <2> QED BY <2>5 DEF t
<1>3. ASSUME LinkOK(z, o, s, i, a, w, "len", r)
      PROVE  LinkOK(z, o, [s EXCEPT !.len = 0], i, a, w, "recv", r)
  <2> DEFINE t == [s EXCEPT !.len = 0]
  <2>1. Quiet(z, o, s, "len", r)
      BY <1>3, NotBoth
  <2>2. t.content = s.content /\ t.pos = s.pos
      BY DEF Stream
  <2> HIDE DEF t
  <2>3. Quiet(z, o, t, "recv", r)
      BY <2>1, <2>2 DEF Quiet
  <2>4. Asking(z, o, i, a, w, "recv")
      BY <1>3 DEF LinkOK, Asking, Clearing
  <2>5. LinkOK(z, o, t, i, a, w, "recv", r)
      BY <2>3, <2>4 DEF LinkOK
  <2> QED BY <2>5 DEF t
<1> QED BY <1>1, <1>2, <1>3

\* The request is read and waits to be answered.
LEMMA ReadLink ==
    ASSUME NEW z \in Seq(Size), NEW o \in Seq(Part), NEW s \in Stream, NEW i \in Nat,
           NEW a \in Nat, NEW w, NEW r, NEW n \in 1 .. i,
           LinkOK(z, o, s, i, a, w, "recv", r)
    PROVE  ~w /\ LinkOK(z, o, s, i - n, a, TRUE, "recv", r)
<1>1. Asking(z, o, i, a, w, "recv") /\ i # 0
    BY DEF LinkOK
<1>2. i = 1 /\ a = Len(z) + 1
    BY <1>1 DEF Asking
<1>3. n = 1 /\ i - n = 0
    BY <1>2
<1>4. ~w
    BY <1>1 DEF Asking
<1>5. Asking(z, o, i - n, a, TRUE, "recv")
    BY <1>1, <1>2, <1>3 DEF Asking, Clearing
<1> QED BY <1>4, <1>5 DEF LinkOK

-----------------------------------------------------------------------------
(* The shape of the state.                                                 *)

LEMMA InLinks == ASSUME NEW s \in Seq(Link) PROVE ToSet(s) \in SUBSET Link
<1>1. \A i \in DOMAIN s : s[i] \in Link
    BY ElementOfSeq
<1> QED BY <1>1 DEF ToSet

LEMMA HeadIs ==
    ASSUME NEW S, NEW s \in Seq(S), s # <<>>
    PROVE  Head(s) \in S /\ Tail(s) \in Seq(S)
OBVIOUS

LEMMA GoToIs ==
    ASSUME NEW todo \in Seq(Link), NEW read \in SUBSET Link, NEW write \in SUBSET Link
    PROVE  /\ ThreadShape(GoTo(todo, read, write))
           /\ \A l : Place(GoTo(todo, read, write), l) \in {"away", "send", "recv"}
<1>1. CASE todo = <<>>
  <2> DEFINE th == [at |-> "prepare", accept |-> FALSE, read |-> {}, write |-> {},
                    todo |-> <<>>]
  <2>1. GoTo(todo, read, write) = th
      BY <1>1 DEF GoTo
  <2>2. th.at = "prepare"
      OBVIOUS
  <2>3. th \in Threads
      BY <1>1 DEF Threads
  <2> HIDE DEF th
  <2>4. th.at \notin Handling
      BY <2>2 DEF Handling, Clearing
  <2>5. ThreadShape(th)
      BY <2>3, <2>4 DEF ThreadShape
  <2>6. \A l : Place(th, l) = "away"
      BY <2>4 DEF Place
  <2> QED BY <2>1, <2>5, <2>6
<1>2. CASE todo # <<>>
  <2> DEFINE at == IF Head(todo) \in write THEN "send" ELSE "recv"
             th == [at |-> at, accept |-> FALSE, read |-> read, write |-> write, todo |-> todo]
  <2>1. GoTo(todo, read, write) = th
      BY <1>2 DEF GoTo
  <2>2. at \in {"send", "recv"} /\ at \in Handling
      BY DEF Handling
  <2> HIDE DEF at
  <2>3. th \in Threads
      BY <2>2 DEF Threads
  <2>4. th.at = at /\ th.todo = todo
      OBVIOUS
  <2> HIDE DEF th
  <2>5. ThreadShape(th)
      BY <1>2, <2>3, <2>4 DEF ThreadShape
  <2>6. \A l : Place(th, l) \in {"away", at}
      BY <2>4 DEF Place
  <2> QED BY <2>1, <2>2, <2>5, <2>6
<1> QED BY <1>1, <1>2

\* The thread goes on with the link in hand.
LEMMA StaysIs ==
    ASSUME NEW th, ThreadShape(th), th.at \in Handling, NEW at \in Handling
    PROVE  /\ ThreadShape([th EXCEPT !.at = at])
           /\ Head(th.todo) \in Link
           /\ \A l : /\ l # Head(th.todo) => /\ Place(th, l) = "away"
                                             /\ Place([th EXCEPT !.at = at], l) = "away"
                     /\ l = Head(th.todo) => /\ Place(th, l) = th.at
                                             /\ Place([th EXCEPT !.at = at], l) = at
<1> DEFINE u == [th EXCEPT !.at = at]
<1>1. th \in Threads /\ th.todo # <<>>
    BY DEF ThreadShape
<1>2. u \in Threads /\ u.at = at /\ u.todo = th.todo
    BY <1>1 DEF Threads
<1>3. th.todo \in Seq(Link)
    BY <1>1 DEF Threads
<1> HIDE DEF u
<1>4. ThreadShape(u)
    BY <1>1, <1>2 DEF ThreadShape
<1>5. Head(th.todo) \in Link
    BY <1>1, <1>3, HeadIs
<1>6. \A l : /\ l # Head(th.todo) => Place(th, l) = "away" /\ Place(u, l) = "away"
             /\ l = Head(th.todo) => Place(th, l) = th.at /\ Place(u, l) = at
    BY <1>2 DEF Place
<1> QED BY <1>4, <1>5, <1>6 DEF u

LEMMA StaysLink ==
    ASSUME Shape, thread.at \in Handling, NEW at \in Handling,
           thread' = [thread EXCEPT !.at = at], NEW l
    PROVE  /\ l # Current => Place(thread, l) = "away" /\ Place(thread', l) = "away"
           /\ l = Current => Place(thread, l) = thread.at /\ Place(thread', l) = at
<1> DEFINE th == thread
           u == [th EXCEPT !.at = at]
<1>1. ThreadShape(th) /\ th.at \in Handling /\ thread' = u /\ Current = Head(th.todo)
    BY DEF Shape, Current
<1> HIDE DEF th
<1>2. /\ l # Head(th.todo) => Place(th, l) = "away" /\ Place(u, l) = "away"
      /\ l = Head(th.todo) => Place(th, l) = th.at /\ Place(u, l) = at
    BY <1>1, StaysIs
<1> HIDE DEF u
<1> QED BY <1>1, <1>2 DEF th

LEMMA CurrentIs ==
    ASSUME Shape, thread.at \in Handling
    PROVE  /\ Current \in Link /\ thread.todo \in Seq(Link) /\ thread.todo # <<>>
           /\ Tail(thread.todo) \in Seq(Link)
           /\ thread.read \in SUBSET Link /\ thread.write \in SUBSET Link
<1>1. thread \in Threads /\ thread.todo # <<>>
    BY DEF Shape, ThreadShape
<1>2. /\ thread.todo \in Seq(Link)
      /\ thread.read \in SUBSET Link /\ thread.write \in SUBSET Link
    BY <1>1 DEF Threads
<1> QED BY <1>1, <1>2, HeadIs DEF Current

LEMMA RemoveType ==
    ASSUME NEW s \in Seq(Link), NEW i \in DOMAIN s
    PROVE  RemoveAt(s, i) \in Seq(Link)
<1>1. i \in Nat /\ i - 1 \in 0 .. Len(s) /\ i \in 0 .. Len(s)
    OBVIOUS
<1> DEFINE p == i - 1
           a == SubSeq(s, 1, p)
           b == SubSeq(s, i + 1, Len(s))
<1>2. a \in Seq(Link)
  <2>1. p \in 0 .. Len(s)
      BY <1>1
  <2> HIDE DEF p
  <2> QED BY <2>1, CutIs
<1>3. b \in Seq(Link)
    BY <1>1, CutIs
<1> HIDE DEF a, b
<1>4. a \o b \in Seq(Link)
    BY <1>2, <1>3, JoinIs
<1> QED BY <1>4 DEF RemoveAt, a, b, p

LEMMA ShapeBegins == ASSUME PartsAssumption, LinkAssumption, Init PROVE Shape
<1>1. NoStream \in Stream
    BY DEF NoStream, Stream, NULL
<1>2. stream \in [Link -> Stream]
    BY <1>1 DEF Init
<1>3. ThreadShape(thread)
    BY DEF Init, ThreadShape, Threads, Handling, Clearing
<1>4. ReceiverShape(receiver, sizes)
    BY DEF Init, ReceiverShape, Receivers
<1>5. client \in [Link -> {"new", "waiting", "open", "gone"}]
    BY DEF Init
<1>6. inbox \in [Link -> Nat] /\ asked \in [Link -> Nat]
    BY DEF Init
<1>7. links \in Seq(Link) /\ posted \in Seq(Link)
    BY DEF Init
<1>8. /\ kept \in [Link -> Seq(Part)] /\ out \in [Link -> Seq(Part)]
      /\ handed \in [Link -> Seq(Part)] /\ sizes \in [Link -> Seq(Size)]
    BY DEF Init
<1> QED BY <1>2, <1>3, <1>4, <1>5, <1>6, <1>7, <1>8 DEF Shape

LEMMA ShapeClient ==
    ASSUME Shape, NEW l \in Link, Connect(l) \/ Ask(l) \/ HangUp(l)
    PROVE  Shape'
<1>1. CASE Connect(l)
    BY <1>1 DEF Shape, Connect, histories
<1>2. CASE Ask(l)
    BY <1>2 DEF Shape, Ask
<1>3. CASE HangUp(l)
    BY <1>3 DEF Shape, HangUp, histories
<1> QED BY <1>1, <1>2, <1>3

LEMMA ShapeAnswer == ASSUME PartsAssumption, LinkAssumption, Shape, Answer PROVE Shape'
<1> DEFINE l == Head(posted)
<1>1. l \in Link /\ posted' \in Seq(Link)
  <2>1. posted \in Seq(Link) /\ posted # <<>> /\ posted' = Tail(posted)
      BY DEF Shape, Answer
  <2> QED BY <2>1, HeadIs
<1>2. /\ receiver.at = "idle"
      /\ \/ /\ receiver' = [at |-> "len", link |-> l]
            /\ \E n \in 1 .. MaxParts[l] : sizes' = [sizes EXCEPT ![l] = Append(@, n)]
         \/ UNCHANGED <<receiver, sizes>>
    BY DEF Answer
<1> HIDE DEF l
<1>3. sizes' \in [Link -> Seq(Size)] /\ ReceiverShape(receiver', sizes')
  <2>1. CASE UNCHANGED <<receiver, sizes>>
      BY <2>1 DEF Shape
  <2>2. CASE /\ receiver' = [at |-> "len", link |-> l]
             /\ \E n \in 1 .. MaxParts[l] : sizes' = [sizes EXCEPT ![l] = Append(@, n)]
    <3>1. PICK n \in 1 .. MaxParts[l] : sizes' = [sizes EXCEPT ![l] = Append(@, n)]
        BY <2>2
    <3>2. n \in Size
      <4>1. MaxParts[l] \in Nat
          BY <1>1 DEF PartsAssumption
      <4> QED BY <4>1 DEF Size
    <3>3. sizes \in [Link -> Seq(Size)] /\ sizes[l] \in Seq(Size)
        BY <1>1 DEF Shape
    <3>4. Append(sizes[l], n) \in Seq(Size) /\ Append(sizes[l], n) # <<>>
      <4> DEFINE z == sizes[l]
      <4>1. z \in Seq(Size)
          BY <3>3
      <4> HIDE DEF z
      <4>2. Append(z, n) \in Seq(Size) /\ Append(z, n) # <<>>
          BY <3>2, <4>1, AppendProperties
      <4> QED BY <4>2 DEF z
    <3>5. sizes' \in [Link -> Seq(Size)] /\ sizes'[l] # <<>>
        BY <1>1, <3>1, <3>3, <3>4
    <3>6. receiver'.at = "len" /\ receiver'.link = l /\ receiver' \in Receivers /\ l # NoLink
        BY <1>1, <2>2 DEF Receivers, LinkAssumption
    <3> QED BY <3>5, <3>6 DEF ReceiverShape
  <2> QED BY <1>2, <2>1, <2>2
<1>4. UNCHANGED <<client, inbox, links, stream, kept, out, handed, asked, thread>>
    BY DEF Answer
<1> QED BY <1>1, <1>3, <1>4 DEF Shape

LEMMA TurnIs ==
    ASSUME Shape, receiver.at # "idle"
    PROVE  /\ receiver.link \in Link /\ receiver \in Receivers /\ receiver.link # NoLink
           /\ sizes[receiver.link] \in Seq(Size) /\ sizes[receiver.link] # <<>>
           /\ stream[receiver.link] \in Stream
<1>1. /\ receiver \in Receivers /\ receiver.link # NoLink
      /\ sizes[receiver.link] # <<>>
    BY DEF Shape, ReceiverShape
<1>2. receiver.link \in Link
    BY <1>1 DEF Receivers
<1> QED BY <1>1, <1>2 DEF Shape

LEMMA ShapeSetLen == ASSUME Shape, SetLen PROVE Shape'
<1> DEFINE l == receiver.link
           n == Last(sizes[l])
           s == [stream[l] EXCEPT !.len = n]
<1>1. receiver.at = "len"
    BY DEF SetLen
<1>2. /\ l \in Link /\ receiver \in Receivers /\ l # NoLink
      /\ sizes[l] \in Seq(Size) /\ sizes[l] # <<>> /\ stream[l] \in Stream
    BY <1>1, TurnIs
<1>3. n \in Nat
    BY <1>2, FrontIs DEF Last, Size
<1>4. stream' = [stream EXCEPT ![l] = s]
    BY DEF SetLen
<1>8. l = receiver.link
    OBVIOUS
<1> HIDE DEF n, l
<1>5. s \in Stream
    BY <1>2, <1>3 DEF Stream
<1> HIDE DEF s
<1>6. stream' \in [Link -> Stream]
    BY <1>2, <1>4, <1>5 DEF Shape
<1>7. receiver' \in Receivers /\ receiver'.at = "content" /\ receiver'.link = l
    BY <1>2, <1>8 DEF SetLen, Receivers
<1>9. UNCHANGED <<client, inbox, links, kept, out, posted, handed, asked, sizes, thread>>
    BY DEF SetLen, histories
<1>10. ReceiverShape(receiver', sizes')
    BY <1>2, <1>7, <1>9 DEF ReceiverShape
<1> QED BY <1>6, <1>9, <1>10 DEF Shape

LEMMA ShapeSetContent == ASSUME Shape, SetContent PROVE Shape'
<1> DEFINE l == receiver.link
           n == Len(sizes[l])
           s == [stream[l] EXCEPT !.content = n]
<1>1. receiver.at = "content"
    BY DEF SetContent
<1>2. l \in Link /\ sizes[l] \in Seq(Size) /\ stream[l] \in Stream
    BY <1>1, TurnIs
<1>3. n \in Nat
    BY <1>2
<1>4. stream' = [stream EXCEPT ![l] = s]
    BY DEF SetContent
<1> HIDE DEF n, l
<1>5. s \in Stream
    BY <1>2, <1>3 DEF Stream
<1> HIDE DEF s
<1>6. stream' \in [Link -> Stream]
    BY <1>2, <1>4, <1>5 DEF Shape
<1>7. ReceiverShape(receiver', sizes')
    BY DEF SetContent, ReceiverShape, Receivers
<1>8. UNCHANGED <<client, inbox, links, kept, out, posted, handed, asked, sizes, thread>>
    BY DEF SetContent, histories
<1> QED BY <1>6, <1>7, <1>8 DEF Shape

LEMMA ShapePrepare == ASSUME Shape, prepareFdSet PROVE Shape'
<1> DEFINE w == {l \in ToSet(links) : needSend(l)}
           th == [thread EXCEPT !.at = "select", !.write = w]
<1>1. w \in SUBSET Link
  <2>1. ToSet(links) \in SUBSET Link
      BY InLinks DEF Shape
  <2> QED BY <2>1
<1>2. thread' = th
    BY DEF prepareFdSet
<1> HIDE DEF w
<1>3. thread \in Threads
    BY DEF Shape, ThreadShape
<1>4. th \in Threads /\ th.at = "select"
    BY <1>1, <1>3 DEF Threads
<1> HIDE DEF th
<1>5. ThreadShape(th)
    BY <1>4 DEF ThreadShape, Handling, Clearing
<1> QED BY <1>2, <1>5 DEF Shape, prepareFdSet, histories

LEMMA SelectIs ==
    ASSUME Shape, Select
    PROVE  ThreadShape(thread') /\ thread'.at = "accept"
<1>1. PICK ready \in SUBSET thread.write :
          thread' = [at     |-> "accept",
                     accept |-> \E l \in Link : client[l] = "waiting",
                     read   |-> {l \in ToSet(links) : inbox[l] > 0 \/ client[l] = "gone"},
                     write  |-> ready,
                     todo   |-> <<>>]
    BY DEF Select
<1> DEFINE ac == \E l \in Link : client[l] = "waiting"
           re == {l \in ToSet(links) : inbox[l] > 0 \/ client[l] = "gone"}
<1>2. ac \in BOOLEAN
    OBVIOUS
<1>3. re \in SUBSET Link
  <2>1. ToSet(links) \in SUBSET Link
      BY InLinks DEF Shape
  <2> QED BY <2>1
<1>4. ready \in SUBSET Link
  <2>1. thread.write \in SUBSET Link
      BY DEF Shape, ThreadShape, Threads
  <2> QED BY <2>1
<1>5. thread' = [at |-> "accept", accept |-> ac, read |-> re, write |-> ready, todo |-> <<>>]
    BY <1>1
<1> HIDE DEF ac, re
<1>6. <<>> \in Seq(Link)
    OBVIOUS
<1>7. thread' \in Threads /\ thread'.at = "accept"
    BY <1>2, <1>3, <1>4, <1>5, <1>6 DEF Threads
<1> QED BY <1>7 DEF ThreadShape, Handling, Clearing

LEMMA ShapeSelect == ASSUME Shape, Select PROVE Shape'
<1>1. ThreadShape(thread')
    BY SelectIs
<1> QED BY <1>1 DEF Shape, Select, histories

LEMMA ShapeAccept == ASSUME Shape, Accept PROVE Shape'
<1>1. links' \in Seq(Link) /\ client' \in [Link -> {"new", "waiting", "open", "gone"}]
  <2>1. CASE UNCHANGED <<client, links>>
      BY <2>1 DEF Shape
  <2>2. CASE \E l \in Link : client' = [client EXCEPT ![l] = "open"] /\ links' = Append(links, l)
      BY <2>2 DEF Shape
  <2> QED BY <2>1, <2>2 DEF Accept
<1>2. thread.read \in SUBSET Link /\ thread.write \in SUBSET Link
    BY DEF Shape, ThreadShape, Threads
<1>3. thread' = GoTo(links', thread.read, thread.write)
    BY DEF Accept
<1> DEFINE q == links'
<1>4. q \in Seq(Link) /\ thread' = GoTo(q, thread.read, thread.write)
    BY <1>1, <1>3
<1> HIDE DEF q
<1>5. ThreadShape(thread')
    BY <1>2, <1>4, GoToIs
<1> QED BY <1>1, <1>5 DEF Shape, Accept, histories

\* Where the thread goes on with the link in hand.
LEMMA AtHandling ==
    /\ {"send", "part", "recv", "delete", "pos", "len"} \subseteq Handling
    /\ "prepare" \notin Handling /\ "select" \notin Handling /\ "accept" \notin Handling
BY DEF Handling, Clearing

LEMMA ShapeSend == ASSUME Shape, processSend PROVE Shape'
<1> DEFINE s == stream[Current]
           x == IF s.content = NULL THEN "recv" ELSE IF s.pos >= s.len THEN "delete" ELSE "part"
<1>1. thread.at \in Handling /\ x \in Handling
    BY AtHandling DEF processSend
<1>2. thread' = [thread EXCEPT !.at = x]
    BY DEF processSend
<1> HIDE DEF x
<1>3. ThreadShape(thread')
    BY <1>1, <1>2, StaysIs DEF Shape
<1> QED BY <1>3 DEF Shape, processSend, histories

LEMMA ClearThread ==
    ASSUME Shape, clear
    PROVE  /\ thread.at \in Handling /\ ThreadShape(thread') /\ stream' \in [Link -> Stream]
<1>1. thread.at \in Clearing /\ thread.at \in Handling
    BY DEF clear, Clearing, Handling
<1>2. PICK x \in Handling : thread' = [thread EXCEPT !.at = x]
    BY AtHandling DEF clear
<1>3. ThreadShape(thread')
    BY <1>1, <1>2, StaysIs DEF Shape
<1>4. Current \in Link
    BY <1>1, CurrentIs
<1> DEFINE c == Current
<1>5. \/ stream' = [stream EXCEPT ![c].content = 0]
      \/ stream' = [stream EXCEPT ![c].pos = 0]
      \/ stream' = [stream EXCEPT ![c].len = 0]
    BY DEF clear, NULL
<1>6. c \in Link /\ stream \in [Link -> Stream]
    BY <1>4 DEF Shape
<1> HIDE DEF c
<1>7. stream' \in [Link -> Stream]
    BY <1>5, <1>6 DEF Stream
<1> QED BY <1>1, <1>3, <1>7

LEMMA ShapeClear == ASSUME Shape, clear PROVE Shape'
<1>1. ThreadShape(thread') /\ stream' \in [Link -> Stream]
    BY ClearThread
<1>2. UNCHANGED <<client, inbox, links, kept, out, posted, handed, asked, sizes, receiver>>
    BY DEF clear, histories
<1> QED BY <1>1, <1>2 DEF Shape

\* What sendCode gives the client and keeps: what there was, and the part,
\* unless that is not accepted or bytes go out again.
LEMMA sendCodeIs ==
    ASSUME Shape, NEW l \in Link, NEW part \in Part, sendCode(l, part)
    PROVE  /\ kept' \in [Link -> Seq(Part)] /\ out' \in [Link -> Seq(Part)]
           /\ \A m \in Link \ {l} : out'[m] = out[m] /\ kept'[m] = kept[m]
           /\ lost' \in {lost, lost \union {l}}
           /\ repeated' \in {repeated, repeated \union {l}}
           /\ \/ l \in lost' \union repeated'
              \/ out'[l] \o kept'[l] = Append(out[l] \o kept[l], part)
<1> DEFINE k == kept[l]
           o == out[l]
<1>1. k \in Seq(Part) /\ o \in Seq(Part) /\ kept \in [Link -> Seq(Part)] /\ out \in [Link -> Seq(Part)]
    BY DEF Shape
<1>2. PICK n \in 0 .. Len(k), again \in BOOLEAN :
        LET flushed == o \o SubSeq(k, 1, n)
            left == IF again THEN k ELSE SubSeq(k, n + 1, Len(k))
        IN  /\ repeated' = IF again THEN repeated \union {l} ELSE repeated
            /\ \/ /\ left = <<>>
                  /\ out' = [out EXCEPT ![l] = Append(flushed, part)]
                  /\ kept' = [kept EXCEPT ![l] = left]
                  /\ UNCHANGED lost
               \/ /\ out' = [out EXCEPT ![l] = flushed]
                  /\ kept' = [kept EXCEPT ![l] = Append(left, part)]
                  /\ UNCHANGED lost
               \/ /\ out' = [out EXCEPT ![l] = flushed]
                  /\ kept' = [kept EXCEPT ![l] = left]
                  /\ lost' = lost \union {l}
    BY DEF sendCode
<1> DEFINE rest == SubSeq(k, n + 1, Len(k))
           left == IF again THEN k ELSE rest
           first == SubSeq(k, 1, n)
           flushed == o \o first
           one == <<part>>
<1>3. \/ /\ left = <<>>
         /\ out' = [out EXCEPT ![l] = Append(flushed, part)]
         /\ kept' = [kept EXCEPT ![l] = left]
         /\ lost' = lost
      \/ /\ out' = [out EXCEPT ![l] = flushed]
         /\ kept' = [kept EXCEPT ![l] = Append(left, part)]
         /\ lost' = lost
      \/ /\ out' = [out EXCEPT ![l] = flushed]
         /\ kept' = [kept EXCEPT ![l] = left]
         /\ lost' = lost \union {l}
    BY <1>2
<1>13. repeated' = IF again THEN repeated \union {l} ELSE repeated
    BY <1>2
<1>6. o = out[l] /\ k = kept[l]
    OBVIOUS
<1> HIDE DEF k, o
<1>14. rest \in Seq(Part) /\ first \in Seq(Part) /\ first \o rest = k
    BY <1>1, CutIs
<1> HIDE DEF rest, first
<1>4. left \in Seq(Part) /\ (~again => first \o left = k)
    BY <1>1, <1>14
<1>11. flushed = o \o first
    OBVIOUS
<1> HIDE DEF left
<1>5. flushed \in Seq(Part)
    BY <1>1, <1>14, JoinIs
<1> HIDE DEF flushed
<1>7. Append(flushed, part) \in Seq(Part) /\ Append(left, part) \in Seq(Part) /\ one \in Seq(Part)
    BY <1>4, <1>5
<1>12. /\ Append(flushed, part) = Cat(flushed, one)
       /\ Append(left, part) = Cat(left, one)
       /\ Append(o \o k, part) = Cat(Cat(o, k), one)
  <2>1. o \o k \in Seq(Part)
      BY <1>1, JoinIs
  <2> QED BY <1>4, <1>5, <2>1, AppendIsConcat DEF Cat
<1> HIDE DEF one
<1>8. kept' \in [Link -> Seq(Part)] /\ out' \in [Link -> Seq(Part)]
    BY <1>1, <1>3, <1>4, <1>5, <1>7
<1>9. \A m \in Link \ {l} : out'[m] = out[m] /\ kept'[m] = kept[m]
    BY <1>1, <1>3
<1>10. CASE ~again /\ lost' = lost
  <2>1. k = Cat(first, left) /\ flushed = Cat(o, first)
      BY <1>4, <1>10, <1>11 DEF Cat
  <2>2. \A a, b, c \in Seq(Part) : Cat(Cat(a, b), c) = Cat(a, Cat(b, c))
      BY CatAssociative
  <2>3. CASE /\ left = <<>>
             /\ out' = [out EXCEPT ![l] = Append(flushed, part)]
             /\ kept' = [kept EXCEPT ![l] = left]
    <3>1. out'[l] = Append(flushed, part) /\ kept'[l] = <<>>
        BY <1>1, <2>3
    <3>2. out'[l] \o kept'[l] = Append(flushed, part)
        BY <1>7, <3>1, ConcatEmptySeq
    <3>3. first \o <<>> = first
        BY <1>14, ConcatEmptySeq
    <3>4. first = k
        BY <1>4, <1>10, <2>3, <3>3
    <3>5. out'[l] \o kept'[l] = Append(o \o k, part)
        BY <1>12, <2>1, <3>2, <3>4
    <3> QED BY <1>6, <1>8, <1>9, <1>10, <1>13, <3>5
  <2>4. CASE /\ out' = [out EXCEPT ![l] = flushed]
             /\ kept' = [kept EXCEPT ![l] = Append(left, part)]
    <3>1. out'[l] = flushed /\ kept'[l] = Cat(left, one)
        BY <1>1, <1>12, <2>4
    <3>2. out'[l] \o kept'[l] = Cat(flushed, Cat(left, one))
        BY <3>1 DEF Cat
    <3>3. Cat(Cat(flushed, left), one) = Cat(flushed, Cat(left, one))
        BY <1>4, <1>5, <1>7, <2>2
    <3>4. Cat(Cat(o, first), left) = Cat(o, Cat(first, left))
        BY <1>1, <1>4, <1>14, <2>2
    <3>5. Cat(Cat(o, k), one) = Cat(flushed, Cat(left, one))
        BY <2>1, <3>3, <3>4
    <3>6. out'[l] \o kept'[l] = Append(o \o k, part)
        BY <1>12, <3>2, <3>5
    <3> QED BY <1>6, <1>8, <1>9, <1>10, <1>13, <3>6
  <2>5. CASE lost' = lost \union {l}
      BY <1>8, <1>9, <1>13, <2>5
  <2> QED BY <1>3, <2>3, <2>4, <2>5
<1>15. CASE again \/ lost' = lost \union {l}
    BY <1>3, <1>8, <1>9, <1>13, <1>15
<1> QED BY <1>3, <1>10, <1>15

LEMMA PartIs ==
    ASSUME Shape, thread.at \in Handling
    PROVE  /\ Current \in Link /\ stream[Current] \in Stream
           /\ <<stream[Current].content, stream[Current].pos + 1>> \in Part
<1>1. Current \in Link
    BY CurrentIs
<1>2. stream[Current] \in Stream
    BY <1>1 DEF Shape
<1>3. stream[Current].content \in Nat /\ stream[Current].pos + 1 \in Nat
    BY <1>2 DEF Stream
<1> QED BY <1>1, <1>2, <1>3 DEF Part

\* The part that SendPart gives to the socket.
LEMMA GivenIs ==
    ASSUME Shape, SendPart
    PROVE  LET b == <<stream[Current].content, stream[Current].pos + 1>>
           IN  /\ Current \in Link /\ b \in Part /\ sendCode(Current, b)
               /\ handed' = [handed EXCEPT ![Current] = Append(@, b)]
               /\ handed' \in [Link -> Seq(Part)]
               /\ kept' \in [Link -> Seq(Part)] /\ out' \in [Link -> Seq(Part)]
<1> DEFINE c == Current
           b == <<stream[c].content, stream[c].pos + 1>>
<1>1. thread.at \in Handling
    BY AtHandling DEF SendPart
<1>2. c \in Link /\ b \in Part
    BY <1>1, PartIs
<1>3. sendCode(c, b) /\ handed' = [handed EXCEPT ![c] = Append(@, b)]
    BY DEF SendPart
<1>4. handed \in [Link -> Seq(Part)]
    BY DEF Shape
<1> HIDE DEF b, c
<1>5. handed' \in [Link -> Seq(Part)]
    BY <1>2, <1>3, <1>4
<1>6. kept' \in [Link -> Seq(Part)] /\ out' \in [Link -> Seq(Part)]
    BY <1>2, <1>3, sendCodeIs
<1> QED BY <1>2, <1>3, <1>5, <1>6 DEF b, c

LEMMA ShapePart == ASSUME Shape, SendPart PROVE Shape'
<1> DEFINE x == IF stream[Current].pos + 1 >= stream[Current].len THEN "delete" ELSE "recv"
           c == Current
<1>1. thread.at \in Handling /\ x \in Handling
    BY AtHandling DEF SendPart
<1>2. thread' = [thread EXCEPT !.at = x] /\ stream' = [stream EXCEPT ![c].pos = @ + 1]
    BY DEF SendPart
<1> HIDE DEF x
<1>3. ThreadShape(thread')
    BY <1>1, <1>2, StaysIs DEF Shape
<1>4. c \in Link /\ stream \in [Link -> Stream]
    BY <1>1, CurrentIs DEF Shape
<1> HIDE DEF c
<1>5. stream' \in [Link -> Stream]
    BY <1>2, <1>4 DEF Stream
<1>6. /\ kept' \in [Link -> Seq(Part)] /\ out' \in [Link -> Seq(Part)]
      /\ handed' \in [Link -> Seq(Part)]
    BY <1>1, GivenIs
<1> QED BY <1>3, <1>5, <1>6 DEF Shape, SendPart

LEMMA ShapeRecv == ASSUME Shape, processRecv PROVE Shape'
<1> DEFINE c == Current
           q == Tail(thread.todo)
<1>1. thread.at \in Handling
    BY AtHandling DEF processRecv
<1>2. c \in Link /\ q \in Seq(Link) /\ thread.read \in SUBSET Link /\ thread.write \in SUBSET Link
    BY <1>1, CurrentIs
<1>3. thread' = GoTo(q, thread.read, thread.write)
    BY DEF processRecv
<1>4. \/ /\ \E n \in 1 .. inbox[c] : inbox' = [inbox EXCEPT ![c] = @ - n]
         /\ posted' = Append(posted, c) /\ links' = links
      \/ /\ \E i \in DOMAIN links : links' = RemoveAt(links, i)
         /\ UNCHANGED <<inbox, posted>>
      \/ UNCHANGED <<inbox, posted, links>>
    BY DEF processRecv
<1> HIDE DEF c, q
<1>5. ThreadShape(thread')
    BY <1>2, <1>3, GoToIs
<1>6. inbox \in [Link -> Nat] /\ posted \in Seq(Link) /\ links \in Seq(Link)
    BY DEF Shape
<1>7. inbox' \in [Link -> Nat] /\ posted' \in Seq(Link) /\ links' \in Seq(Link)
  <2>1. CASE UNCHANGED <<inbox, posted, links>>
      BY <1>6, <2>1
  <2>2. CASE /\ \E i \in DOMAIN links : links' = RemoveAt(links, i)
             /\ UNCHANGED <<inbox, posted>>
      BY <1>6, <2>2, RemoveType
  <2>3. CASE /\ \E n \in 1 .. inbox[c] : inbox' = [inbox EXCEPT ![c] = @ - n]
             /\ posted' = Append(posted, c) /\ links' = links
    <3>1. posted' \in Seq(Link)
        BY <1>2, <1>6, <2>3
    <3>2. inbox' \in [Link -> Nat]
        BY <1>2, <1>6, <2>3
    <3> QED BY <1>6, <2>3, <3>1, <3>2
  <2> QED BY <1>4, <2>1, <2>2, <2>3
<1> QED BY <1>5, <1>7 DEF Shape, processRecv, histories

-----------------------------------------------------------------------------
(* Every step keeps the links in good order.                               *)

LEMMA PartsIs == ASSUME NEW l \in Link PROVE Parts(l) = PartsOf(sizes[l])
BY DEF Parts, PartsOf, Numbered

LEMMA LinkFacts ==
    ASSUME Shape, NEW l \in Link
    PROVE  /\ sizes[l] \in Seq(Size) /\ handed[l] \in Seq(Part)
           /\ stream[l] \in Stream /\ inbox[l] \in Nat /\ asked[l] \in Nat
BY DEF Shape

\* What the link has stays.
Held(l) ==
    /\ sizes'[l] = sizes[l] /\ handed'[l] = handed[l]
    /\ stream'[l] = stream[l] /\ inbox'[l] = inbox[l] /\ asked'[l] = asked[l]

LEMMA HeldIs ==
    ASSUME NEW l \in Link, LinkInv(l), Held(l), posted' = posted,
           Place(thread', l) = Place(thread, l), Turn(receiver', l) = Turn(receiver, l)
    PROVE  LinkInv(l)'
BY DEF LinkInv, Held

\* A sequence with one of each has it once.
LEMMA OnceTail ==
    ASSUME NEW p \in Seq(Link), p # <<>>, NEW l \in Link
    PROVE  /\ l \in ToSet(Tail(p)) => l \in ToSet(p)
           /\ Once(p, l) => Once(Tail(p), l)
           /\ Once(p, l) /\ l = Head(p) => l \notin ToSet(Tail(p))
<1> DEFINE q == Tail(p)
<1>1. /\ q \in Seq(Link) /\ Len(q) = Len(p) - 1 /\ Len(p) \in Nat \ {0}
      /\ \A i \in 1 .. Len(q) : q[i] = p[i + 1]
      /\ Head(p) = p[1]
    BY EmptySeq, HeadTailProperties
<1>2. DOMAIN q = 1 .. Len(q) /\ DOMAIN p = 1 .. Len(p)
    BY <1>1
<1> HIDE DEF q
<1>3. \A i \in DOMAIN q : i + 1 \in DOMAIN p /\ i + 1 # 1 /\ i \in Nat /\ q[i] = p[i + 1]
    BY <1>1, <1>2
<1>4. 1 \in DOMAIN p
    BY <1>1, <1>2
<1>5. l \in ToSet(q) => l \in ToSet(p)
    BY <1>3 DEF ToSet
<1>6. ASSUME Once(p, l) PROVE Once(q, l)
  <2> SUFFICES ASSUME NEW i \in DOMAIN q, NEW j \in DOMAIN q, q[i] = l, q[j] = l
               PROVE  i = j
      BY DEF Once
  <2>1. i + 1 = j + 1
      BY <1>3, <1>6 DEF Once
  <2> QED BY <1>3, <2>1
<1>7. ASSUME Once(p, l), l = Head(p), l \in ToSet(q) PROVE FALSE
  <2>1. PICK i \in DOMAIN q : q[i] = l
      BY <1>7 DEF ToSet
  <2>2. p[i + 1] = l /\ p[1] = l /\ i + 1 \in DOMAIN p /\ i + 1 # 1
      BY <1>1, <1>3, <1>7, <2>1
  <2> QED BY <1>4, <1>7, <2>2 DEF Once
<1> QED BY <1>5, <1>6, <1>7 DEF q

LEMMA OnceAppend ==
    ASSUME NEW p \in Seq(Link), NEW l \in Link, NEW m \in Link
    PROVE  /\ m \in ToSet(Append(p, l)) <=> m \in ToSet(p) \/ m = l
           /\ Once(p, m) /\ (l = m => m \notin ToSet(p)) => Once(Append(p, l), m)
<1> DEFINE q == Append(p, l)
<1>1. /\ q \in Seq(Link) /\ Len(q) = Len(p) + 1 /\ Len(p) \in Nat
      /\ \A i \in 1 .. Len(p) : q[i] = p[i]
      /\ q[Len(p) + 1] = l
    BY AppendProperties
<1>2. DOMAIN q = 1 .. Len(q) /\ DOMAIN p = 1 .. Len(p)
    BY <1>1
<1> HIDE DEF q
<1>3. \A i \in DOMAIN q : (i \in DOMAIN p /\ q[i] = p[i]) \/ (i = Len(p) + 1 /\ q[i] = l)
    BY <1>1, <1>2
<1>4. /\ \A i \in DOMAIN p : i \in DOMAIN q /\ q[i] = p[i]
      /\ Len(p) + 1 \in DOMAIN q
    BY <1>1, <1>2
<1>5. m \in ToSet(q) <=> m \in ToSet(p) \/ m = l
    BY <1>1, <1>3, <1>4 DEF ToSet
<1>6. ASSUME Once(p, m), l = m => m \notin ToSet(p) PROVE Once(q, m)
  <2> SUFFICES ASSUME NEW i \in DOMAIN q, NEW j \in DOMAIN q, q[i] = m, q[j] = m
               PROVE  i = j
      BY DEF Once
  <2>1. CASE l = m
    <3>1. \A k \in DOMAIN p : p[k] # m
        BY <1>6, <2>1 DEF ToSet
    <3> QED BY <1>3, <3>1
  <2>2. CASE l # m
    <3>1. i \in DOMAIN p /\ p[i] = m /\ j \in DOMAIN p /\ p[j] = m
        BY <1>3, <2>2
    <3> QED BY <1>6, <3>1 DEF Once
  <2> QED BY <2>1, <2>2
<1> QED BY <1>5, <1>6 DEF q

LEMMA LinkClient ==
    ASSUME NEW k \in Link, Connect(k) \/ HangUp(k), NEW l \in Link, LinkInv(l)
    PROVE  LinkInv(l)'
<1>1. UNCHANGED <<inbox, stream, handed, posted, sizes, asked, thread, receiver>>
    BY DEF Connect, HangUp, histories
<1> QED BY <1>1, HeldIs DEF Held

\* The socket of a client that has been served was given everything.
LEMMA ServedIs ==
    ASSUME Shape, Sockets, NEW l \in Link, LinkInv(l), Served(l)
    PROVE  Len(sizes[l]) = asked[l] /\ Whole(sizes[l], handed[l])
<1> DEFINE z == sizes[l]
           o == out[l]
           k == kept[l]
           q == o \o k
           w == PartsOf(z)
<1>1. z \in Seq(Size) /\ o \in Seq(Part) /\ k \in Seq(Part) /\ handed[l] \in Seq(Part)
    BY DEF Shape
<1>2. Len(z) = asked[l] /\ o = w /\ q = handed[l]
    BY PartsIs DEF Served, Sockets
<1>3. q \in Seq(Part) /\ Joined(q, o, k)
    BY <1>1, JoinIs
<1>4. IsPrefix(handed[l], w)
    BY <1>1, LinkPrefix DEF LinkInv
<1> HIDE DEF w, z
<1>5. Len(q) <= Len(o)
    BY <1>2, <1>4 DEF IsPrefix
<1>6. Len(q) = Len(o) + Len(k) /\ Len(o) \in Nat /\ Len(k) \in Nat
    BY <1>3 DEF Joined
<1> HIDE DEF q, o, k
<1>7. Len(k) = 0
    BY <1>5, <1>6
<1>8. k = <<>>
    BY <1>1, <1>7, EmptySeq
<1>9. q = o
    BY <1>1, <1>8, ConcatEmptySeq DEF q
<1> QED BY <1>2, <1>9 DEF Whole, z, o, k, q, w

LEMMA LinkAsk ==
    ASSUME Shape, Sockets, NEW k \in Link, Ask(k), NEW l \in Link, LinkInv(l), l \notin early'
    PROVE  LinkInv(l)'
<1>1. UNCHANGED <<stream, handed, posted, sizes, thread, receiver>>
    BY DEF Ask
<1>2. /\ asked' = [asked EXCEPT ![k] = @ + 1] /\ inbox' = [inbox EXCEPT ![k] = @ + 1]
      /\ inbox \in [Link -> Nat] /\ asked \in [Link -> Nat]
    BY DEF Ask, Shape
<1>3. CASE l # k
  <2>1. inbox'[l] = inbox[l] /\ asked'[l] = asked[l]
      BY <1>2, <1>3
  <2> QED BY <1>1, <2>1, HeldIs DEF Held
<1>4. CASE l = k
  <2>1. Served(l)
      BY <1>4 DEF Ask
  <2> DEFINE z == sizes[l]
             o == handed[l]
             s == stream[l]
             i == inbox[l]
             a == asked[l]
             w == l \in ToSet(posted)
             c == Place(thread, l)
             r == Turn(receiver, l)
  <2>2. z \in Seq(Size) /\ o \in Seq(Part) /\ s \in Stream /\ i \in Nat /\ a \in Nat
      BY LinkFacts
  <2>3. Len(z) = a /\ Whole(z, o)
      BY <2>1, ServedIs
  <2>4. LinkOK(z, o, s, i, a, w, c, r) /\ Once(posted, l)
      BY DEF LinkInv
  <2> HIDE DEF z, o, s, i, a, w, c, r
  <2>5. LinkOK(z, o, s, i + 1, a + 1, w, c, r)
      BY <2>2, <2>3, <2>4, AskLink
  <2>6. inbox'[l] = i + 1 /\ asked'[l] = a + 1
      BY <1>2, <1>4 DEF i, a
  <2> QED BY <1>1, <2>4, <2>5, <2>6 DEF LinkInv, z, o, s, w, c, r
<1> QED BY <1>3, <1>4

LEMMA LinkAnswer ==
    ASSUME PartsAssumption, LinkAssumption, Shape, Answer, NEW l \in Link, LinkInv(l)
    PROVE  LinkInv(l)'
<1> DEFINE h == Head(posted)
           z == sizes[l]
           o == handed[l]
           s == stream[l]
           i == inbox[l]
           a == asked[l]
           w == l \in ToSet(posted)
           v == l \in ToSet(Tail(posted))
           c == Place(thread, l)
<1>1. posted \in Seq(Link) /\ posted # <<>> /\ posted' = Tail(posted) /\ h \in Link
    BY HeadIs DEF Shape, Answer
<1>2. /\ v => w
      /\ Once(posted, l) => Once(Tail(posted), l)
      /\ Once(posted, l) /\ l = h => ~v
    BY <1>1, OnceTail
<1>3. l = h => w
  <2>1. Head(posted) = posted[1] /\ 1 \in DOMAIN posted
      BY <1>1, EmptySeq, HeadTailProperties
  <2> QED BY <2>1 DEF ToSet
<1>4. z \in Seq(Size) /\ o \in Seq(Part) /\ s \in Stream /\ i \in Nat /\ a \in Nat
    BY LinkFacts
<1>5. Turn(receiver, l) = "idle" /\ receiver.at = "idle"
    BY DEF Answer, Turn
<1>6. LinkOK(z, o, s, i, a, w, c, "idle") /\ Once(posted, l)
    BY <1>5 DEF LinkInv
<1>7. UNCHANGED <<client, inbox, links, stream, handed, asked, early, lost, thread>>
    BY DEF Answer
<1>8. \/ /\ receiver' = [at |-> "len", link |-> h]
         /\ \E n \in 1 .. MaxParts[h] : sizes' = [sizes EXCEPT ![h] = Append(@, n)]
      \/ UNCHANGED <<receiver, sizes>>
    BY DEF Answer
<1>9. sizes \in [Link -> Seq(Size)]
    BY DEF Shape
<1>10. Once(posted', l)
    BY <1>1, <1>2, <1>6
<1> HIDE DEF v
<1>11. CASE sizes'[l] = sizes[l] /\ Turn(receiver', l) = "idle"
  <2>1. LinkOK(z, o, s, i, a, v, c, "idle")
      BY <1>2, <1>6, LessWaiting
  <2> QED BY <1>1, <1>7, <1>10, <1>11, <2>1 DEF LinkInv, v
<1>12. CASE UNCHANGED <<receiver, sizes>>
  <2>1. sizes'[l] = sizes[l] /\ Turn(receiver', l) = "idle"
      BY <1>5, <1>12
  <2> QED BY <1>11, <2>1
<1>13. CASE /\ receiver' = [at |-> "len", link |-> h]
            /\ \E n \in 1 .. MaxParts[h] : sizes' = [sizes EXCEPT ![h] = Append(@, n)]
  <2>1. PICK n \in 1 .. MaxParts[h] : sizes' = [sizes EXCEPT ![h] = Append(@, n)]
      BY <1>13
  <2>2. receiver'.at = "len" /\ receiver'.link = h
      BY <1>13
  <2>3. CASE l # h
    <3>1. sizes'[l] = sizes[l]
        BY <1>9, <2>1, <2>3
    <3>2. Turn(receiver', l) = "idle"
        BY <2>2, <2>3 DEF Turn
    <3> QED BY <1>11, <3>1, <3>2
  <2>4. CASE l = h
    <3>1. n \in Size
      <4>1. MaxParts[h] \in Nat
          BY <1>1 DEF PartsAssumption
      <4> HIDE DEF h
      <4> QED BY <4>1 DEF Size
    <3>2. sizes'[l] = Append(z, n)
        BY <1>9, <2>1, <2>4
    <3>3. Turn(receiver', l) = "len"
        BY <2>2, <2>4 DEF Turn
    <3>4. w = TRUE /\ v = FALSE
        BY <1>2, <1>3, <1>6, <2>4
    <3> HIDE DEF z, o, s, i, a, w, c
    <3>5. LinkOK(z, o, s, i, a, TRUE, c, "idle")
        BY <1>6, <3>4
    <3>6. LinkOK(Append(z, n), o, s, i, a, FALSE, c, "len")
        BY <1>4, <3>1, <3>5, AnswerLink
    <3>7. LinkOK(Append(z, n), o, s, i, a, v, c, "len")
        BY <3>4, <3>6
    <3> QED BY <1>1, <1>7, <1>10, <3>2, <3>3, <3>7 DEF LinkInv, v, o, s, i, a, c
  <2> QED BY <2>3, <2>4
<1> QED BY <1>8, <1>12, <1>13

LEMMA LinkSetLen ==
    ASSUME Shape, SetLen, NEW l \in Link, LinkInv(l)
    PROVE  LinkInv(l)'
<1> DEFINE h == receiver.link
<1>1. receiver.at = "len"
    BY DEF SetLen
<1>2. h \in Link /\ receiver \in Receivers /\ stream \in [Link -> Stream]
    BY <1>1, TurnIs DEF Shape
<1>3. stream' = [stream EXCEPT ![h] = [@ EXCEPT !.len = Last(sizes[h])]]
    BY DEF SetLen
<1>4. receiver'.at = "content" /\ receiver'.link = h
    BY <1>2 DEF SetLen, Receivers
<1>5. UNCHANGED <<client, inbox, links, handed, posted, sizes, asked, thread>>
    BY DEF SetLen, histories
<1>6. CASE l # h
  <2>1. stream'[l] = stream[l]
      BY <1>2, <1>3, <1>6
  <2>2. Turn(receiver', l) = Turn(receiver, l)
      BY <1>4, <1>6 DEF Turn
  <2> QED BY <1>5, <2>1, <2>2, HeldIs DEF Held
<1>7. CASE l = h
  <2> DEFINE z == sizes[l]
             o == handed[l]
             s == stream[l]
             i == inbox[l]
             a == asked[l]
             w == l \in ToSet(posted)
             c == Place(thread, l)
  <2>1. z \in Seq(Size) /\ o \in Seq(Part) /\ s \in Stream /\ i \in Nat /\ a \in Nat
      BY LinkFacts
  <2>2. Turn(receiver, l) = "len" /\ Turn(receiver', l) = "content"
      BY <1>1, <1>4, <1>7 DEF Turn
  <2>3. LinkOK(z, o, s, i, a, w, c, "len") /\ Once(posted, l)
      BY <2>2 DEF LinkInv
  <2>4. stream'[l] = [s EXCEPT !.len = Last(z)]
      BY <1>2, <1>3, <1>7
  <2> HIDE DEF z, o, s, i, a, w, c
  <2>5. LinkOK(z, o, [s EXCEPT !.len = Last(z)], i, a, w, c, "content")
      BY <2>1, <2>3, LenLink
  <2> QED BY <1>5, <2>2, <2>3, <2>4, <2>5 DEF LinkInv, z, o, i, a, w, c
<1> QED BY <1>6, <1>7

LEMMA LinkSetContent ==
    ASSUME LinkAssumption, Shape, SetContent, NEW l \in Link, LinkInv(l)
    PROVE  LinkInv(l)'
<1> DEFINE h == receiver.link
<1>1. receiver.at = "content"
    BY DEF SetContent
<1>2. h \in Link /\ stream \in [Link -> Stream]
    BY <1>1, TurnIs DEF Shape
<1>3. stream' = [stream EXCEPT ![h] = [@ EXCEPT !.content = Len(sizes[h])]]
    BY DEF SetContent
<1>4. receiver'.at = "idle" /\ receiver'.link = NoLink
    BY DEF SetContent
<1>5. UNCHANGED <<client, inbox, links, handed, posted, sizes, asked, thread>>
    BY DEF SetContent, histories
<1>8. Turn(receiver', l) = "idle"
    BY <1>4 DEF Turn
<1>6. CASE l # h
  <2>1. stream'[l] = stream[l]
      BY <1>2, <1>3, <1>6
  <2>2. Turn(receiver, l) = "idle"
      BY <1>6 DEF Turn
  <2> QED BY <1>5, <1>8, <2>1, <2>2, HeldIs DEF Held
<1>7. CASE l = h
  <2> DEFINE z == sizes[l]
             o == handed[l]
             s == stream[l]
             i == inbox[l]
             a == asked[l]
             w == l \in ToSet(posted)
             c == Place(thread, l)
  <2>1. z \in Seq(Size) /\ o \in Seq(Part) /\ s \in Stream /\ i \in Nat /\ a \in Nat
      BY LinkFacts
  <2>2. Turn(receiver, l) = "content"
      BY <1>1, <1>7 DEF Turn
  <2>3. LinkOK(z, o, s, i, a, w, c, "content") /\ Once(posted, l)
      BY <2>2 DEF LinkInv
  <2>4. stream'[l] = [s EXCEPT !.content = Len(z)]
      BY <1>2, <1>3, <1>7
  <2> HIDE DEF z, o, s, i, a, w, c
  <2>5. LinkOK(z, o, [s EXCEPT !.content = Len(z)], i, a, w, c, "idle")
      BY <2>1, <2>3, ContentLink
  <2> QED BY <1>5, <1>8, <2>3, <2>4, <2>5 DEF LinkInv, z, o, i, a, w, c
<1> QED BY <1>6, <1>7

\* The thread has no link in hand, before and after.
LEMMA LinkRound ==
    ASSUME Shape, prepareFdSet \/ Select, NEW l \in Link, LinkInv(l)
    PROVE  LinkInv(l)'
<1>1. thread.at \notin Handling
    BY AtHandling DEF prepareFdSet, Select
<1>2. thread'.at \notin Handling
  <2>1. CASE prepareFdSet
    <3>1. thread \in Threads
        BY DEF Shape, ThreadShape
    <3>2. thread'.at = "select"
        BY <2>1, <3>1 DEF prepareFdSet, Threads
    <3> QED BY <3>2, AtHandling
  <2>2. CASE Select
    <3>1. thread'.at = "accept"
        BY <2>2, SelectIs
    <3> QED BY <3>1, AtHandling
  <2> QED BY <2>1, <2>2
<1>3. Place(thread, l) = "away" /\ Place(thread', l) = "away"
    BY <1>1, <1>2 DEF Place
<1>4. UNCHANGED <<inbox, stream, handed, posted, sizes, asked, receiver>>
    BY DEF prepareFdSet, Select, histories
<1> QED BY <1>3, <1>4, HeldIs DEF Held

\* The thread goes to the next link.
LEMMA MoveIs ==
    ASSUME NEW l \in Link, LinkInv(l), Held(l), posted' = posted, receiver' = receiver,
           Place(thread, l) \in {"away", "recv"}, Place(thread', l) \in {"away", "send", "recv"}
    PROVE  LinkInv(l)'
<1> DEFINE z == sizes[l]
           o == handed[l]
           s == stream[l]
           i == inbox[l]
           a == asked[l]
           w == l \in ToSet(posted)
           c == Place(thread, l)
           d == Place(thread', l)
           r == Turn(receiver, l)
<1>1. LinkOK(z, o, s, i, a, w, c, r) /\ Once(posted, l)
    BY DEF LinkInv
<1>2. c \in {"away", "recv"} /\ d \in {"away", "send", "recv"}
    OBVIOUS
<1> HIDE DEF z, o, s, i, a, w, c, d, r
<1>3. LinkOK(z, o, s, i, a, w, d, r)
    BY <1>1, <1>2, MoveLink
<1> QED BY <1>1, <1>3 DEF LinkInv, Held, z, o, s, i, a, w, d, r

LEMMA LinkAccept ==
    ASSUME Shape, Accept, NEW l \in Link, LinkInv(l)
    PROVE  LinkInv(l)'
<1> DEFINE q == links'
<1>1. q \in Seq(Link)
    BY ShapeAccept DEF Shape
<1>2. thread.read \in SUBSET Link /\ thread.write \in SUBSET Link
    BY DEF Shape, ThreadShape, Threads
<1>3. thread' = GoTo(q, thread.read, thread.write)
    BY DEF Accept
<1> HIDE DEF q
<1>4. Place(thread', l) \in {"away", "send", "recv"}
    BY <1>1, <1>2, <1>3, GoToIs
<1>5. Place(thread, l) = "away"
    BY AtHandling DEF Accept, Place
<1>6. UNCHANGED <<inbox, stream, handed, posted, sizes, asked, receiver>>
    BY DEF Accept, histories
<1> QED BY <1>4, <1>5, <1>6, MoveIs DEF Held

LEMMA LinkSend ==
    ASSUME Shape, processSend, NEW l \in Link, LinkInv(l)
    PROVE  LinkInv(l)'
<1> DEFINE h == Current
           x == IF stream[h].content = NULL THEN "recv"
                ELSE IF stream[h].pos >= stream[h].len THEN "delete" ELSE "part"
<1>1. thread.at \in Handling /\ x \in Handling /\ thread.at = "send"
    BY AtHandling DEF processSend
<1>2. thread' = [thread EXCEPT !.at = x]
    BY DEF processSend
<1>3. UNCHANGED <<inbox, stream, handed, posted, sizes, asked, receiver>>
    BY DEF processSend, histories
<1>4. /\ l # h => Place(thread, l) = "away" /\ Place(thread', l) = "away"
      /\ l = h => Place(thread, l) = "send" /\ Place(thread', l) = x
  <2> HIDE DEF x
  <2> QED BY <1>1, <1>2, StaysLink
<1>5. CASE l # h
    BY <1>3, <1>4, <1>5, HeldIs DEF Held
<1>6. CASE l = h
  <2> DEFINE z == sizes[l]
             o == handed[l]
             s == stream[l]
             i == inbox[l]
             a == asked[l]
             w == l \in ToSet(posted)
             r == Turn(receiver, l)
  <2>1. z \in Seq(Size) /\ o \in Seq(Part) /\ s \in Stream /\ i \in Nat /\ a \in Nat
      BY LinkFacts
  <2>2. LinkOK(z, o, s, i, a, w, "send", r) /\ Once(posted, l)
      BY <1>4, <1>6 DEF LinkInv
  <2>3. Place(thread', l) = IF s.content = NULL THEN "recv"
                            ELSE IF s.pos >= s.len THEN "delete" ELSE "part"
      BY <1>4, <1>6
  <2> HIDE DEF z, o, s, i, a, w, r
  <2>4. LinkOK(z, o, s, i, a, w, Place(thread', l), r)
      BY <2>1, <2>2, <2>3, SendLink
  <2> QED BY <1>3, <2>2, <2>4 DEF LinkInv, z, o, s, i, a, w, r
<1> QED BY <1>5, <1>6

LEMMA LinkPart ==
    ASSUME Shape, SendPart, NEW l \in Link, LinkInv(l)
    PROVE  LinkInv(l)'
<1> DEFINE h == Current
           x == IF stream[h].pos + 1 >= stream[h].len THEN "delete" ELSE "recv"
           b == <<stream[h].content, stream[h].pos + 1>>
<1>1. thread.at \in Handling /\ x \in Handling /\ thread.at = "part"
    BY AtHandling DEF SendPart
<1>2. thread' = [thread EXCEPT !.at = x] /\ stream' = [stream EXCEPT ![h].pos = @ + 1]
    BY DEF SendPart
<1>3. UNCHANGED <<inbox, posted, sizes, asked, receiver>>
    BY DEF SendPart
<1>4. /\ l # h => Place(thread, l) = "away" /\ Place(thread', l) = "away"
      /\ l = h => Place(thread, l) = "part" /\ Place(thread', l) = x
  <2> HIDE DEF x
  <2> QED BY <1>1, <1>2, StaysLink
<1>5. h \in Link /\ b \in Part /\ stream \in [Link -> Stream] /\ handed \in [Link -> Seq(Part)]
    BY GivenIs DEF Shape
<1>6. handed' = [handed EXCEPT ![h] = Append(@, b)]
    BY GivenIs
<1> HIDE DEF b, h
<1>7. CASE l # h
  <2>1. stream'[l] = stream[l] /\ handed'[l] = handed[l]
      BY <1>2, <1>5, <1>6, <1>7
  <2> QED BY <1>3, <1>4, <1>7, <2>1, HeldIs DEF Held
<1>8. CASE l = h
  <2> DEFINE z == sizes[l]
             o == handed[l]
             s == stream[l]
             i == inbox[l]
             a == asked[l]
             w == l \in ToSet(posted)
             r == Turn(receiver, l)
  <2>1. z \in Seq(Size) /\ o \in Seq(Part) /\ s \in Stream /\ i \in Nat /\ a \in Nat
      BY LinkFacts
  <2>2. LinkOK(z, o, s, i, a, w, "part", r) /\ Once(posted, l)
      BY <1>4, <1>8 DEF LinkInv
  <2>3. handed'[l] = Append(o, <<s.content, s.pos + 1>>)
      BY <1>5, <1>6, <1>8 DEF b
  <2>4. stream'[l] = [s EXCEPT !.pos = @ + 1]
      BY <1>2, <1>5, <1>8
  <2>5. Place(thread', l) = IF s.pos + 1 >= s.len THEN "delete" ELSE "recv"
      BY <1>4, <1>8
  <2> HIDE DEF z, o, s, i, a, w, r
  <2>6. LinkOK(z, Append(o, <<s.content, s.pos + 1>>), [s EXCEPT !.pos = @ + 1], i, a, w,
               IF s.pos + 1 >= s.len THEN "delete" ELSE "recv", r)
      BY <2>1, <2>2, PartLink
  <2>7. LinkOK(z, handed'[l], stream'[l], i, a, w, Place(thread', l), r)
      BY <2>3, <2>4, <2>5, <2>6
  <2> QED BY <1>3, <2>2, <2>7 DEF LinkInv, z, i, a, w, r
<1> QED BY <1>7, <1>8

LEMMA LinkClear ==
    ASSUME Shape, clear, NEW l \in Link, LinkInv(l)
    PROVE  LinkInv(l)'
<1> DEFINE h == Current
           s == stream[h]
<1>1. thread.at \in Handling
    BY ClearThread
<1>2. PICK x \in Handling, t \in {[s EXCEPT !.content = 0], [s EXCEPT !.pos = 0], [s EXCEPT !.len = 0]} :
        /\ thread' = [thread EXCEPT !.at = x] /\ stream' = [stream EXCEPT ![h] = t]
        /\ \/ thread.at = "delete" /\ x = "pos" /\ t = [s EXCEPT !.content = 0]
           \/ thread.at = "pos" /\ x = "len" /\ t = [s EXCEPT !.pos = 0]
           \/ thread.at = "len" /\ x = "recv" /\ t = [s EXCEPT !.len = 0]
  <2>1. CASE /\ thread.at = "delete"
             /\ stream' = [stream EXCEPT ![Current].content = NULL]
             /\ thread' = [thread EXCEPT !.at = "pos"]
      BY <2>1, AtHandling DEF NULL
  <2>2. CASE /\ thread.at = "pos"
             /\ stream' = [stream EXCEPT ![Current].pos = 0]
             /\ thread' = [thread EXCEPT !.at = "len"]
      BY <2>2, AtHandling
  <2>3. CASE /\ thread.at = "len"
             /\ stream' = [stream EXCEPT ![Current].len = 0]
             /\ thread' = [thread EXCEPT !.at = "recv"]
      BY <2>3, AtHandling
  <2> QED BY <2>1, <2>2, <2>3 DEF clear
<1>3. UNCHANGED <<inbox, handed, posted, sizes, asked, receiver>>
    BY DEF clear, histories
<1>4. /\ l # h => Place(thread, l) = "away" /\ Place(thread', l) = "away"
      /\ l = h => Place(thread, l) = thread.at /\ Place(thread', l) = x
    BY <1>1, <1>2, StaysLink
<1>5. h \in Link /\ stream \in [Link -> Stream]
    BY <1>1, CurrentIs DEF Shape
<1>6. s = stream[h]
    OBVIOUS
<1> HIDE DEF h, s
<1>7. CASE l # h
  <2>1. stream'[l] = stream[l]
      BY <1>2, <1>5, <1>7
  <2> QED BY <1>3, <1>4, <1>7, <2>1, HeldIs DEF Held
<1>8. CASE l = h
  <2> DEFINE z == sizes[l]
             o == handed[l]
             i == inbox[l]
             a == asked[l]
             w == l \in ToSet(posted)
             r == Turn(receiver, l)
  <2>1. z \in Seq(Size) /\ o \in Seq(Part) /\ s \in Stream /\ i \in Nat /\ a \in Nat
      BY <1>6, <1>8, LinkFacts
  <2>2. LinkOK(z, o, s, i, a, w, thread.at, r) /\ Once(posted, l)
      BY <1>4, <1>6, <1>8 DEF LinkInv
  <2>3. stream'[l] = t
      BY <1>2, <1>5, <1>8
  <2> HIDE DEF z, o, i, a, w, r
  <2>4. /\ LinkOK(z, o, s, i, a, w, "delete", r)
                => LinkOK(z, o, [s EXCEPT !.content = NULL], i, a, w, "pos", r)
        /\ LinkOK(z, o, s, i, a, w, "pos", r)
                => LinkOK(z, o, [s EXCEPT !.pos = 0], i, a, w, "len", r)
        /\ LinkOK(z, o, s, i, a, w, "len", r)
                => LinkOK(z, o, [s EXCEPT !.len = 0], i, a, w, "recv", r)
      BY <2>1, ClearLink
  <2>5. LinkOK(z, o, t, i, a, w, x, r)
    <3>1. CASE thread.at = "delete" /\ x = "pos" /\ t = [s EXCEPT !.content = 0]
        BY <2>2, <2>4, <3>1 DEF NULL
    <3>2. CASE thread.at = "pos" /\ x = "len" /\ t = [s EXCEPT !.pos = 0]
        BY <2>2, <2>4, <3>2
    <3>3. CASE thread.at = "len" /\ x = "recv" /\ t = [s EXCEPT !.len = 0]
        BY <2>2, <2>4, <3>3
    <3> QED BY <1>2, <3>1, <3>2, <3>3
  <2> QED BY <1>3, <1>4, <1>8, <2>2, <2>3, <2>5 DEF LinkInv, z, o, i, a, w, r
<1> QED BY <1>7, <1>8

LEMMA LinkRecv ==
    ASSUME Shape, processRecv, NEW l \in Link, LinkInv(l)
    PROVE  LinkInv(l)'
<1> DEFINE h == Current
           q == Tail(thread.todo)
<1>1. thread.at \in Handling /\ thread.at = "recv"
    BY AtHandling DEF processRecv
<1>2. /\ h \in Link /\ q \in Seq(Link)
      /\ thread.read \in SUBSET Link /\ thread.write \in SUBSET Link
    BY <1>1, CurrentIs
<1>3. thread' = GoTo(q, thread.read, thread.write)
    BY DEF processRecv
<1>4. \/ /\ \E n \in 1 .. inbox[h] : inbox' = [inbox EXCEPT ![h] = @ - n]
         /\ posted' = Append(posted, h)
      \/ UNCHANGED <<inbox, posted>>
    BY DEF processRecv
<1>5. UNCHANGED <<stream, handed, sizes, asked, receiver>>
    BY DEF processRecv, histories
<1>6. /\ l # h => Place(thread, l) = "away"
      /\ l = h => Place(thread, l) = "recv"
    BY <1>1 DEF Place, Current
<1> HIDE DEF h, q
<1>7. Place(thread', l) \in {"away", "send", "recv"}
    BY <1>2, <1>3, GoToIs
<1>8. inbox \in [Link -> Nat] /\ posted \in Seq(Link)
    BY DEF Shape
<1>9. CASE UNCHANGED <<inbox, posted>>
    BY <1>5, <1>6, <1>7, <1>9, MoveIs DEF Held
<1>10. CASE /\ \E n \in 1 .. inbox[h] : inbox' = [inbox EXCEPT ![h] = @ - n]
            /\ posted' = Append(posted, h)
  <2>1. PICK n \in 1 .. inbox[h] : inbox' = [inbox EXCEPT ![h] = @ - n]
      BY <1>10
  <2>2. /\ l \in ToSet(posted') <=> l \in ToSet(posted) \/ l = h
        /\ Once(posted, l) /\ (h = l => l \notin ToSet(posted)) => Once(posted', l)
      BY <1>2, <1>8, <1>10, OnceAppend
  <2> DEFINE z == sizes[l]
             o == handed[l]
             s == stream[l]
             i == inbox[l]
             a == asked[l]
             w == l \in ToSet(posted)
             v == l \in ToSet(posted')
             c == Place(thread, l)
             d == Place(thread', l)
             r == Turn(receiver, l)
  <2>3. z \in Seq(Size) /\ o \in Seq(Part) /\ s \in Stream /\ i \in Nat /\ a \in Nat
      BY LinkFacts
  <2>4. LinkOK(z, o, s, i, a, w, c, r) /\ Once(posted, l)
      BY DEF LinkInv
  <2>5. c \in {"away", "recv"} /\ d \in {"away", "send", "recv"} /\ (l = h => c = "recv")
      BY <1>6, <1>7
  <2>6. CASE l # h
    <3>1. inbox'[l] = i /\ (v => w)
        BY <1>2, <1>8, <2>1, <2>2, <2>6
    <3> HIDE DEF z, o, s, i, a, w, v, c, d, r
    <3>2. LinkOK(z, o, s, i, a, v, c, r)
        BY <2>4, <3>1, LessWaiting
    <3>3. LinkOK(z, o, s, i, a, v, d, r)
        BY <2>5, <3>2, MoveLink
    <3> QED BY <1>5, <2>2, <2>4, <2>6, <3>1, <3>3 DEF LinkInv, z, o, s, a, v, d, r
  <2>7. CASE l = h
    <3>1. inbox'[l] = i - n /\ n \in 1 .. i
        BY <1>2, <1>8, <2>1, <2>7
    <3>2. v = TRUE /\ c = "recv"
        BY <2>2, <2>5, <2>7
    <3> HIDE DEF z, o, s, i, a, w, c, d, r
    <3>3. ~w /\ LinkOK(z, o, s, i - n, a, TRUE, "recv", r)
        BY <2>3, <2>4, <3>1, <3>2, ReadLink
    <3>4. LinkOK(z, o, s, i - n, a, TRUE, d, r)
        BY <2>5, <3>2, <3>3, MoveLink
    <3>5. LinkOK(z, o, s, i - n, a, v, d, r)
        BY <3>2, <3>4
    <3>6. Once(posted', l)
        BY <2>2, <2>4, <3>3 DEF w
    <3> QED BY <1>5, <3>1, <3>5, <3>6 DEF LinkInv, z, o, s, a, v, d, r
  <2> QED BY <2>6, <2>7
<1> QED BY <1>4, <1>9, <1>10

-----------------------------------------------------------------------------
(* The theorems.                                                           *)

\* A client that asked early stays one.
LEMMA EarlyStays == ASSUME Next PROVE early \subseteq early'
<1>1. ASSUME NEW k \in Link, Connect(k) \/ Ask(k) \/ HangUp(k)
      PROVE  early \subseteq early'
    BY <1>1 DEF Connect, Ask, HangUp, histories
<1>2. CASE Receiver
    BY <1>2 DEF Receiver, Answer, SetLen, SetContent, histories
<1>3. CASE SendPart
    BY <1>3 DEF SendPart
<1>4. CASE prepareFdSet \/ Select \/ Accept \/ processSend \/ clear \/ processRecv
    BY <1>4 DEF prepareFdSet, Select, Accept, processSend, clear, processRecv, histories
<1> QED BY <1>1, <1>2, <1>3, <1>4 DEF Next, HttpThread

\* Only SendPart gives something to a socket.
LEMMA SocketsStep ==
    ASSUME Shape, Sockets, Next
    PROVE  Sockets'
<1>1. CASE UNCHANGED <<kept, out, handed, lost, repeated>>
    BY <1>1 DEF Sockets
<1>2. CASE SendPart
  <2> DEFINE c == Current
             b == <<stream[c].content, stream[c].pos + 1>>
  <2>1. /\ c \in Link /\ b \in Part /\ sendCode(c, b)
        /\ handed' = [handed EXCEPT ![c] = Append(@, b)]
      BY <1>2, GivenIs
  <2>2. handed \in [Link -> Seq(Part)]
      BY DEF Shape
  <2> HIDE DEF b, c
  <2>3. /\ \A m \in Link \ {c} : out'[m] = out[m] /\ kept'[m] = kept[m]
        /\ lost' \in {lost, lost \union {c}}
        /\ repeated' \in {repeated, repeated \union {c}}
        /\ \/ c \in lost' \union repeated'
           \/ out'[c] \o kept'[c] = Append(out[c] \o kept[c], b)
      BY <2>1, sendCodeIs
  <2>4. SUFFICES ASSUME NEW l \in Link \ (lost' \union repeated')
                 PROVE  out'[l] \o kept'[l] = handed'[l]
      BY DEF Sockets
  <2>5. out[l] \o kept[l] = handed[l]
    <3>1. l \notin lost \union repeated
        BY <2>3, <2>4
    <3> QED BY <2>4, <3>1 DEF Sockets
  <2>6. CASE l # c
    <3>1. out'[l] = out[l] /\ kept'[l] = kept[l] /\ handed'[l] = handed[l]
        BY <2>1, <2>2, <2>3, <2>4, <2>6
    <3> QED BY <2>5, <3>1
  <2>7. CASE l = c
    <3>1. handed'[l] = Append(handed[l], b)
        BY <2>1, <2>2, <2>7
    <3>2. out'[l] \o kept'[l] = Append(out[l] \o kept[l], b)
        BY <2>3, <2>4, <2>7
    <3> QED BY <2>5, <3>1, <3>2
  <2> QED BY <2>6, <2>7
<1>3. CASE Receiver
    BY <1>1, <1>3 DEF Receiver, Answer, SetLen, SetContent, histories
<1>4. CASE prepareFdSet \/ Select \/ Accept \/ processSend \/ clear \/ processRecv
    BY <1>1, <1>4 DEF prepareFdSet, Select, Accept, processSend, clear, processRecv, histories
<1>5. ASSUME NEW k \in Link, Connect(k) \/ Ask(k) \/ HangUp(k)
      PROVE  Sockets'
    BY <1>1, <1>5 DEF Connect, Ask, HangUp, histories
<1> QED BY <1>2, <1>3, <1>4, <1>5 DEF Next, HttpThread

LEMMA ServerBegins == ASSUME PartsAssumption, LinkAssumption, Init PROVE ServerIInv
<1>1. ASSUME NEW l \in Link PROVE LinkInv(l)
  <2> DEFINE z == sizes[l]
             o == handed[l]
             s == stream[l]
             w == l \in ToSet(posted)
             c == Place(thread, l)
             r == Turn(receiver, l)
  <2>1. z = <<>> /\ inbox[l] = 0 /\ asked[l] = 0 /\ s = NoStream
      BY DEF Init
  <2>2. o = <<>>
      BY DEF Init
  <2>3. ~w /\ Once(posted, l)
      BY DEF Init, ToSet, Once
  <2>4. c = "away" /\ r = "idle"
      BY AtHandling DEF Init, Place, Turn
  <2>5. Whole(z, o)
      BY <2>1, <2>2, PartsEmpty DEF Whole
  <2>6. s.content = NULL /\ s.pos = 0
      BY <2>1 DEF NoStream
  <2>7. Len(z) = 0
      BY <2>1, EmptySeq
  <2> HIDE DEF z, o, s, w, c, r
  <2>8. Quiet(z, o, s, c, r)
      BY <2>4, <2>5, <2>6 DEF Quiet
  <2>9. Asking(z, o, 0, 0, w, c)
      BY <2>3, <2>5, <2>7 DEF Asking
  <2>10. LinkOK(z, o, s, 0, 0, w, c, r)
      BY <2>8, <2>9 DEF LinkOK
  <2> QED BY <2>1, <2>3, <2>10 DEF LinkInv, z, o, s, w, c, r
<1>2. Sockets
  <2> SUFFICES ASSUME NEW l \in Link PROVE out[l] \o kept[l] = handed[l]
      BY DEF Sockets
  <2>1. out[l] = <<>> /\ kept[l] = <<>> /\ handed[l] = <<>>
      BY DEF Init
  <2> QED BY <2>1, ConcatEmptySeq
<1> QED BY <1>1, <1>2, ShapeBegins DEF ServerIInv, Streams

LEMMA ServerStep ==
    ASSUME PartsAssumption, LinkAssumption, ServerIInv, [Next]_vars
    PROVE  ServerIInv'
<1> USE PartsAssumption, LinkAssumption
<1>1. Shape /\ Streams /\ Sockets
    BY DEF ServerIInv
<1>2. CASE UNCHANGED vars
  <2>1. Shape'
      BY <1>1, <1>2 DEF Shape, vars
  <2>2. ASSUME NEW l \in Link, LinkInv(l) PROVE LinkInv(l)'
      BY <1>2, <2>2 DEF LinkInv, vars
  <2>3. Streams'
    <3>1. early' = early
        BY <1>2 DEF vars
    <3> QED BY <1>1, <2>2, <3>1 DEF Streams
  <2>4. Sockets'
      BY <1>1, <1>2 DEF Sockets, vars
  <2> QED BY <2>1, <2>3, <2>4 DEF ServerIInv
<1>3. CASE Next
  <2>1. early \subseteq early' /\ Sockets'
      BY <1>1, <1>3, EarlyStays, SocketsStep
  <2> SUFFICES Shape' /\ \A l \in Link : LinkInv(l) /\ l \notin early' => LinkInv(l)'
      BY <1>1, <2>1 DEF ServerIInv, Streams
  <2>2. ASSUME NEW k \in Link, Connect(k) \/ HangUp(k)
        PROVE  Shape' /\ \A l \in Link : LinkInv(l) => LinkInv(l)'
      BY <1>1, <2>2, ShapeClient, LinkClient
  <2>3. ASSUME NEW k \in Link, Ask(k)
        PROVE  Shape' /\ \A l \in Link : LinkInv(l) /\ l \notin early' => LinkInv(l)'
      BY <1>1, <2>3, ShapeClient, LinkAsk
  <2>4. CASE Answer
      BY <1>1, <2>4, ShapeAnswer, LinkAnswer
  <2>5. CASE SetLen
      BY <1>1, <2>5, ShapeSetLen, LinkSetLen
  <2>6. CASE SetContent
      BY <1>1, <2>6, ShapeSetContent, LinkSetContent
  <2>7. CASE prepareFdSet
      BY <1>1, <2>7, ShapePrepare, LinkRound
  <2>8. CASE Select
      BY <1>1, <2>8, ShapeSelect, LinkRound
  <2>9. CASE Accept
      BY <1>1, <2>9, ShapeAccept, LinkAccept
  <2>10. CASE processSend
      BY <1>1, <2>10, ShapeSend, LinkSend
  <2>11. CASE SendPart
      BY <1>1, <2>11, ShapePart, LinkPart
  <2>12. CASE clear
      BY <1>1, <2>12, ShapeClear, LinkClear
  <2>13. CASE processRecv
      BY <1>1, <2>13, ShapeRecv, LinkRecv
  <2> QED BY <1>3, <2>2, <2>3, <2>4, <2>5, <2>6, <2>7, <2>8, <2>9, <2>10, <2>11, <2>12, <2>13
          DEF Next, Receiver, HttpThread
<1> QED BY <1>2, <1>3

\* In every state of the server the stream of a link whose client waits for
\* its answers is empty, being filled, being sent or being cleared, and the
\* two threads are never at it in ways that disturb each other; and what a
\* socket was given has gone out or is kept, but for the accidents.
THEOREM ServerInvariance == Spec => []ServerIInv
<1>1. Init => ServerIInv
    BY PartsAssumption, LinkAssumption, ServerBegins
<1>2. ServerIInv /\ [Next]_vars => ServerIInv'
    BY PartsAssumption, LinkAssumption, ServerStep
<1> QED BY <1>1, <1>2, PTL DEF Spec

\* The socket of a client that asks again only when its answer is there is
\* given the parts of its answers in order, each once and none left out,
\* whatever the sockets do, however many clients there are and however many
\* parts their answers have, although the stream of a link has no lock
\* (CHttpServer::send, processSend, clear).  So the client gets them whole,
\* in order and once, unless its socket did not accept a part or sent kept
\* bytes again at the end of its ring (sendCode, readFromBuffer): the threads
\* add no accident of their own, however much a socket keeps.
THEOREM AnswersArriveWhole == Spec => []AnswersWhole
<1>1. ServerIInv => AnswersHanded
  <2> SUFFICES ASSUME ServerIInv, NEW l \in Link \ early
               PROVE  IsPrefix(handed[l], Parts(l))
      BY DEF AnswersHanded
  <2>1. Shape /\ LinkInv(l)
      BY DEF ServerIInv, Streams
  <2>2. sizes[l] \in Seq(Size) /\ handed[l] \in Seq(Part)
      BY <2>1, LinkFacts
  <2>3. IsPrefix(handed[l], PartsOf(sizes[l]))
      BY <2>1, <2>2, LinkPrefix DEF LinkInv
  <2> QED BY <2>3, PartsIs
<1>2. ServerIInv => AnswersWhole
    BY <1>1 DEF ServerIInv, Sockets, AnswersHanded, AnswersWhole
<1> QED BY <1>2, ServerInvariance, PTL
=============================================================================
