--------------------------- MODULE SequenceLemmas ---------------------------
(***************************************************************************)
(* Lemmas about natural numbers and sequences the proofs about the socket  *)
(* and the HTTP server share.                                              *)
(***************************************************************************)
EXTENDS SequencesExt, SequenceTheorems, WellFoundedInduction, TLAPS

\* Induction enters once, as the least counterexample of a set of numbers.
LEMMA Smallest ==
    ASSUME NEW T \in SUBSET Nat, T # {}
    PROVE  \E x \in T : \A y \in T : x <= y
<1> DEFINE R == {ss \in Nat \X Nat : ss[1] < ss[2]}
<1>1. IsWellFoundedOn(R, Nat)
    BY NatLessThanWellFounded DEF OpToRel
<1>2. \A x, y \in Nat : x < y => <<x, y>> \in R
    OBVIOUS
<1> HIDE DEF R
<1>3. PICK x \in T : \A y \in T : <<y, x>> \notin R
    BY <1>1, WFMin
<1>4. \A y \in T : x <= y
  <2> SUFFICES ASSUME NEW y \in T PROVE x <= y
      OBVIOUS
  <2>1. x \in Nat /\ y \in Nat /\ ~(y < x)
      BY <1>2, <1>3
  <2> QED BY <2>1
<1> QED BY <1>4

\* The same as an induction on a set of numbers from 1 to n.
LEMMA ByInduction ==
    ASSUME NEW n \in Nat, NEW T, 1 \in T,
           \A i \in 1 .. n : i # 1 /\ i - 1 \in T => i \in T
    PROVE  1 .. n \subseteq T
<1> DEFINE W == {i \in 1 .. n : i \notin T}
<1> SUFFICES ASSUME W # {} PROVE FALSE
    OBVIOUS
<1>1. PICK x \in W : \A y \in W : x <= y
  <2>1. W \in SUBSET Nat
      OBVIOUS
  <2> HIDE DEF W
  <2> QED BY <2>1, Smallest
<1>2. x \in 1 .. n /\ x \notin T /\ x # 1
    OBVIOUS
<1>3. x - 1 \in 1 .. n /\ ~(x <= x - 1)
    BY <1>2
<1>4. x - 1 \in T
    BY <1>1, <1>3
<1> QED BY <1>2, <1>4

LEMMA FromZero ==
    ASSUME NEW n \in Nat, NEW T, 0 \in T, \A i \in 1 .. n : i - 1 \in T => i \in T
    PROVE  0 .. n \subseteq T
<1>1. CASE n = 0
    BY <1>1
<1>2. CASE n # 0
  <2>1. 1 \in T
    <3>1. 1 \in 1 .. n /\ 1 - 1 = 0
        BY <1>2
    <3> QED BY <3>1
  <2>2. 1 .. n \subseteq T
      BY <2>1, ByInduction
  <2>3. \A i \in 0 .. n : i = 0 \/ i \in 1 .. n
      OBVIOUS
  <2> QED BY <2>2, <2>3
<1> QED BY <1>1, <1>2

\* Concatenation under a name: how it is defined is then of no concern.
Cat(a, b) == a \o b

LEMMA CatAssociative ==
    \A S : \A a, b, c \in Seq(S) : Cat(Cat(a, b), c) = Cat(a, Cat(b, c))
<1> SUFFICES ASSUME NEW S, NEW a \in Seq(S), NEW b \in Seq(S), NEW c \in Seq(S)
             PROVE  (a \o b) \o c = a \o (b \o c)
    BY DEF Cat
<1> QED BY ConcatAssociative

LEMMA OneIs == ASSUME NEW S, NEW x \in S PROVE <<x>> \in Seq(S)
OBVIOUS

\* One sequence behind another, by their elements.
Joined(w, s, t) ==
    /\ Len(w) = Len(s) + Len(t) /\ Len(s) \in Nat /\ Len(t) \in Nat
    /\ \A i \in 1 .. Len(s) : w[i] = s[i]
    /\ \A i \in 1 .. Len(t) : w[Len(s) + i] = t[i]

LEMMA JoinIs ==
    ASSUME NEW S, NEW s \in Seq(S), NEW t \in Seq(S)
    PROVE  s \o t \in Seq(S) /\ Joined(s \o t, s, t)
<1> DEFINE w == s \o t
<1>1. /\ w \in Seq(S) /\ Len(w) = Len(s) + Len(t)
      /\ \A i \in 1 .. Len(s) + Len(t) : w[i] = IF i <= Len(s) THEN s[i] ELSE t[i - Len(s)]
    BY ConcatProperties
<1>2. Len(s) \in Nat /\ Len(t) \in Nat
    OBVIOUS
<1> HIDE DEF w
<1>3. ASSUME NEW i \in 1 .. Len(s) PROVE w[i] = s[i]
    BY <1>1, <1>2
<1>4. ASSUME NEW i \in 1 .. Len(t) PROVE w[Len(s) + i] = t[i]
  <2>1. /\ Len(s) + i \in 1 .. Len(s) + Len(t) /\ ~(Len(s) + i <= Len(s))
        /\ (Len(s) + i) - Len(s) = i
      BY <1>2
  <2> QED BY <1>1, <2>1
<1>5. Joined(w, s, t)
    BY <1>1, <1>2, <1>3, <1>4 DEF Joined
<1> QED BY <1>1, <1>5 DEF w

\* The elements behind the first m, up to the n-th.
LEMMA PieceIs ==
    ASSUME NEW S, NEW s \in Seq(S), NEW m \in Nat, NEW n \in Nat, m <= n, n <= Len(s)
    PROVE  /\ SubSeq(s, m + 1, n) \in Seq(S) /\ Len(SubSeq(s, m + 1, n)) = n - m
           /\ \A i \in 1 .. n - m : SubSeq(s, m + 1, n)[i] = s[m + i]
<1> DEFINE w == SubSeq(s, m + 1, n)
<1>1. Len(s) \in Nat /\ m + 1 \in Int /\ n \in Int
    OBVIOUS
<1>2. \A i \in m + 1 .. n : s[i] \in S
  <2> SUFFICES ASSUME NEW i \in m + 1 .. n PROVE s[i] \in S
      OBVIOUS
  <2>1. i \in 1 .. Len(s)
      BY <1>1
  <2> QED BY <2>1, ElementOfSeq
<1>3. /\ w \in Seq(S) /\ Len(w) = IF m + 1 <= n THEN n - (m + 1) + 1 ELSE 0
      /\ \A i \in 1 .. n - (m + 1) + 1 : w[i] = s[m + 1 + i - 1]
    BY <1>1, <1>2, SubSeqProperties
<1> HIDE DEF w
<1>4. Len(w) = n - m /\ n - (m + 1) + 1 = n - m
    BY <1>3
<1>5. \A i \in 1 .. n - m : w[i] = s[m + i]
  <2> SUFFICES ASSUME NEW i \in 1 .. n - m PROVE w[i] = s[m + i]
      OBVIOUS
  <2>1. m + 1 + i - 1 = m + i
      OBVIOUS
  <2> QED BY <1>3, <1>4, <2>1
<1> QED BY <1>3, <1>4, <1>5 DEF w

\* The same, by name.
Piece(w, s, m, n) == Len(w) = n - m /\ \A i \in 1 .. n - m : w[i] = s[m + i]

LEMMA PieceOf ==
    ASSUME NEW S, NEW s \in Seq(S), NEW m \in Nat, NEW n \in Nat, m <= n, n <= Len(s)
    PROVE  SubSeq(s, m + 1, n) \in Seq(S) /\ Piece(SubSeq(s, m + 1, n), s, m, n)
BY PieceIs DEF Piece

\* A sequence cut in two.
LEMMA CutIs ==
    ASSUME NEW S, NEW s \in Seq(S), NEW n \in 0 .. Len(s)
    PROVE  /\ SubSeq(s, 1, n) \in Seq(S) /\ Len(SubSeq(s, 1, n)) = n
           /\ SubSeq(s, n + 1, Len(s)) \in Seq(S)
           /\ Len(SubSeq(s, n + 1, Len(s))) = Len(s) - n
           /\ \A i \in 1 .. n : SubSeq(s, 1, n)[i] = s[i]
           /\ \A i \in 1 .. Len(s) - n : SubSeq(s, n + 1, Len(s))[i] = s[n + i]
           /\ SubSeq(s, 1, n) \o SubSeq(s, n + 1, Len(s)) = s
<1>1. Len(s) \in Nat /\ n \in Nat /\ 0 \in Nat /\ 0 <= n /\ n <= Len(s) /\ Len(s) <= Len(s)
    OBVIOUS
<1>2. /\ SubSeq(s, 0 + 1, n) \in Seq(S) /\ Len(SubSeq(s, 0 + 1, n)) = n - 0
      /\ \A i \in 1 .. n - 0 : SubSeq(s, 0 + 1, n)[i] = s[0 + i]
    BY <1>1, PieceIs
<1>3. 0 + 1 = 1 /\ n - 0 = n /\ \A i \in 1 .. n : 0 + i = i
    BY <1>1
<1>4. /\ SubSeq(s, 1, n) \in Seq(S) /\ Len(SubSeq(s, 1, n)) = n
      /\ \A i \in 1 .. n : SubSeq(s, 1, n)[i] = s[i]
    BY <1>2, <1>3
<1>5. /\ SubSeq(s, n + 1, Len(s)) \in Seq(S)
      /\ Len(SubSeq(s, n + 1, Len(s))) = Len(s) - n
      /\ \A i \in 1 .. Len(s) - n : SubSeq(s, n + 1, Len(s))[i] = s[n + i]
    BY <1>1, PieceIs
<1>6. SubSeq(s, 1, n) \o SubSeq(s, n + 1, Len(s)) = s
  <2>1. 1 \in 1 .. Len(s) + 1 /\ n \in 1 - 1 .. Len(s) /\ Len(s) \in n .. Len(s)
      BY <1>1
  <2>2. SubSeq(s, 1, n) \o SubSeq(s, n + 1, Len(s)) = SubSeq(s, 1, Len(s))
      BY <2>1, ConcatAdjacentSubSeq
  <2> QED BY <2>2, SubSeqFull
<1> QED BY <1>4, <1>5, <1>6

\* The beginning of a longer sequence.
LEMMA BeginIs ==
    ASSUME NEW S, NEW s \in Seq(S), NEW x \in Seq(S), NEW m \in Nat, NEW n \in Nat,
           m <= n, n <= Len(s)
    PROVE  SubSeq(s \o x, m + 1, n) = SubSeq(s, m + 1, n)
<1> DEFINE y == s \o x
           a == SubSeq(y, m + 1, n)
           b == SubSeq(s, m + 1, n)
<1>1. y \in Seq(S) /\ Joined(y, s, x)
    BY JoinIs
<1> HIDE DEF y
<1>2. Len(s) \in Nat /\ Len(x) \in Nat /\ Len(y) = Len(s) + Len(x)
    BY <1>1 DEF Joined
<1>3. n <= Len(y)
    BY <1>2
<1>4. a \in Seq(S) /\ Piece(a, y, m, n)
    BY <1>1, <1>3, PieceOf
<1>5. b \in Seq(S) /\ Piece(b, s, m, n)
    BY PieceOf
<1> HIDE DEF a, b
<1>6. ASSUME NEW i \in 1 .. n - m PROVE a[i] = b[i]
  <2>1. m + i \in 1 .. Len(s)
      BY <1>2
  <2>2. y[m + i] = s[m + i]
      BY <1>1, <2>1 DEF Joined
  <2>3. a[i] = y[m + i] /\ b[i] = s[m + i]
      BY <1>4, <1>5 DEF Piece
  <2> QED BY <2>2, <2>3
<1>7. Len(a) = n - m /\ Len(b) = n - m
    BY <1>4, <1>5 DEF Piece
<1>8. a = b
    BY <1>4, <1>5, <1>6, <1>7, SeqEqual
<1> QED BY <1>8 DEF a, b, y

\* Two ways to cut the same sequence: the later end is part of the other.
Same(a, b, c, d) == a \o b = c \o d

Shared(S, a, b, c, d, e) ==
    /\ d = e \o b /\ a = c \o e
    /\ e \in Seq(S) /\ Len(e) = Len(d) - Len(b)

LEMMA CommonEnd ==
    ASSUME NEW S, NEW a \in Seq(S), NEW b \in Seq(S), NEW c \in Seq(S), NEW d \in Seq(S),
           Same(a, b, c, d), Len(b) <= Len(d), NEW e, e = SubSeq(d, 1, Len(d) - Len(b))
    PROVE  Shared(S, a, b, c, d, e)
<1> DEFINE k == Len(d) - Len(b)
           x == a \o b
           y == c \o e
           z == e \o b
<1>1. x \in Seq(S) /\ Joined(x, a, b)
    BY JoinIs
<1>2. Joined(x, c, d)
  <2>1. Joined(c \o d, c, d)
      BY JoinIs
  <2> QED BY <2>1 DEF Same
<1>10. e = SubSeq(d, 1, k)
    OBVIOUS
<1>3. k \in 0 .. Len(d) /\ Len(a) = Len(c) + k /\ Len(d) = k + Len(b)
    BY <1>1, <1>2 DEF Joined
<1> HIDE DEF k, x
<1>4. e \in Seq(S) /\ Len(e) = k /\ \A i \in 1 .. k : e[i] = d[i]
    BY <1>3, <1>10, CutIs
<1>5. y \in Seq(S) /\ Joined(y, c, e)
    BY <1>4, JoinIs
<1>6. z \in Seq(S) /\ Joined(z, e, b)
    BY <1>4, JoinIs
<1> HIDE DEF y, z
<1>9. /\ Len(a) \in Nat /\ Len(b) \in Nat /\ Len(c) \in Nat /\ Len(d) \in Nat
      /\ Len(z) = Len(d) /\ Len(y) = Len(a)
    BY <1>1, <1>2, <1>3, <1>4, <1>5, <1>6 DEF Joined
<1>7. d = z
  <2>1. ASSUME NEW i \in 1 .. Len(d) PROVE d[i] = z[i]
    <3>1. CASE i <= k
      <4>1. i \in 1 .. k
          BY <1>3, <1>9, <3>1
      <4>2. z[i] = e[i] /\ e[i] = d[i]
          BY <1>4, <1>6, <4>1 DEF Joined
      <4> QED BY <4>2
    <3>2. CASE ~(i <= k)
      <4> DEFINE j == i - k
      <4>1. j \in 1 .. Len(b) /\ k + j = i /\ Len(a) + j = Len(c) + i
          BY <1>3, <1>9, <3>2
      <4> HIDE DEF j
      <4>2. z[k + j] = b[j]
          BY <1>4, <1>6, <4>1 DEF Joined
      <4>3. x[Len(a) + j] = b[j]
          BY <1>1, <4>1 DEF Joined
      <4>4. x[Len(c) + i] = d[i]
          BY <1>2 DEF Joined
      <4> QED BY <4>1, <4>2, <4>3, <4>4
    <3> QED BY <3>1, <3>2
  <2> QED BY <1>6, <1>9, <2>1, SeqEqual
<1>8. a = y
  <2>1. ASSUME NEW i \in 1 .. Len(a) PROVE a[i] = y[i]
    <3>2. x[i] = a[i]
        BY <1>1 DEF Joined
    <3>3. CASE i <= Len(c)
      <4>1. i \in 1 .. Len(c)
          BY <1>9, <3>3
      <4>2. y[i] = c[i] /\ x[i] = c[i]
          BY <1>2, <1>5, <4>1 DEF Joined
      <4> QED BY <3>2, <4>2
    <3>4. CASE ~(i <= Len(c))
      <4> DEFINE j == i - Len(c)
      <4>1. j \in 1 .. k /\ Len(c) + j = i /\ j \in 1 .. Len(d)
          BY <1>3, <1>9, <3>4
      <4> HIDE DEF j
      <4>2. y[Len(c) + j] = e[j]
          BY <1>4, <1>5, <4>1 DEF Joined
      <4>3. x[Len(c) + j] = d[j]
          BY <1>2, <4>1 DEF Joined
      <4>4. e[j] = d[j]
          BY <1>4, <4>1
      <4> QED BY <3>2, <4>1, <4>2, <4>3, <4>4
    <3> QED BY <3>3, <3>4
  <2> QED BY <1>5, <1>9, <2>1, SeqEqual
<1> QED BY <1>4, <1>7, <1>8 DEF k, y, z, Shared

-----------------------------------------------------------------------------
(* FlattenSeq, by its partial concatenations.                              *)

\* g[i] is what the first i of the sequences s[1], s[2], ... are together.
Flat(s, n, g) == \A i \in 1 .. n : g[i] = IF i = 1 THEN s[i] ELSE g[i - 1] \o s[i]

LEMMA FlatExists ==
    ASSUME NEW S, NEW s \in Seq(Seq(S)), s # <<>>
    PROVE  \E g \in [1 .. Len(s) -> Seq(S)] : Flat(s, Len(s), g)
<1> DEFINE T == {k \in Nat : \E g \in [1 .. k -> Seq(S)] : Flat(s, k, g)}
<1>1. Len(s) \in Nat \ {0} /\ \A i \in 1 .. Len(s) : s[i] \in Seq(S)
    BY EmptySeq, ElementOfSeq
<1>2. 1 \in T
  <2> DEFINE g == [i \in 1 .. 1 |-> s[1]]
  <2>1. g \in [1 .. 1 -> Seq(S)] /\ Flat(s, 1, g)
      BY <1>1 DEF Flat
  <2> QED BY <2>1
<1>3. ASSUME NEW i \in 1 .. Len(s), i # 1 /\ i - 1 \in T PROVE i \in T
  <2>1. PICK g \in [1 .. i - 1 -> Seq(S)] : Flat(s, i - 1, g)
      BY <1>3
  <2> DEFINE h == [j \in 1 .. i |-> IF j = i THEN g[i - 1] \o s[i] ELSE g[j]]
  <2>2. i \in Nat /\ i - 1 \in 1 .. i - 1 /\ s[i] \in Seq(S) /\ g[i - 1] \in Seq(S)
      BY <1>1, <1>3
  <2>3. g[i - 1] \o s[i] \in Seq(S)
      BY <2>2, ConcatProperties
  <2>4. h \in [1 .. i -> Seq(S)]
      BY <2>2, <2>3
  <2>5. ASSUME NEW j \in 1 .. i
        PROVE  h[j] = IF j = 1 THEN s[j] ELSE h[j - 1] \o s[j]
    <3>1. CASE j = i
      <4>1. i - 1 \in 1 .. i /\ i - 1 # i /\ i \in 1 .. i
          BY <2>2
      <4>2. h[i - 1] = g[i - 1] /\ h[i] = g[i - 1] \o s[i]
          BY <4>1
      <4> HIDE DEF h
      <4> QED BY <1>3, <3>1, <4>2
    <3>2. CASE j # i
      <4>1. j \in 1 .. i - 1 /\ (j # 1 => j - 1 \in 1 .. i /\ j - 1 # i)
          BY <2>2, <3>2
      <4>2. h[j] = g[j] /\ (j # 1 => h[j - 1] = g[j - 1])
          BY <3>2, <4>1
      <4> QED BY <2>1, <4>1, <4>2 DEF Flat
    <3> QED BY <3>1, <3>2
  <2> HIDE DEF h
  <2>6. Flat(s, i, h)
      BY <2>5 DEF Flat
  <2> QED BY <2>2, <2>4, <2>6
<1> HIDE DEF T
<1>4. 1 .. Len(s) \subseteq T
    BY <1>1, <1>2, <1>3, ByInduction
<1>5. Len(s) \in T
  <2>1. Len(s) \in 1 .. Len(s)
      BY <1>1
  <2> QED BY <1>4, <2>1
<1> QED BY <1>5 DEF T

LEMMA FlattenIs ==
    ASSUME NEW S, NEW s \in Seq(Seq(S)), s # <<>>,
           NEW g \in [1 .. Len(s) -> Seq(S)], Flat(s, Len(s), g)
    PROVE  FlattenSeq(s) = g[Len(s)] /\ FlattenSeq(s) \in Seq(S)
<1> DEFINE D(f) == [i \in 1 .. Len(s) |-> IF i = 1 THEN s[i] ELSE f[i - 1] \o s[i]]
           f == CHOOSE x : x = D(x)
<1>1. Len(s) \in Nat \ {0}
    BY EmptySeq
<1>2. g = D(g)
    BY <1>1 DEF Flat
<1>3. f = D(f)
    BY <1>2
<1>4. FlattenSeq(s) = f[Len(s)]
    BY <1>1 DEF FlattenSeq
<1> HIDE DEF f
<1> DEFINE T == {i \in 1 .. Len(s) : f[i] = g[i]}
<1>5. 1 \in T
  <2>1. 1 \in 1 .. Len(s)
      BY <1>1
  <2>2. f[1] = s[1]
      BY <1>3, <2>1
  <2>3. g[1] = s[1]
      BY <2>1 DEF Flat
  <2> QED BY <2>1, <2>2, <2>3
<1>6. ASSUME NEW i \in 1 .. Len(s), i # 1 /\ i - 1 \in T PROVE i \in T
  <2>1. f[i] = f[i - 1] \o s[i]
      BY <1>3, <1>6
  <2>2. g[i] = g[i - 1] \o s[i]
      BY <1>6 DEF Flat
  <2> QED BY <1>6, <2>1, <2>2
<1> HIDE DEF T
<1>7. 1 .. Len(s) \subseteq T
    BY <1>1, <1>5, <1>6, ByInduction
<1>8. Len(s) \in T
  <2>1. Len(s) \in 1 .. Len(s)
      BY <1>1
  <2> QED BY <1>7, <2>1
<1>9. f[Len(s)] = g[Len(s)]
    BY <1>8 DEF T
<1>10. g[Len(s)] \in Seq(S)
  <2>1. Len(s) \in 1 .. Len(s)
      BY <1>1
  <2> QED BY <2>1
<1> QED BY <1>4, <1>9, <1>10

LEMMA FlattenType ==
    ASSUME NEW S, NEW s \in Seq(Seq(S))
    PROVE  FlattenSeq(s) \in Seq(S)
<1>1. CASE s = <<>>
    BY <1>1, EmptySeq DEF FlattenSeq
<1>2. CASE s # <<>>
    BY <1>2, FlatExists, FlattenIs
<1> QED BY <1>1, <1>2

\* A sequence behind the others.
LEMMA FlattenAppend ==
    ASSUME NEW S, NEW s \in Seq(Seq(S)), NEW x \in Seq(S)
    PROVE  FlattenSeq(Append(s, x)) = FlattenSeq(s) \o x
<1> DEFINE t == Append(s, x)
<1>1. /\ t \in Seq(Seq(S)) /\ t # <<>> /\ Len(t) = Len(s) + 1
      /\ t[Len(s) + 1] = x /\ \A i \in 1 .. Len(s) : t[i] = s[i]
    BY AppendProperties
<1> HIDE DEF t
<1>2. PICK g \in [1 .. Len(t) -> Seq(S)] : Flat(t, Len(t), g)
    BY <1>1, FlatExists
<1>3. FlattenSeq(t) = g[Len(t)]
    BY <1>1, <1>2, FlattenIs
<1>4. CASE s = <<>>
  <2>1. Len(t) = 1 /\ t[1] = x
      BY <1>1, <1>4, EmptySeq
  <2>2. g[1] = x
      BY <1>2, <2>1 DEF Flat
  <2>3. FlattenSeq(s) = <<>>
      BY <1>4, EmptySeq DEF FlattenSeq
  <2>4. <<>> \o x = x
      BY ConcatEmptySeq
  <2> QED BY <1>3, <2>1, <2>2, <2>3, <2>4 DEF t
<1>5. CASE s # <<>>
  <2>1. Len(s) \in Nat \ {0}
      BY <1>5, EmptySeq
  <2> DEFINE h == [i \in 1 .. Len(s) |-> g[i]]
  <2>2. h \in [1 .. Len(s) -> Seq(S)]
      BY <1>1, <2>1
  <2>3. Flat(s, Len(s), h)
    <3> SUFFICES ASSUME NEW i \in 1 .. Len(s)
                 PROVE  h[i] = IF i = 1 THEN s[i] ELSE h[i - 1] \o s[i]
        BY DEF Flat
    <3>1. i \in 1 .. Len(t) /\ t[i] = s[i] /\ (i # 1 => i - 1 \in 1 .. Len(s))
        BY <1>1, <2>1
    <3> QED BY <1>2, <3>1 DEF Flat
  <2> HIDE DEF h
  <2>4. FlattenSeq(s) = h[Len(s)]
      BY <1>5, <2>2, <2>3, FlattenIs
  <2>5. h[Len(s)] = g[Len(s)]
      BY <2>1 DEF h
  <2>6. g[Len(t)] = g[Len(s)] \o x
    <3>1. Len(t) \in 1 .. Len(t) /\ Len(t) # 1 /\ Len(t) - 1 = Len(s)
        BY <1>1, <2>1
    <3> QED BY <1>1, <1>2, <3>1 DEF Flat
  <2> QED BY <1>3, <2>4, <2>5, <2>6 DEF t
<1> QED BY <1>4, <1>5

\* Sequences behind the others.
LEMMA FlattenConcat ==
    ASSUME NEW S, NEW s \in Seq(Seq(S)), NEW t \in Seq(Seq(S))
    PROVE  FlattenSeq(s \o t) = FlattenSeq(s) \o FlattenSeq(t)
<1> DEFINE P(k) == SubSeq(t, 1, k)
           T == {k \in Nat : FlattenSeq(s \o P(k)) = FlattenSeq(s) \o FlattenSeq(P(k))}
<1>1. Len(t) \in Nat /\ \A i \in 1 .. Len(t) : t[i] \in Seq(S)
    BY ElementOfSeq
<1>2. FlattenSeq(s) \in Seq(S) /\ s \o <<>> = s /\ FlattenSeq(<<>>) = <<>>
  <2>1. FlattenSeq(<<>>) = <<>>
      BY EmptySeq DEF FlattenSeq
  <2> QED BY <2>1, FlattenType, ConcatEmptySeq
<1>3. FlattenSeq(s) \o <<>> = FlattenSeq(s)
    BY <1>2, ConcatEmptySeq
<1>4. ASSUME NEW k \in 1 .. Len(t)
      PROVE  /\ P(k - 1) \in Seq(Seq(S)) /\ P(k) = Append(P(k - 1), t[k])
             /\ s \o P(k) = Append(s \o P(k - 1), t[k])
             /\ s \o P(k - 1) \in Seq(Seq(S)) /\ t[k] \in Seq(S)
  <2>1. \A i \in 1 .. k - 1 : t[i] \in Seq(S)
      BY <1>1
  <2>2. P(k - 1) \in Seq(Seq(S))
      BY <2>1, SubSeqProperties
  <2>3. t[k] \in Seq(S)
      BY <1>1
  <2>4. P(k) = P(k - 1) \o <<t[k]>>
    <3>1. 1 \in 1 .. Len(t) /\ k \in 1 .. Len(t)
        BY <1>1
    <3> QED BY <3>1, SubSeqRecursiveSecond
  <2>5. P(k) = Append(P(k - 1), t[k])
      BY <2>2, <2>3, <2>4, AppendIsConcat
  <2> HIDE DEF P
  <2>6. s \o P(k - 1) \in Seq(Seq(S))
      BY <2>2, ConcatProperties
  <2>7. <<t[k]>> \in Seq(Seq(S))
      BY <2>3
  <2>8. s \o P(k) = (s \o P(k - 1)) \o <<t[k]>>
    <3> DEFINE R == Seq(S)
               u == P(k - 1)
               v == <<t[k]>>
    <3>1. s \in Seq(R) /\ u \in Seq(R) /\ v \in Seq(R)
        BY <2>2, <2>7
    <3>2. P(k) = u \o v
        BY <2>4
    <3> HIDE DEF R, u, v
    <3>3. Cat(Cat(s, u), v) = Cat(s, Cat(u, v))
        BY <3>1, CatAssociative
    <3>4. (s \o u) \o v = s \o (u \o v)
        BY <3>3 DEF Cat
    <3> QED BY <3>2, <3>4 DEF u, v
  <2>9. s \o P(k) = Append(s \o P(k - 1), t[k])
      BY <2>3, <2>6, <2>8, AppendIsConcat
  <2> QED BY <2>2, <2>3, <2>5, <2>6, <2>9
<1>5. P(0) = <<>>
    BY SubSeqEmpty
<1> HIDE DEF P
<1>6. 0 \in T
    BY <1>2, <1>3, <1>5
<1>7. ASSUME NEW k \in 1 .. Len(t), k - 1 \in T PROVE k \in T
  <2>1. FlattenSeq(s \o P(k - 1)) = FlattenSeq(s) \o FlattenSeq(P(k - 1))
      BY <1>7
  <2> HIDE DEF T
  <2>2. FlattenSeq(s \o P(k)) = (FlattenSeq(s) \o FlattenSeq(P(k - 1))) \o t[k]
    <3> DEFINE q == s \o P(k - 1)
    <3>1. q \in Seq(Seq(S)) /\ t[k] \in Seq(S) /\ s \o P(k) = Append(q, t[k])
        BY <1>4
    <3> HIDE DEF q
    <3>2. FlattenSeq(Append(q, t[k])) = FlattenSeq(q) \o t[k]
        BY <3>1, FlattenAppend
    <3> QED BY <2>1, <3>1, <3>2 DEF q
  <2>3. FlattenSeq(P(k)) = FlattenSeq(P(k - 1)) \o t[k]
      BY <1>4, FlattenAppend
  <2>4. FlattenSeq(P(k - 1)) \in Seq(S) /\ t[k] \in Seq(S)
      BY <1>4, FlattenType
  <2>5. FlattenSeq(s \o P(k)) = FlattenSeq(s) \o FlattenSeq(P(k))
    <3>1. \A a, b, c \in Seq(S) : Cat(Cat(a, b), c) = Cat(a, Cat(b, c))
        BY CatAssociative
    <3>2. /\ FlattenSeq(s \o P(k)) = Cat(Cat(FlattenSeq(s), FlattenSeq(P(k - 1))), t[k])
          /\ FlattenSeq(P(k)) = Cat(FlattenSeq(P(k - 1)), t[k])
        BY <2>2, <2>3 DEF Cat
    <3>3. FlattenSeq(s \o P(k)) = Cat(FlattenSeq(s), FlattenSeq(P(k)))
        BY <1>2, <2>4, <3>1, <3>2
    <3> QED BY <3>3 DEF Cat
  <2>6. k \in Nat
      BY <1>1
  <2> QED BY <2>5, <2>6 DEF T
<1> HIDE DEF T
<1>8. ASSUME Len(t) > 0 PROVE Len(t) \in T
  <2>1. 1 \in T
      BY <1>1, <1>6, <1>7, <1>8
  <2>2. \A i \in 1 .. Len(t) : i # 1 /\ i - 1 \in T => i \in T
      BY <1>7
  <2>3. 1 .. Len(t) \subseteq T
      BY <1>1, <2>1, <2>2, ByInduction
  <2>4. Len(t) \in 1 .. Len(t)
      BY <1>1, <1>8
  <2> QED BY <2>3, <2>4
<1>9. Len(t) \in T
    BY <1>1, <1>6, <1>8
<1>10. P(Len(t)) = t
    BY SubSeqFull DEF P
<1> QED BY <1>9, <1>10 DEF T
=============================================================================
