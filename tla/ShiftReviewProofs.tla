-------------------------- MODULE ShiftReviewProofs --------------------------
(***************************************************************************)
(* That what is folded into a document is what was decided, once, and that *)
(* a verdict touches its own change and nothing else, for any texts, any   *)
(* number of windows, changesets and versions, and however running,        *)
(* deciding, saving and finishing interleave.                              *)
(*                                                                         *)
(* The operators of Changesets are loops over the lines of a text, written *)
(* as functions on the number of turns taken.  That such a function exists *)
(* and what it is after each turn (Recursion, Kinds) is had from there     *)
(* being a least number of any (Climb), and from that:                     *)
(*   RoundTrip         the lines of a text, joined, are the text;          *)
(*   DiffIsLaid        the changes of a difference quote the base, in      *)
(*                     order, none into the next;                          *)
(*   MaterialiseReads  for such changes, no two beginning at one place,    *)
(*                     folding from the right is reading from the left.    *)
(* The state's part is the last two sections.                              *)
(***************************************************************************)
EXTENDS ShiftReview, SequenceTheorems, WellFoundedInduction, TLAPS

-----------------------------------------------------------------------------
(* Definitions by recursion over a number.                                 *)

\* A set of numbers that has zero and the next of each it has, has them all.
LEMMA Climb ==
    ASSUME NEW N \in Nat, NEW T, 0 \in T, \A n \in 0 .. N : n \in T /\ n < N => n + 1 \in T
    PROVE  \A n \in 0 .. N : n \in T
  <1> DEFINE Left == {n \in 0 .. N : n \notin T}
  <1> SUFFICES ASSUME Left # {} PROVE FALSE
    OBVIOUS
  <1>1. Left \subseteq Nat
    OBVIOUS
  <1>2. PICK m \in Left : \A n \in Left : ~ (<<n, m>> \in OpToRel(<, Nat))
    <2> HIDE DEF Left
    <2> QED BY <1>1, WFMin, NatLessThanWellFounded, Zenon
  <1>3. \A n \in Left : ~ (n < m)
    BY <1>1, <1>2 DEF OpToRel
  <1>4. m # 0 /\ m - 1 \in 0 .. N /\ m - 1 < N
    OBVIOUS
  <1>5. m - 1 \in T
    BY <1>3, <1>4
  <1>6. m - 1 + 1 \in T
    BY <1>4, <1>5
  <1> QED BY <1>6

\* What f is at each number up to N: first at zero, and then what next makes of
\* what it was before.
Loops(f, N, first, next) ==
    f = [n \in 0 .. N |-> IF n = 0 THEN first ELSE next[n][f[n - 1]]]

\* Of anything that may be, at each number, something of kind[n], there is such
\* a function, and it is of that kind at each.
Keeps(N, kind, first, next) ==
    /\ first \in kind[0]
    /\ \A n \in 1 .. N : \A s \in kind[n - 1] : next[n][s] \in kind[n]

\* There is such a function.
LEMMA Recursion ==
    ASSUME NEW N \in Nat, NEW kind, NEW first, NEW next, Keeps(N, kind, first, next)
    PROVE  \E f : Loops(f, N, first, next)
  <1> DEFINE Short(f, m) == f = [n \in 0 .. m |-> IF n = 0 THEN first ELSE next[n][f[n - 1]]]
             T == {m \in 0 .. N : \E f : Short(f, m)}
  <1>1. 0 \in T
    <2> DEFINE f == [n \in 0 .. 0 |-> first]
    <2>1. \A n \in 0 .. 0 : n = 0 /\ f[n] = first
      OBVIOUS
    <2>2. f = [n \in 0 .. 0 |-> f[n]]
      OBVIOUS
    <2> HIDE DEF f
    <2>3. Short(f, 0)
      BY <2>1, <2>2
    <2> QED BY <2>3
  <1>2. ASSUME NEW m \in 0 .. N, m \in T, m < N PROVE m + 1 \in T
    <2>1. PICK f : Short(f, m)
      BY <1>2
    <2> DEFINE g == [n \in 0 .. m + 1 |-> IF n = m + 1 THEN next[m + 1][f[m]] ELSE f[n]]
    <2>2. ASSUME NEW n \in 0 .. m + 1
          PROVE  g[n] = IF n = 0 THEN first ELSE next[n][g[n - 1]]
      <3>1. CASE n = m + 1
        BY <1>2, <3>1
      <3>2. CASE n = 0
        BY <1>2, <2>1, <3>2
      <3>3. CASE n \in 1 .. m
        <4>1. n \in 0 .. m /\ n # 0 /\ n - 1 \in 0 .. m + 1 /\ n # m + 1 /\ n - 1 # m + 1
          BY <1>2, <3>3
        <4>2. f[n] = next[n][f[n - 1]]
          BY <2>1, <4>1
        <4> QED BY <4>1, <4>2
      <3> QED BY <1>2, <3>1, <3>2, <3>3
    <2>3. Short(g, m + 1)
      <3>1. g = [n \in 0 .. m + 1 |-> g[n]]
        OBVIOUS
      <3> HIDE DEF g
      <3> QED BY <2>2, <3>1
    <2> HIDE DEF Short
    <2> QED BY <1>2, <2>3
  <1> HIDE DEF T
  <1>3. \A m \in 0 .. N : m \in T /\ m < N => m + 1 \in T
    BY <1>2
  <1>4. N \in T
    <2>1. \A m \in 0 .. N : m \in T
      BY <1>1, <1>3, Climb, Zenon
    <2> QED BY <2>1
  <1> QED BY <1>4 DEF T, Loops

\* And it is of its kind at each number.
LEMMA Kinds ==
    ASSUME NEW N \in Nat, NEW kind, NEW first, NEW next, Keeps(N, kind, first, next),
           NEW f, Loops(f, N, first, next)
    PROVE  \A n \in 0 .. N : f[n] \in kind[n]
  <1> DEFINE T == {n \in 0 .. N : f[n] \in kind[n]}
  <1>1. 0 \in T
    BY DEF Keeps, Loops
  <1>2. ASSUME NEW n \in 0 .. N, n \in T, n < N PROVE n + 1 \in T
    <2>1. n + 1 \in 1 .. N /\ n + 1 - 1 = n /\ n + 1 # 0 /\ n + 1 \in 0 .. N
      BY <1>2
    <2>2. f[n + 1] = next[n + 1][f[n]]
      BY <2>1 DEF Loops
    <2> QED BY <1>2, <2>1, <2>2 DEF Keeps
  <1> HIDE DEF T
  <1>3. \A n \in 0 .. N : n \in T
    BY <1>1, <1>2, Climb, Zenon
  <1> QED BY <1>3 DEF T

-----------------------------------------------------------------------------
(* Lines joined into a text.                                               *)

\* The function Text is the last value of.
Joined(lines) ==
    LET joined[k \in 0 .. Len(lines)] ==
          IF k = 0 THEN <<>>
          ELSE joined[k - 1] \o (IF k = 1 THEN <<>> ELSE <<Break>>)
                             \o (IF lines[k] = Blank THEN <<>> ELSE <<lines[k]>>)
    IN  joined

\* What the operators write themselves are words, and a line is not its end.
LEMMA WordsAreWords == Blank \in Words /\ Break \in Words /\ "edited" \in Words /\ Blank # Break
  <1>1. Blank # Break
    BY DEF Blank, Break
  <1> QED BY <1>1 DEF Words

\* What a line, and the gap before line k, are in the text.
Piece(line) == IF line = Blank THEN <<>> ELSE <<line>>
Gap(k) == IF k = 1 THEN <<>> ELSE <<Break>>

\* Both are text.
LEMMA Pieces ==
    ASSUME NEW line \in Words, NEW k
    PROVE  Piece(line) \in Seq(Words) /\ Gap(k) \in Seq(Words) 
  BY WordsAreWords DEF Piece, Gap

\* f is that function.
IsJoined(f, lines) ==
    f = [k \in 0 .. Len(lines) |->
           IF k = 0 THEN <<>> ELSE f[k - 1] \o Gap(k) \o Piece(lines[k])]

\* It exists, and each of its values is a text.
LEMMA JoinedIs ==
    ASSUME NEW lines \in Seq(Words)
    PROVE  /\ IsJoined(Joined(lines), lines)
           /\ \A k \in 0 .. Len(lines) : Joined(lines)[k] \in Seq(Words)
  <1> DEFINE N == Len(lines)
             kind == [n \in 0 .. N |-> Seq(Words)]
             next == [n \in 1 .. N |-> [s \in Seq(Words) |-> s \o Gap(n) \o Piece(lines[n])]]
  <1>0. N \in Nat /\ \A n \in 1 .. N : lines[n] \in Words
    OBVIOUS
  <1>1. ASSUME NEW n \in 1 .. N, NEW s \in Seq(Words)
        PROVE  s \o Gap(n) \o Piece(lines[n]) \in Seq(Words)
    BY <1>0, Pieces, ConcatProperties
  <1>2. Keeps(N, kind, <<>>, next)
    <2>1. kind[0] = Seq(Words) /\ \A n \in 1 .. N : kind[n - 1] = Seq(Words) /\ kind[n]
                = Seq(Words)
      BY <1>0
    <2>2. \A n \in 1 .. N : \A s \in Seq(Words) : next[n][s] = s \o Gap(n) \o Piece(lines[n])
      BY <1>0
    <2> HIDE DEF kind, next
    <2>3. <<>> \in Seq(Words)
      OBVIOUS
    <2> QED BY <1>1, <2>1, <2>2, <2>3 DEF Keeps
  <1>3. ASSUME NEW f
        PROVE  Loops(f, N, <<>>, next) => IsJoined(f, lines)
                /\ \A k \in 0 .. N : f[k] \in Seq(Words)
    <2> SUFFICES ASSUME Loops(f, N, <<>>, next)
                 PROVE  IsJoined(f, lines) /\ \A k \in 0 .. N : f[k] \in Seq(Words)
      OBVIOUS
    <2>1. \A n \in 0 .. N : f[n] \in kind[n]
      <3> HIDE DEF kind, next, N
      <3> QED BY <1>0, <1>2, Kinds
    <2>2. \A n \in 1 .. N : n - 1 \in 0 .. N /\ f[n - 1] \in Seq(Words)
      BY <1>0, <2>1
    <2> QED BY <1>0, <2>1, <2>2 DEF Loops, IsJoined
  <1>4. \E f : IsJoined(f, lines)
    <2>1. \E f : Loops(f, N, <<>>, next)
      <3> HIDE DEF kind, next, N
      <3> QED BY <1>0, <1>2, Recursion
    <2> QED BY <2>1, <1>3
  <1>5. IsJoined(Joined(lines), lines)
    BY <1>4 DEF IsJoined, Joined, Gap, Piece
  <1>6. ASSUME NEW f, IsJoined(f, lines) PROVE \A k \in 0 .. N : f[k] \in Seq(Words)
    <2> DEFINE T == {k \in 0 .. N : f[k] \in Seq(Words)}
    <2>1. 0 \in T
      BY <1>0, <1>6 DEF IsJoined
    <2>2. ASSUME NEW n \in 0 .. N, n \in T, n < N PROVE n + 1 \in T
      <3>1. n + 1 \in 1 .. N /\ n + 1 \in 0 .. N /\ n + 1 # 0 /\ n + 1 - 1 = n
        BY <1>0, <2>2
      <3>2. f[n + 1] = f[n] \o Gap(n + 1) \o Piece(lines[n + 1])
        BY <3>1, <1>6 DEF IsJoined
      <3> QED BY <1>1, <2>2, <3>1, <3>2
    <2> HIDE DEF T
    <2>3. \A n \in 0 .. N : n \in T
      BY <1>0, <2>1, <2>2, Climb, Zenon
    <2> QED BY <2>3 DEF T
  <1> QED BY <1>5, <1>6

\* Lines joined are a text.
LEMMA TextType ==
    ASSUME NEW lines \in Seq(Words) PROVE Text(lines) \in Seq(Words) /\ Len(Text(lines)) \in Nat
  <1>1. Text(lines) = Joined(lines)[Len(lines)]
    BY DEF Text, Joined
  <1>2. Len(lines) \in 0 .. Len(lines)
    OBVIOUS
  <1>3. Text(lines) \in Seq(Words)
    BY <1>1, <1>2, JoinedIs
  <1> QED BY <1>3

\* No lines are no text.
LEMMA TextEmpty == Text(<<>>) = <<>>
  <1>1. <<>> \in Seq(Words) /\ Len(<<>>) = 0 /\ 0 \in 0 .. 0
    OBVIOUS
  <1>2. Text(<<>>) = Joined(<<>>)[0]
    BY <1>1 DEF Text, Joined
  <1> QED BY <1>1, <1>2, JoinedIs DEF IsJoined

\* Line k + 1 is joined to the k before it.
LEMMA JoinStep ==
    ASSUME NEW lines \in Seq(Words), NEW k \in Nat, k < Len(lines)
    PROVE  Joined(lines)[k + 1] = Joined(lines)[k] \o Gap(k + 1) \o Piece(lines[k + 1])
  <1>1. k + 1 \in 0 .. Len(lines) /\ k + 1 # 0 /\ k + 1 - 1 = k
    OBVIOUS
  <1>2. IsJoined(Joined(lines), lines)
    BY JoinedIs
  <1>3. ASSUME NEW f, IsJoined(f, lines)
        PROVE  f[k + 1] = f[k] \o Gap(k + 1) \o Piece(lines[k + 1])
    <2> DEFINE m == k + 1
    <2>1. m \in 1 .. Len(lines) /\ m \in 0 .. Len(lines) /\ m - 1 = k
      OBVIOUS
    <2> HIDE DEF m
    <2>2. f[m] = f[m - 1] \o Gap(m) \o Piece(lines[m])
      BY <1>3, <2>1 DEF IsJoined
    <2> QED BY <2>1, <2>2 DEF m
  <1> QED BY <1>2, <1>3

\* A line more is a break and what is on it.
LEMMA TextStep ==
    ASSUME NEW lines \in Seq(Words), NEW line \in Words
    PROVE  Text(Append(lines, line)) = Text(lines) \o Gap(Len(lines) + 1) \o Piece(line)
  <1> DEFINE more == Append(lines, line)
             N == Len(lines)
             T == {k \in 0 .. N : Joined(more)[k] = Joined(lines)[k]}
  <1>1. /\ more \in Seq(Words) /\ Len(more) = N + 1 /\ N \in Nat
        /\ more[N + 1] = line /\ \A k \in 1 .. N : more[k] = lines[k]
    BY AppendProperties
  <1> HIDE DEF more
  <1>2. IsJoined(Joined(more), more) /\ IsJoined(Joined(lines), lines)
    BY <1>1, JoinedIs
  <1>3. 0 \in T
    BY <1>1, <1>2 DEF IsJoined
  <1>4. ASSUME NEW k \in 0 .. N, k \in T, k < N PROVE k + 1 \in T
    <2>1. /\ k + 1 \in 1 .. N /\ k + 1 \in 0 .. N /\ k + 1 \in 0 .. Len(more)
          /\ k + 1 # 0 /\ k + 1 - 1 = k
      BY <1>1, <1>4
    <2>2. Joined(more)[k + 1] = Joined(more)[k] \o Gap(k + 1) \o Piece(more[k + 1])
      <3>1. k \in Nat /\ k < Len(more)
        BY <1>1, <1>4
      <3> QED BY <1>1, <3>1, JoinStep
    <2>3. Joined(lines)[k + 1] = Joined(lines)[k] \o Gap(k + 1) \o Piece(lines[k + 1])
      <3>1. k \in Nat /\ k < Len(lines)
        BY <1>1, <1>4
      <3> QED BY <3>1, JoinStep
    <2> QED BY <1>1, <1>4, <2>1, <2>2, <2>3
  <1> HIDE DEF T
  <1>5. \A k \in 0 .. N : k \in T
    BY <1>1, <1>3, <1>4, Climb, Zenon
  <1>6. Joined(more)[N] = Joined(lines)[N]
    BY <1>1, <1>5 DEF T
  <1>7. Text(lines) = Joined(lines)[N] /\ Text(more) = Joined(more)[N + 1]
    BY <1>1 DEF Text, Joined
  <1>8. Joined(more)[N + 1] = Joined(more)[N] \o Gap(N + 1) \o Piece(more[N + 1])
    BY <1>1, <1>2 DEF IsJoined
  <1> QED BY <1>1, <1>6, <1>7, <1>8 DEF more

\* The lines from the one after i to j + 1.
LEMMA SubSeqStep ==
    ASSUME NEW lines \in Seq(Words), NEW i \in Nat, NEW j \in i .. Len(lines) - 1
    PROVE  /\ SubSeq(lines, i + 1, j) \in Seq(Words)
           /\ Len(SubSeq(lines, i + 1, j)) = j - i
           /\ SubSeq(lines, i + 1, j + 1) = Append(SubSeq(lines, i + 1, j), lines[j + 1])
           /\ lines[j + 1] \in Words
  <1>1. /\ j + 1 \in i + 1 .. Len(lines) /\ i + 1 \in 1 .. Len(lines) /\ j \in Nat
    OBVIOUS
  <1>2. lines[j + 1] \in Words
    BY <1>1
  <1>3. SubSeq(lines, i + 1, j) \in Seq(Words) /\ Len(SubSeq(lines, i + 1, j)) = j - i
    <2>1. \A k \in i + 1 .. j : lines[k] \in Words
      OBVIOUS
    <2> QED BY <1>1, <2>1, SubSeqProperties
  <1>4. SubSeq(lines, i + 1, j + 1) = SubSeq(lines, i + 1, j) \o <<lines[j + 1]>>
    BY <1>1, SubSeqRecursiveSecond, j + 1 - 1 = j
  <1> QED BY <1>2, <1>3, <1>4, AppendIsConcat

\* What comes before the line after i.
Before(lines, i) == IF i = 0 THEN <<>> ELSE Text(SubSeq(lines, 1, i)) \o <<Break>>

\* A part of a text is a text, as long as its ends are apart.
LEMMA SubSeqType ==
    ASSUME NEW s \in Seq(Words), NEW i \in Nat, NEW j \in Nat, j <= Len(s)
    PROVE  SubSeq(s, i + 1, j) \in Seq(Words) /\ Len(SubSeq(s, i + 1, j)) = (IF i <= j
            THEN j - i ELSE 0)
  <1>1. \A k \in i + 1 .. j : s[k] \in Words
    OBVIOUS
  <1> QED BY <1>1, SubSeqProperties

\* That is where joining the first i has got to.
LEMMA BeforeIs ==
    ASSUME NEW lines \in Seq(Words), NEW i \in 0 .. Len(lines)
    PROVE  Before(lines, i) \in Seq(Words) /\ Len(Before(lines, i)) = StartOf(lines, i)
            /\ StartOf(lines, i) \in Nat
  <1>1. CASE i = 0
    BY <1>1 DEF Before, StartOf
  <1>2. CASE i # 0
    <2>1. SubSeq(lines, 1, i) \in Seq(Words)
      BY SubSeqType, 0 + 1 = 1, 0 \in Nat
    <2>2. Text(SubSeq(lines, 1, i)) \in Seq(Words) /\ Len(Text(SubSeq(lines, 1, i))) \in Nat
      BY <2>1, TextType
    <2>3. StartOf(lines, i) = Len(Text(SubSeq(lines, 1, i))) + 1
      BY <1>2, i - 1 + 1 = i DEF StartOf, EndOf
    <2> QED BY <1>2, <2>2, <2>3, WordsAreWords, ConcatProperties DEF Before
  <1> QED BY <1>1, <1>2

\* The text to line j is what comes before another and the text from there.
LEMMA Slice ==
    ASSUME NEW lines \in Seq(Words), NEW i \in Nat, NEW j \in i + 1 .. Len(lines)
    PROVE  Text(SubSeq(lines, 1, j)) = Before(lines, i) \o Text(SubSeq(lines, i + 1, j))
  <1> DEFINE N == Len(lines) - (i + 1)
             Good(k) == Text(SubSeq(lines, 1, k)) = Before(lines, i)
                     \o Text(SubSeq(lines, i + 1, k))
             T == {d \in 0 .. N : Good(i + 1 + d)}
  <1>0. N \in Nat /\ i \in 0 .. Len(lines) - 1 /\ 0 \in Nat /\ 0 + 1 = 1
    OBVIOUS
  <1>1. Good(i + 1)
    <2>1. /\ SubSeq(lines, 1, i) \in Seq(Words) /\ Len(SubSeq(lines, 1, i)) = i
          /\ SubSeq(lines, 1, i + 1) = Append(SubSeq(lines, 1, i), lines[i + 1])
          /\ lines[i + 1] \in Words
      <3>1. i \in 0 .. Len(lines) - 1 /\ i - 0 = i
        BY <1>0
      <3> QED BY <1>0, <3>1, SubSeqStep
    <2>2. SubSeq(lines, i + 1, i) = <<>>
      BY SubSeqEmpty
    <2>3. SubSeq(lines, i + 1, i + 1) = Append(<<>>, lines[i + 1])
      <3>1. i \in i .. Len(lines) - 1
        BY <1>0
      <3> QED BY <2>2, <3>1, SubSeqStep
    <2>4. Text(SubSeq(lines, i + 1, i + 1)) = Piece(lines[i + 1])
      <3>1. <<>> \in Seq(Words) /\ Len(<<>>) + 1 = 1
        OBVIOUS
      <3>2. Text(Append(<<>>, lines[i + 1])) = Text(<<>>) \o Gap(1) \o Piece(lines[i + 1])
        BY <2>1, <3>1, TextStep
      <3>3. Text(<<>>) \o Gap(1) = <<>>
        BY <3>1, TextEmpty, ConcatEmptySeq DEF Gap
      <3>4. Piece(lines[i + 1]) \in Seq(Words)
        BY <2>1, Pieces
      <3>5. <<>> \o Piece(lines[i + 1]) = Piece(lines[i + 1])
        BY <3>4, ConcatEmptySeq
      <3> QED BY <2>3, <3>2, <3>3, <3>5
    <2>5. Text(SubSeq(lines, 1, i + 1)) = Text(SubSeq(lines, 1, i)) \o Gap(i + 1)
            \o Piece(lines[i + 1])
      BY <2>1, TextStep
    <2>6. Text(SubSeq(lines, 1, i)) \o Gap(i + 1) = Before(lines, i)
      <3>1. CASE i = 0
        <4>1. SubSeq(lines, 1, 0) = <<>>
          BY SubSeqEmpty
        <4>2. <<>> \o <<>> = <<>>
          BY <<>> \in Seq(Words), ConcatEmptySeq
        <4>3. Gap(i + 1) = <<>> /\ Before(lines, i) = <<>>
          BY <3>1 DEF Gap, Before
        <4>4. Text(SubSeq(lines, 1, i)) = <<>>
          BY <3>1, <4>1, TextEmpty
        <4> QED BY <4>2, <4>3, <4>4
      <3>2. CASE i # 0
        BY <3>2 DEF Gap, Before
      <3> QED BY <3>1, <3>2
    <2> QED BY <2>4, <2>5, <2>6
  <1>2. ASSUME NEW d \in 0 .. N, d \in T, d < N PROVE d + 1 \in T
    <2> DEFINE k == i + 1 + d
    <2>1. k \in i .. Len(lines) - 1 /\ k \in 0 .. Len(lines) - 1 /\ k > i /\ Good(k) /\ k \in Nat
      BY <1>0, <1>2
    <2> HIDE DEF k
    <2>2. /\ SubSeq(lines, i + 1, k) \in Seq(Words) /\ Len(SubSeq(lines, i + 1, k)) = k - i
          /\ SubSeq(lines, i + 1, k + 1) = Append(SubSeq(lines, i + 1, k), lines[k + 1])
          /\ lines[k + 1] \in Words
      BY <2>1, SubSeqStep
    <2>3. /\ SubSeq(lines, 1, k) \in Seq(Words) /\ Len(SubSeq(lines, 1, k)) = k - 0
          /\ SubSeq(lines, 1, k + 1) = Append(SubSeq(lines, 1, k), lines[k + 1])
      BY <1>0, <2>1, SubSeqStep
    <2> DEFINE a == Before(lines, i)
               b == Text(SubSeq(lines, i + 1, k))
               c == Piece(lines[k + 1])
    <2>4. Text(SubSeq(lines, i + 1, k + 1)) = b \o <<Break>> \o c
      <3>1. Gap(k - i + 1) = <<Break>>
        BY <2>1 DEF Gap
      <3> QED BY <2>2, <3>1, TextStep
    <2>5. Text(SubSeq(lines, 1, k + 1)) = Text(SubSeq(lines, 1, k)) \o <<Break>> \o c
      <3>1. Gap(k - 0 + 1) = <<Break>>
        BY <2>1 DEF Gap
      <3> QED BY <2>2, <2>3, <3>1, TextStep
    <2>6. a \in Seq(Words) /\ b \in Seq(Words) /\ c \in Seq(Words) /\ <<Break>> \in Seq(Words)
      <3>1. i \in 0 .. Len(lines)
        BY <1>0
      <3>2. a \in Seq(Words)
        BY <3>1, BeforeIs
      <3>3. b \in Seq(Words)
        BY <2>2, TextType
      <3>4. c \in Seq(Words)
        BY <2>2, Pieces
      <3> QED BY <3>2, <3>3, <3>4, WordsAreWords
    <2>7. Text(SubSeq(lines, 1, k)) = a \o b
      BY <2>1
    <2> HIDE DEF a, b, c
    <2>8. (a \o b) \o <<Break>> \o c = a \o (b \o <<Break>> \o c)
      BY <2>6
    <2>9. Good(k + 1)
      BY <2>4, <2>5, <2>7, <2>8 DEF a
    <2> QED BY <1>2, <2>9 DEF k
  <1>3. 0 \in T
    BY <1>0, <1>1
  <1> HIDE DEF T, N
  <1>4. \A d \in 0 .. N : d \in T
    BY <1>0, <1>2, <1>3, Climb, Zenon
  <1>5. j - (i + 1) \in 0 .. N /\ i + 1 + (j - (i + 1)) = j
    BY DEF N
  <1> QED BY <1>4, <1>5 DEF T

-----------------------------------------------------------------------------
(* A text split into lines.                                                *)

\* What a text splits into: never nothing.
TextLines == Seq(Words) \ {<<>>}

\* What a line becomes at one more token.
Token(lines, token) ==
    IF token = Break THEN Append(lines, Blank) ELSE [lines EXCEPT ![Len(lines)] = token]

\* Lines stay lines.
LEMMA TokenType ==
    ASSUME NEW lines \in TextLines, NEW token \in Words
    PROVE  Token(lines, token) \in TextLines
  <1>0. lines \in Seq(Words) /\ Len(lines) \in 1 .. Len(lines) /\ Len(lines) \in Nat
    BY EmptySeq DEF TextLines
  <1>1. Append(lines, Blank) \in TextLines
    BY <1>0, WordsAreWords, AppendProperties DEF TextLines
  <1>2. [lines EXCEPT ![Len(lines)] = token] \in Seq(Words)
        /\ Len([lines EXCEPT ![Len(lines)] = token]) = Len(lines)
    BY <1>0, ExceptSeq
  <1>3. [lines EXCEPT ![Len(lines)] = token] \in TextLines
    BY <1>0, <1>2, EmptySeq DEF TextLines
  <1> QED BY <1>1, <1>3 DEF Token

\* The function LinesOf is the last value of.
Reads(text) ==
    LET read[n \in 0 .. Len(text)] ==
          IF n = 0 THEN <<Blank>>
          ELSE IF text[n] = Break THEN Append(read[n - 1], Blank)
          ELSE [read[n - 1] EXCEPT ![Len(read[n - 1])] = text[n]]
    IN  read

\* f is that function.
IsRead(f, text) ==
    f = [n \in 0 .. Len(text) |-> IF n = 0 THEN <<Blank>> ELSE Token(f[n - 1], text[n])]

\* It exists, and each of its values is lines.
LEMMA ReadIs ==
    ASSUME NEW text \in Seq(Words)
    PROVE  /\ IsRead(Reads(text), text)
           /\ \A k \in 0 .. Len(text) : Reads(text)[k] \in TextLines
  <1> DEFINE N == Len(text)
             kind == [n \in 0 .. N |-> TextLines]
             next == [n \in 1 .. N |-> [s \in TextLines |-> Token(s, text[n])]]
  <1>0. N \in Nat /\ <<Blank>> \in TextLines /\ \A n \in 1 .. N : text[n] \in Words
    BY WordsAreWords DEF TextLines
  <1>2. Keeps(N, kind, <<Blank>>, next)
    <2>1. kind[0] = TextLines /\ \A n \in 1 .. N : kind[n - 1] = TextLines /\ kind[n] = TextLines
      BY <1>0
    <2>2. \A n \in 1 .. N : \A s \in TextLines : next[n][s] = Token(s, text[n])
      BY <1>0
    <2> HIDE DEF kind, next
    <2> QED BY <1>0, <2>1, <2>2, TokenType DEF Keeps
  <1>3. ASSUME NEW f PROVE Loops(f, N, <<Blank>>, next) => IsRead(f, text)
    <2> SUFFICES ASSUME Loops(f, N, <<Blank>>, next) PROVE IsRead(f, text)
      OBVIOUS
    <2>1. \A n \in 0 .. N : f[n] \in kind[n]
      <3> HIDE DEF kind, next, N
      <3> QED BY <1>0, <1>2, Kinds
    <2>2. \A n \in 1 .. N : n - 1 \in 0 .. N /\ f[n - 1] \in TextLines
      BY <1>0, <2>1
    <2>3. \A n \in 1 .. N : next[n][f[n - 1]] = Token(f[n - 1], text[n])
      BY <2>2
    <2> DEFINE a(n) == IF n = 0 THEN <<Blank>> ELSE next[n][f[n - 1]]
               b(n) == IF n = 0 THEN <<Blank>> ELSE Token(f[n - 1], text[n])
    <2> HIDE DEF next
    <2>4. \A n \in 0 .. N : a(n) = b(n)
      BY <1>0, <2>3
    <2>5. f = [n \in 0 .. N |-> a(n)]
      BY DEF Loops
    <2>6. f = [n \in 0 .. N |-> b(n)]
      <3> HIDE DEF a, b
      <3> QED BY <2>4, <2>5
    <2> QED BY <2>6 DEF IsRead
  <1>4. \E f : IsRead(f, text)
    <2>1. \E f : Loops(f, N, <<Blank>>, next)
      <3> HIDE DEF kind, next, N
      <3> QED BY <1>0, <1>2, Recursion
    <2> QED BY <2>1, <1>3
  <1>5. IsRead(Reads(text), text)
    BY <1>4 DEF IsRead, Reads, Token
  <1>6. ASSUME NEW f, IsRead(f, text) PROVE \A k \in 0 .. N : f[k] \in TextLines
    <2> DEFINE T == {k \in 0 .. N : f[k] \in TextLines}
    <2>1. 0 \in T
      BY <1>0, <1>6 DEF IsRead
    <2>2. ASSUME NEW n \in 0 .. N, n \in T, n < N PROVE n + 1 \in T
      <3>1. n + 1 \in 1 .. N /\ n + 1 \in 0 .. N /\ n + 1 # 0 /\ n + 1 - 1 = n
        BY <1>0, <2>2
      <3>2. f[n + 1] = Token(f[n], text[n + 1])
        BY <3>1, <1>6 DEF IsRead
      <3> QED BY <1>0, TokenType, <2>2, <3>1, <3>2
    <2> HIDE DEF T
    <2>3. \A n \in 0 .. N : n \in T
      BY <1>0, <2>1, <2>2, Climb, Zenon
    <2> QED BY <2>3 DEF T
  <1> QED BY <1>5, <1>6

\* One token more is read as Token says.
LEMMA ReadStep ==
    ASSUME NEW text \in Seq(Words), NEW k \in Nat, k < Len(text)
    PROVE  Reads(text)[k + 1] = Token(Reads(text)[k], text[k + 1])
  <1>1. IsRead(Reads(text), text)
    BY ReadIs
  <1>2. ASSUME NEW f, IsRead(f, text) PROVE f[k + 1] = Token(f[k], text[k + 1])
    <2> DEFINE m == k + 1
    <2>1. m \in 1 .. Len(text) /\ m \in 0 .. Len(text) /\ m - 1 = k
      OBVIOUS
    <2> HIDE DEF m
    <2> DEFINE e(n) == IF n = 0 THEN <<Blank>> ELSE Token(f[n - 1], text[n])
    <2>2. f[m] = Token(f[m - 1], text[m])
      <3>1. f = [n \in 0 .. Len(text) |-> e(n)]
        BY <1>2 DEF IsRead
      <3>2. e(m) = Token(f[m - 1], text[m])
        BY <2>1
      <3> HIDE DEF e
      <3> QED BY <2>1, <3>1, <3>2
    <2> QED BY <2>1, <2>2 DEF m
  <1> QED BY <1>1, <1>2

\* A text splits into lines.
LEMMA LinesOfType ==
    ASSUME NEW text \in Seq(Words) PROVE LinesOf(text) \in TextLines
  <1>1. LinesOf(text) = Reads(text)[Len(text)]
    BY DEF LinesOf, Reads
  <1>2. Len(text) \in 0 .. Len(text)
    OBVIOUS
  <1> QED BY <1>1, <1>2, ReadIs

\* A token added to a text is read after the rest.
LEMMA LinesOfStep ==
    ASSUME NEW text \in Seq(Words), NEW token \in Words
    PROVE  LinesOf(Append(text, token)) = Token(LinesOf(text), token)
  <1> DEFINE more == Append(text, token)
             N == Len(text)
             T == {k \in 0 .. N : Reads(more)[k] = Reads(text)[k]}
  <1>1. /\ more \in Seq(Words) /\ Len(more) = N + 1 /\ N \in Nat
        /\ more[N + 1] = token /\ \A k \in 1 .. N : more[k] = text[k]
    BY AppendProperties
  <1> HIDE DEF more
  <1>2. IsRead(Reads(more), more) /\ IsRead(Reads(text), text)
    BY <1>1, ReadIs
  <1>3. 0 \in T
    BY <1>1, <1>2 DEF IsRead
  <1>4. ASSUME NEW k \in 0 .. N, k \in T, k < N PROVE k + 1 \in T
    <2>1. k + 1 \in 1 .. N /\ k + 1 \in 0 .. N
      BY <1>1, <1>4
    <2>2. Reads(more)[k + 1] = Token(Reads(more)[k], more[k + 1])
      <3>1. k \in Nat /\ k < Len(more)
        BY <1>1, <1>4
      <3> QED BY <1>1, <3>1, ReadStep
    <2>3. Reads(text)[k + 1] = Token(Reads(text)[k], text[k + 1])
      <3>1. k \in Nat /\ k < Len(text)
        BY <1>1, <1>4
      <3> QED BY <3>1, ReadStep
    <2> QED BY <1>1, <1>4, <2>1, <2>2, <2>3
  <1> HIDE DEF T
  <1>5. \A k \in 0 .. N : k \in T
    BY <1>1, <1>3, <1>4, Climb, Zenon
  <1>6. Reads(more)[N] = Reads(text)[N]
    BY <1>1, <1>5 DEF T
  <1>7. LinesOf(text) = Reads(text)[N] /\ LinesOf(more) = Reads(more)[N + 1]
    BY <1>1 DEF LinesOf, Reads
  <1>8. Reads(more)[N + 1] = Token(Reads(more)[N], more[N + 1])
    <2>1. N \in Nat /\ N < Len(more)
      BY <1>1
    <2> QED BY <1>1, <2>1, ReadStep
  <1> QED BY <1>1, <1>6, <1>7, <1>8 DEF more

\* The empty text is one empty line.
LEMMA LinesOfEmpty == LinesOf(<<>>) = <<Blank>>
  <1>1. <<>> \in Seq(Words) /\ Len(<<>>) = 0 /\ 0 \in 0 .. 0
    OBVIOUS
  <1>2. LinesOf(<<>>) = Reads(<<>>)[0]
    BY <1>1 DEF LinesOf, Reads
  <1> QED BY <1>1, <1>2, ReadIs DEF IsRead

\* What is on a line added to a text is read back as one.
LEMMA ReadsALine ==
    ASSUME NEW text \in Seq(Words), NEW s \in Seq(Words), NEW line \in Words, line # Break,
           LinesOf(text) = Append(s, Blank)
    PROVE  LinesOf(text \o Piece(line)) = Append(s, line)
  <1>1. CASE line = Blank
    BY <1>1, ConcatEmptySeq DEF Piece
  <1>2. CASE line # Blank
    <2>1. text \o Piece(line) = Append(text, line)
      BY <1>2, AppendIsConcat DEF Piece
    <2>2. LinesOf(text \o Piece(line)) = [Append(s, Blank) EXCEPT ![Len(Append(s, Blank))] = line]
      BY <2>1, LinesOfStep DEF Token
    <2> DEFINE a == Append(s, Blank)
               b == Append(s, line)
               c == [a EXCEPT ![Len(a)] = line]
    <2>3. /\ a \in Seq(Words) /\ Len(a) = Len(s) + 1 /\ Len(s) \in Nat
          /\ \A k \in 1 .. Len(s) : a[k] = s[k]
      BY WordsAreWords, AppendProperties
    <2>4. /\ b \in Seq(Words) /\ Len(b) = Len(s) + 1
          /\ \A k \in 1 .. Len(s) : b[k] = s[k]
          /\ b[Len(s) + 1] = line
      BY AppendProperties
    <2> HIDE DEF a, b
    <2>5. /\ c \in Seq(Words) /\ Len(c) = Len(a)
          /\ \A j \in 1 .. Len(a) : c[j] = IF j = Len(a) THEN line ELSE a[j]
      <3>1. Len(a) \in 1 .. Len(a)
        BY <2>3
      <3> QED BY <2>3, <3>1, ExceptSeq
    <2> HIDE DEF c
    <2>6. ASSUME NEW j \in 1 .. Len(c) PROVE c[j] = b[j]
      <3>1. j \in 1 .. Len(a) /\ Len(a) = Len(s) + 1
        BY <2>3, <2>5
      <3>2. c[j] = IF j = Len(a) THEN line ELSE a[j]
        BY <2>5, <3>1
      <3>3. CASE j = Len(a)
        BY <2>4, <3>1, <3>2, <3>3
      <3>4. CASE j # Len(a)
        <4>1. j \in 1 .. Len(s)
          BY <2>3, <3>1, <3>4
        <4> QED BY <2>3, <2>4, <3>2, <3>4, <4>1
      <3> QED BY <3>3, <3>4
    <2>7. c = b
      BY <2>3, <2>4, <2>5, <2>6, SeqEqual
    <2> QED BY <2>2, <2>7 DEF a, b, c
  <1> QED BY <1>1, <1>2

\* The lines of a text are the lines it was made of.
LEMMA RoundTrip ==
    ASSUME NEW lines \in Seq(Words), \A i \in 1 .. Len(lines) : lines[i] # Break
    PROVE  Text(LinesOf(Text(lines))) = Text(lines)
  <1>1. CASE lines = <<>>
    <2>1. <<Blank>> = Append(<<>>, Blank) /\ <<>> \in Seq(Words) /\ Len(<<>>) + 1 = 1
      OBVIOUS
    <2>2. Text(Append(<<>>, Blank)) = Text(<<>>) \o Gap(1) \o Piece(Blank)
      BY <2>1, TextStep, WordsAreWords
    <2>3. Text(<<>>) = <<>> /\ Gap(1) = <<>> /\ Piece(Blank) = <<>> /\ <<>> \o <<>> = <<>>
      BY <2>1, TextEmpty, ConcatEmptySeq DEF Gap, Piece
    <2> QED BY <1>1, <2>1, <2>2, <2>3, LinesOfEmpty
  <1>2. CASE lines # <<>>
    <2> DEFINE N == Len(lines) - 1
               Upto(k) == SubSeq(lines, 1, k)
               T == {d \in 0 .. N : LinesOf(Text(Upto(d + 1))) = Upto(d + 1)}
    <2>0. N \in Nat /\ Len(lines) \in Nat \ {0} /\ 0 \in Nat /\ 0 + 1 = 1
      BY <1>2, EmptySeq
    <2>a. ASSUME NEW k \in 0 .. N
          PROVE  /\ Upto(k) \in Seq(Words) /\ Len(Upto(k)) = k
                 /\ Upto(k + 1) = Append(Upto(k), lines[k + 1])
                 /\ lines[k + 1] \in Words /\ lines[k + 1] # Break
                 /\ Text(Upto(k + 1)) = Text(Upto(k)) \o Gap(k + 1) \o Piece(lines[k + 1])
                 /\ Text(Upto(k)) \in Seq(Words)
      <3>1. k \in 0 .. Len(lines) - 1 /\ k - 0 = k /\ k + 1 \in 1 .. Len(lines)
        BY <2>0
      <3>2. /\ Upto(k) \in Seq(Words) /\ Len(Upto(k)) = k
            /\ Upto(k + 1) = Append(Upto(k), lines[k + 1]) /\ lines[k + 1] \in Words
        BY <2>0, <3>1, SubSeqStep
      <3> HIDE DEF Upto
      <3>3. Text(Append(Upto(k), lines[k + 1])) = Text(Upto(k)) \o Gap(k + 1) \o Piece(lines[k + 1])
        BY <3>2, TextStep
      <3> QED BY <3>1, <3>2, <3>3, TextType
    <2>1. 0 \in T
      <3>1. Upto(0) = <<>>
        BY SubSeqEmpty
      <3>2. Text(Upto(0)) \o Gap(1) = <<>>
        BY <3>1, TextEmpty, <<>> \in Seq(Words), ConcatEmptySeq DEF Gap
      <3>3. LinesOf(<<>>) = Append(<<>>, Blank)
        BY LinesOfEmpty
      <3>4. 0 \in 0 .. N
        BY <2>0
      <3>5. /\ Upto(0 + 1) = Append(Upto(0), lines[0 + 1])
            /\ lines[0 + 1] \in Words /\ lines[0 + 1] # Break
            /\ Text(Upto(0 + 1)) = Text(Upto(0)) \o Gap(0 + 1) \o Piece(lines[0 + 1])
        BY <2>a, <3>4
      <3>6. LinesOf(<<>> \o Piece(lines[1])) = Append(<<>>, lines[1])
        BY <2>0, <3>3, <3>5, ReadsALine, <<>> \in Seq(Words)
      <3> HIDE DEF Upto
      <3>7. LinesOf(Text(Upto(0 + 1))) = Upto(0 + 1)
        BY <2>0, <3>1, <3>2, <3>5, <3>6
      <3> QED BY <3>4, <3>7
    <2>2. ASSUME NEW d \in 0 .. N, d \in T, d < N PROVE d + 1 \in T
      <3> DEFINE k == d + 1
      <3>1. k \in 0 .. N /\ k \in Nat /\ k # 0
        BY <2>0, <2>2
      <3>2. LinesOf(Text(Upto(k))) = Upto(k)
        BY <2>2
      <3> HIDE DEF k, Upto
      <3>3. LinesOf(Append(Text(Upto(k)), Break)) = Append(Upto(k), Blank)
        BY <2>a, <3>1, <3>2, LinesOfStep, WordsAreWords DEF Token
      <3>4. Append(Text(Upto(k)), Break) \in Seq(Words)
        BY <2>a, <3>1, WordsAreWords, AppendProperties
      <3>5. Text(Upto(k)) \o Gap(k + 1) = Append(Text(Upto(k)), Break)
        <4>1. Gap(k + 1) = <<Break>>
          BY <3>1 DEF Gap
        <4> QED BY <2>a, <3>1, <4>1, WordsAreWords, AppendIsConcat
      <3>6. LinesOf(Append(Text(Upto(k)), Break) \o Piece(lines[k + 1]))
              = Append(Upto(k), lines[k + 1])
        BY <2>a, <3>1, <3>3, <3>4, ReadsALine
      <3>7. LinesOf(Text(Upto(k + 1))) = Upto(k + 1)
        BY <2>a, <3>1, <3>5, <3>6
      <3> QED BY <2>0, <2>2, <3>7 DEF k
    <2> HIDE DEF T
    <2>3. \A d \in 0 .. N : d \in T
      <3> HIDE DEF N
      <3> QED BY <2>0, <2>1, <2>2, Climb, Zenon
    <2>4. Upto(N + 1) = lines
      <3>1. N + 1 = Len(lines)
        BY <2>0
      <3> QED BY <3>1, SubSeqFull
    <2>5. LinesOf(Text(Upto(N + 1))) = Upto(N + 1)
      <3>1. N \in T
        BY <2>0, <2>3
      <3> HIDE DEF N, Upto
      <3> QED BY <3>1 DEF T
    <2> QED BY <2>4, <2>5
  <1> QED BY <1>1, <1>2

-----------------------------------------------------------------------------
(* The blocks that differ, one after the other.                            *)

\* A block of lines of either side.
Block == [aStart : Nat, aEnd : Nat, bStart : Nat, bEnd : Nat]

\* Blocks in their order, none into the next, up to line n of the one and m of the other.
InOrder(blocks, n, m) ==
    /\ blocks \in Seq(Block)
    /\ \A k \in 1 .. Len(blocks) :
          /\ blocks[k].aStart <= blocks[k].aEnd /\ blocks[k].aEnd <= n
          /\ blocks[k].bStart <= blocks[k].bEnd /\ blocks[k].bEnd <= m
    /\ \A k, l \in 1 .. Len(blocks) : k < l => blocks[k].aEnd <= blocks[l].aStart

\* Closing a block that opened behind the last one keeps them in order.
LEMMA CloseInOrder ==
    ASSUME NEW blocks, NEW o1 \in Nat, NEW o2 \in Nat, NEW i \in Nat, NEW j \in Nat, NEW m \in Nat,
           InOrder(blocks, o1, m), o1 <= i, o2 <= j, j <= m
    PROVE  InOrder(blocks \o Closed(<<o1, o2>>, i, j), i, m)
  <1>1. CASE <<o1, o2>> = <<i, j>>
    <2>1. blocks \o Closed(<<o1, o2>>, i, j) = blocks
      BY <1>1, ConcatEmptySeq DEF Closed, InOrder
    <2> QED BY <1>1, <2>1 DEF InOrder
  <1>2. CASE <<o1, o2>> # <<i, j>>
    <2> DEFINE last == [aStart |-> o1, aEnd |-> i, bStart |-> o2, bEnd |-> j]
               more == Append(blocks, last)
    <2>1. last \in Block
      BY DEF Block
    <2>2. blocks \o Closed(<<o1, o2>>, i, j) = more
      BY <1>2, <2>1, AppendIsConcat DEF Closed, InOrder
    <2> HIDE DEF last
    <2>3. /\ more \in Seq(Block) /\ Len(more) = Len(blocks) + 1 /\ Len(blocks) \in Nat
          /\ \A k \in 1 .. Len(blocks) : more[k] = blocks[k]
          /\ more[Len(blocks) + 1] = last
      BY <2>1, AppendProperties DEF InOrder
    <2>4. last.aStart = o1 /\ last.aEnd = i /\ last.bStart = o2 /\ last.bEnd = j
      BY DEF last
    <2>5. \A k \in 1 .. Len(blocks) : blocks[k] \in Block
      BY DEF InOrder
    <2> HIDE DEF more
    <2>6. ASSUME NEW k \in 1 .. Len(more)
          PROVE  /\ more[k].aStart <= more[k].aEnd /\ more[k].aEnd <= i
                 /\ more[k].bStart <= more[k].bEnd /\ more[k].bEnd <= m
                 /\ k <= Len(blocks) => more[k].aEnd <= o1
      <3>1. CASE k \in 1 .. Len(blocks)
        <4>1. more[k] = blocks[k] /\ k <= Len(blocks)
          BY <2>3, <3>1
        <4>2. /\ blocks[k].aStart <= blocks[k].aEnd /\ blocks[k].aEnd <= o1
              /\ blocks[k].bStart <= blocks[k].bEnd /\ blocks[k].bEnd <= m
          BY <3>1 DEF InOrder
        <4>3. blocks[k].aEnd \in Nat
          BY <2>5, <3>1 DEF Block
        <4>4. blocks[k].aEnd <= i
          BY <4>2, <4>3
        <4> QED BY <4>1, <4>2, <4>4
      <3>2. CASE k = Len(blocks) + 1
        BY <2>3, <2>4, <3>2
      <3> QED BY <2>3, <3>1, <3>2
    <2>7. ASSUME NEW k \in 1 .. Len(more), NEW l \in 1 .. Len(more), k < l
          PROVE  more[k].aEnd <= more[l].aStart
      <3>1. CASE l \in 1 .. Len(blocks)
        <4>1. k \in 1 .. Len(blocks)
          BY <2>3, <2>7, <3>1
        <4> QED BY <2>3, <2>7, <3>1, <4>1 DEF InOrder
      <3>2. CASE l = Len(blocks) + 1
        BY <2>3, <2>4, <2>6, <2>7, <3>2
      <3> QED BY <2>3, <3>1, <3>2
    <2> QED BY <2>2, <2>3, <2>6, <2>7 DEF InOrder
  <1> QED BY <1>1, <1>2

\* Where the walk of two texts may be.
Walk(a, b) ==
    {at \in [i : 0 .. Len(a), j : 0 .. Len(b), open : Nat \X Nat, blocks : Seq(Block)] :
        /\ at.open[1] <= at.i /\ at.open[2] <= at.j
        /\ InOrder(at.blocks, at.open[1], Len(b))}

\* A turn of the walk leaves where it stands, and what it has closed, in order.
LEMMA WalkedType ==
    ASSUME NEW a \in Seq(Words), NEW b \in Seq(Words), NEW at \in Walk(a, b)
    PROVE  Walked(a, b, at) \in Walk(a, b)
  <1>1. /\ at \in [i : 0 .. Len(a), j : 0 .. Len(b), open : Nat \X Nat, blocks : Seq(Block)]
        /\ at.open[1] <= at.i /\ at.open[2] <= at.j
        /\ InOrder(at.blocks, at.open[1], Len(b))
        /\ at.i \in 0 .. Len(a) /\ at.j \in 0 .. Len(b) /\ Len(a) \in Nat /\ Len(b) \in Nat
        /\ at.open[1] \in Nat /\ at.open[2] \in Nat /\ at.open = <<at.open[1], at.open[2]>>
    BY DEF Walk
  <1>2. CASE at.i = Len(a) \/ at.j = Len(b)
    BY <1>2 DEF Walked
  <1>3. CASE ~ (at.i = Len(a) \/ at.j = Len(b)) /\ a[at.i + 1] = b[at.j + 1]
    <2> DEFINE i == at.i + 1
               j == at.j + 1
               made == at.blocks \o Closed(at.open, at.i, at.j)
               to == [i |-> i, j |-> j, open |-> <<i, j>>, blocks |-> made]
    <2>1. Walked(a, b, at) = to
      BY <1>3 DEF Walked
    <2>2. InOrder(made, at.i, Len(b))
      <3>1. InOrder(at.blocks \o Closed(<<at.open[1], at.open[2]>>, at.i, at.j), at.i, Len(b))
        BY <1>1, CloseInOrder
      <3> QED BY <1>1, <3>1
    <2> HIDE DEF made
    <2>3. i \in 0 .. Len(a) /\ j \in 0 .. Len(b) /\ i \in Nat /\ j \in Nat
      BY <1>1, <1>3
    <2>4. InOrder(made, i, Len(b))
      <3>1. \A k \in 1 .. Len(made) : made[k] \in Block
        BY <2>2 DEF InOrder
      <3>2. \A k \in 1 .. Len(made) : made[k].aEnd <= at.i => made[k].aEnd <= i
        BY <1>1, <3>1 DEF Block
      <3> QED BY <2>2, <3>2 DEF InOrder
    <2>5. made \in Seq(Block)
      BY <2>2 DEF InOrder
    <2> HIDE DEF i, j
    <2> QED BY <2>1, <2>3, <2>4, <2>5 DEF Walk
  <1>4. ASSUME NEW i \in 0 .. Len(a), NEW j \in 0 .. Len(b), at.i <= i, at.j <= j
        PROVE  [at EXCEPT !.i = i] \in Walk(a, b) /\ [at EXCEPT !.j = j] \in Walk(a, b)
    <2> DEFINE x == [at EXCEPT !.i = i]
               y == [at EXCEPT !.j = j]
    <2>1. /\ x \in [i : 0 .. Len(a), j : 0 .. Len(b), open : Nat \X Nat, blocks : Seq(Block)]
          /\ y \in [i : 0 .. Len(a), j : 0 .. Len(b), open : Nat \X Nat, blocks : Seq(Block)]
          /\ x.i = i /\ x.j = at.j /\ x.open = at.open /\ x.blocks = at.blocks
          /\ y.i = at.i /\ y.j = j /\ y.open = at.open /\ y.blocks = at.blocks
      BY <1>1
    <2> HIDE DEF x, y
    <2>2. at.open[1] <= i /\ at.open[2] <= j
      BY <1>1, <1>4
    <2>3. x \in Walk(a, b)
      BY <1>1, <2>1, <2>2 DEF Walk
    <2>4. y \in Walk(a, b)
      BY <1>1, <2>1, <2>2 DEF Walk
    <2> QED BY <2>3, <2>4 DEF x, y
  <1>5. CASE ~ (at.i = Len(a) \/ at.j = Len(b)) /\ a[at.i + 1] # b[at.j + 1]
    <2>1. at.i + 1 \in 0 .. Len(a) /\ at.j + 1 \in 0 .. Len(b) /\ at.i <= at.i + 1
            /\ at.j <= at.j + 1
          /\ at.i \in 0 .. Len(a) /\ at.j \in 0 .. Len(b) /\ at.i <= at.i /\ at.j <= at.j
      BY <1>1, <1>5
    <2>2. [at EXCEPT !.i = at.i + 1] \in Walk(a, b) /\ [at EXCEPT !.j = at.j + 1] \in Walk(a, b)
      BY <1>4, <2>1
    <2>3. Walked(a, b, at) \in {[at EXCEPT !.i = at.i + 1], [at EXCEPT !.j = at.j + 1]}
      BY <1>5 DEF Walked
    <2> QED BY <2>2, <2>3
  <1> QED BY <1>2, <1>3, <1>5

\* The function ChangedBlocks is made from the last value of.
Walks(a, b) ==
    LET walk[n \in 0 .. Len(a) + Len(b)] ==
          IF n = 0 THEN [i |-> 0, j |-> 0, open |-> <<0, 0>>, blocks |-> <<>>]
          ELSE Walked(a, b, walk[n - 1])
    IN  walk

\* Where the walk begins.
Standing == [i |-> 0, j |-> 0, open |-> <<0, 0>>, blocks |-> <<>>]

\* f is that function.
IsWalk(f, a, b) ==
    f = [n \in 0 .. Len(a) + Len(b) |-> IF n = 0 THEN Standing ELSE Walked(a, b, f[n - 1])]

\* It exists, and it stands in order after every turn.
LEMMA WalkIs ==
    ASSUME NEW a \in Seq(Words), NEW b \in Seq(Words)
    PROVE  \A n \in 0 .. Len(a) + Len(b) : Walks(a, b)[n] \in Walk(a, b)
  <1> DEFINE N == Len(a) + Len(b)
             K == Walk(a, b)
             kind == [n \in 0 .. N |-> K]
             next == [n \in 1 .. N |-> [s \in K |-> Walked(a, b, s)]]
  <1>0. N \in Nat /\ Standing \in K
    <2>1. InOrder(<<>>, 0, Len(b))
      BY DEF InOrder
    <2>2. /\ Standing.i = 0 /\ Standing.j = 0 /\ Standing.open = <<0, 0>> /\ Standing.blocks = <<>>
          /\ Standing \in [i : 0 .. Len(a), j : 0 .. Len(b), open : Nat \X Nat, blocks : Seq(Block)]
      BY DEF Standing
    <2> QED BY <2>1, <2>2 DEF Walk
  <1>2. Keeps(N, kind, Standing, next)
    <2>1. kind[0] = K /\ \A n \in 1 .. N : kind[n - 1] = K /\ kind[n] = K
      BY <1>0
    <2>2. \A n \in 1 .. N : \A s \in K : next[n][s] = Walked(a, b, s)
      BY <1>0
    <2>3. \A s \in K : Walked(a, b, s) \in K
      BY WalkedType
    <2> HIDE DEF kind, next, K
    <2> QED BY <1>0, <2>1, <2>2, <2>3 DEF Keeps
  <1>3. ASSUME NEW f PROVE Loops(f, N, Standing, next) => IsWalk(f, a, b)
    <2> SUFFICES ASSUME Loops(f, N, Standing, next) PROVE IsWalk(f, a, b)
      OBVIOUS
    <2>1. \A n \in 0 .. N : f[n] \in kind[n]
      <3> HIDE DEF kind, next, N
      <3> QED BY <1>0, <1>2, Kinds
    <2>2. \A n \in 1 .. N : n - 1 \in 0 .. N /\ f[n - 1] \in K
      BY <1>0, <2>1
    <2>3. \A n \in 1 .. N : next[n][f[n - 1]] = Walked(a, b, f[n - 1])
      BY <2>2
    <2> DEFINE x(n) == IF n = 0 THEN Standing ELSE next[n][f[n - 1]]
               y(n) == IF n = 0 THEN Standing ELSE Walked(a, b, f[n - 1])
    <2> HIDE DEF next
    <2>4. \A n \in 0 .. N : x(n) = y(n)
      BY <1>0, <2>3
    <2>5. f = [n \in 0 .. N |-> x(n)]
      BY DEF Loops
    <2>6. f = [n \in 0 .. N |-> y(n)]
      <3> HIDE DEF x, y
      <3> QED BY <2>4, <2>5
    <2> QED BY <2>6 DEF IsWalk
  <1>4. \E f : IsWalk(f, a, b)
    <2>1. \E f : Loops(f, N, Standing, next)
      <3> HIDE DEF kind, next, N
      <3> QED BY <1>0, <1>2, Recursion
    <2> QED BY <2>1, <1>3
  <1>5. IsWalk(Walks(a, b), a, b)
    BY <1>4 DEF IsWalk, Walks, Standing
  <1>6. ASSUME NEW f, IsWalk(f, a, b) PROVE \A k \in 0 .. N : f[k] \in K
    <2> DEFINE T == {k \in 0 .. N : f[k] \in K}
    <2>1. 0 \in T
      BY <1>0, <1>6 DEF IsWalk
    <2>2. ASSUME NEW n \in 0 .. N, n \in T, n < N PROVE n + 1 \in T
      <3>1. n + 1 \in 1 .. N /\ n + 1 \in 0 .. N /\ n + 1 # 0 /\ n + 1 - 1 = n
        BY <1>0, <2>2
      <3>2. f[n + 1] = Walked(a, b, f[n])
        BY <3>1, <1>6 DEF IsWalk
      <3> QED BY <1>0, WalkedType, <2>2, <3>1, <3>2
    <2> HIDE DEF T
    <2>3. \A n \in 0 .. N : n \in T
      BY <1>0, <2>1, <2>2, Climb, Zenon
    <2> QED BY <2>3 DEF T
  <1> QED BY <1>5, <1>6

\* The blocks of two texts stand apart and in order.
LEMMA BlocksInOrder ==
    ASSUME NEW a \in Seq(Words), NEW b \in Seq(Words)
    PROVE  InOrder(ChangedBlocks(a, b), Len(a), Len(b))
  <1> DEFINE at == Walks(a, b)[Len(a) + Len(b)]
  <1>1. ChangedBlocks(a, b) = at.blocks \o Closed(at.open, Len(a), Len(b))
    BY DEF ChangedBlocks, Walks
  <1>2. Len(a) \in Nat /\ Len(b) \in Nat /\ Len(a) + Len(b) \in 0 .. Len(a) + Len(b)
    OBVIOUS
  <1>3. at \in Walk(a, b)
    BY <1>2, WalkIs
  <1> HIDE DEF at
  <1>4. /\ at.open = <<at.open[1], at.open[2]>> /\ at.open[1] \in Nat /\ at.open[2] \in Nat
        /\ at.open[1] <= Len(a) /\ at.open[2] <= Len(b)
        /\ InOrder(at.blocks, at.open[1], Len(b))
    <2>1. /\ at \in [i : 0 .. Len(a), j : 0 .. Len(b), open : Nat \X Nat, blocks : Seq(Block)]
          /\ at.open[1] <= at.i /\ at.open[2] <= at.j
          /\ InOrder(at.blocks, at.open[1], Len(b))
      BY <1>3 DEF Walk
    <2>2. at.i \in 0 .. Len(a) /\ at.j \in 0 .. Len(b) /\ at.open \in Nat \X Nat
      BY <2>1
    <2> QED BY <1>2, <2>1, <2>2
  <1>5. InOrder(at.blocks \o Closed(<<at.open[1], at.open[2]>>, Len(a), Len(b)), Len(a), Len(b))
    BY <1>2, <1>4, CloseInOrder
  <1> QED BY <1>1, <1>4, <1>5

-----------------------------------------------------------------------------
(* The change of a block, where it quotes the text.                        *)

\* What stands between two sequences.
LEMMA Middle ==
    ASSUME NEW a \in Seq(Words), NEW b \in Seq(Words), NEW c \in Seq(Words)
    PROVE  SubSeq((a \o b) \o c, Len(a) + 1, Len(a) + Len(b)) = b
  <1> DEFINE s == (a \o b) \o c
             m == SubSeq(s, Len(a) + 1, Len(a) + Len(b))
  <1>1. /\ Len(a) \in Nat /\ Len(b) \in Nat /\ Len(c) \in Nat /\ a \o b \in Seq(Words)
        /\ Len(a \o b) = Len(a) + Len(b)
        /\ s \in Seq(Words) /\ Len(s) = Len(a) + Len(b) + Len(c)
    BY ConcatProperties
  <1>2. \A i \in 1 .. Len(b) : s[Len(a) + i] = b[i]
    <2> SUFFICES ASSUME NEW i \in 1 .. Len(b) PROVE s[Len(a) + i] = b[i]
      OBVIOUS
    <2>1. Len(a) + i \in 1 .. Len(a) + Len(b) /\ Len(a) + i \in 1 .. Len(a \o b) + Len(c)
      BY <1>1
    <2>2. s[Len(a) + i] = (a \o b)[Len(a) + i]
      BY <1>1, <2>1, ConcatProperties
    <2>3. (a \o b)[Len(a) + i] = b[i]
      BY <1>1, <2>1, ConcatProperties
    <2> QED BY <2>2, <2>3
  <1> HIDE DEF s
  <1>3. /\ m \in Seq(Words) /\ Len(m) = Len(b)
        /\ \A i \in 1 .. Len(b) : m[i] = s[Len(a) + i]
    <2>1. \A i \in Len(a) + 1 .. Len(a) + Len(b) : s[i] \in Words
      BY <1>1
    <2>2. /\ m \in Seq(Words)
          /\ Len(m) = IF Len(a) + 1 <= Len(a) + Len(b)
                  THEN Len(a) + Len(b) - (Len(a) + 1) + 1 ELSE 0
          /\ \A i \in 1 .. Len(a) + Len(b) - (Len(a) + 1) + 1 : m[i] = s[Len(a) + 1 + i - 1]
      BY <1>1, <2>1, SubSeqProperties
    <2>3. Len(a) + Len(b) - (Len(a) + 1) + 1 = Len(b)
            /\ \A i \in 1 .. Len(b) : Len(a) + 1 + i - 1 = Len(a) + i
      BY <1>1
    <2> QED BY <1>1, <2>2, <2>3
  <1> HIDE DEF m
  <1>4. m = b
    <2>1. \A i \in 1 .. Len(m) : m[i] = b[i]
      BY <1>2, <1>3
    <2> QED BY <1>3, <2>1, SeqEqual
  <1> QED BY <1>4 DEF m, s

\* Where the first k lines end.
EndAfter(lines, k) == Len(Text(SubSeq(lines, 1, k)))

\* The text before a line begins where the line does.
LEMMA Upto ==
    ASSUME NEW lines \in Seq(Words), NEW k \in 0 .. Len(lines)
    PROVE  /\ SubSeq(lines, 1, k) \in Seq(Words) /\ Text(SubSeq(lines, 1, k)) \in Seq(Words)
           /\ EndAfter(lines, k) \in Nat
           /\ EndOf(lines, k - 1) = EndAfter(lines, k)
           /\ k > 0 => StartOf(lines, k) = EndAfter(lines, k) + 1
  <1>1. SubSeq(lines, 1, k) \in Seq(Words)
    BY SubSeqType, 0 \in Nat, 0 + 1 = 1
  <1>2. Text(SubSeq(lines, 1, k)) \in Seq(Words) /\ EndAfter(lines, k) \in Nat
    BY <1>1, TextType DEF EndAfter
  <1>3. EndOf(lines, k - 1) = EndAfter(lines, k)
    <2>1. k - 1 + 1 = k
      OBVIOUS
    <2> QED BY <2>1 DEF EndOf, EndAfter
  <1>4. k > 0 => StartOf(lines, k) = EndAfter(lines, k) + 1
    BY <1>3 DEF StartOf
  <1> QED BY <1>1, <1>2, <1>3, <1>4

\* What is left of a text after its first lines.
LEMMA Rest ==
    ASSUME NEW lines \in Seq(Words), NEW k \in 1 .. Len(lines)
    PROVE  \E rest \in Seq(Words) : Text(lines) = Text(SubSeq(lines, 1, k)) \o rest
  <1> DEFINE t == Text(SubSeq(lines, 1, k))
  <1>1. t \in Seq(Words)
    <2>1. k \in 0 .. Len(lines)
      OBVIOUS
    <2> QED BY <2>1, Upto
  <1>0. SubSeq(lines, 1, Len(lines)) = lines
    BY SubSeqFull
  <1>2. CASE k = Len(lines)
    <2>1. Text(lines) = t
      BY <1>0, <1>2
    <2> HIDE DEF t
    <2>2. t = t \o <<>> /\ <<>> \in Seq(Words)
      BY <1>1, ConcatEmptySeq
    <2> QED BY <2>1, <2>2 DEF t
  <1>3. CASE k < Len(lines)
    <2> DEFINE u == Text(SubSeq(lines, k + 1, Len(lines)))
    <2>1. u \in Seq(Words)
      <3>1. SubSeq(lines, k + 1, Len(lines)) \in Seq(Words)
        BY SubSeqType
      <3> QED BY <3>1, TextType
    <2>2. Text(lines) = Before(lines, k) \o u
      <3>1. k \in Nat /\ Len(lines) \in k + 1 .. Len(lines)
        BY <1>3
      <3> QED BY <1>0, <3>1, Slice
    <2>3. Before(lines, k) = t \o <<Break>>
      BY DEF Before
    <2> HIDE DEF t, u
    <2>4. <<Break>> \in Seq(Words) /\ (t \o <<Break>>) \o u = t \o (<<Break>> \o u)
          /\ <<Break>> \o u \in Seq(Words)
      <3>1. <<Break>> \in Seq(Words)
        BY WordsAreWords
      <3>2. <<Break>> \o u \in Seq(Words)
        BY <2>1, <3>1, ConcatProperties
      <3>3. (t \o <<Break>>) \o u = t \o (<<Break>> \o u)
        BY <1>1, <2>1, <3>1, ConcatAssociative
      <3> QED BY <3>1, <3>2, <3>3
    <2> QED BY <2>2, <2>3, <2>4 DEF t
  <1> QED BY <1>2, <1>3

\* The lines from the one after i to j stand in the text from where the one begins to
\* where the other ends.
LEMMA Stands ==
    ASSUME NEW lines \in Seq(Words), NEW i \in Nat, NEW j \in i + 1 .. Len(lines)
    PROVE  /\ Text(SubSeq(lines, i + 1, j))
            = SubSeq(Text(lines), StartOf(lines, i) + 1, EndAfter(lines, j))
           /\ StartOf(lines, i) \in Nat /\ EndAfter(lines, j) \in Nat
           /\ StartOf(lines, i) <= EndAfter(lines, j)
           /\ EndAfter(lines, j) <= Len(Text(lines))
  <1> DEFINE a == Before(lines, i)
             b == Text(SubSeq(lines, i + 1, j))
             t == Text(SubSeq(lines, 1, j))
  <1>1. i \in 0 .. Len(lines) /\ j \in 1 .. Len(lines) /\ j \in Nat /\ j \in 0 .. Len(lines)
    OBVIOUS
  <1>2. a \in Seq(Words) /\ Len(a) = StartOf(lines, i) /\ StartOf(lines, i) \in Nat
    BY <1>1, BeforeIs
  <1>3. b \in Seq(Words)
    <2>1. SubSeq(lines, i + 1, j) \in Seq(Words)
      BY <1>1, SubSeqType
    <2> QED BY <2>1, TextType
  <1>4. t = a \o b
    BY Slice
  <1>5. PICK c \in Seq(Words) : Text(lines) = t \o c
    BY <1>1, Rest
  <1>6. EndAfter(lines, j) = Len(t)
    BY DEF EndAfter
  <1> HIDE DEF a, b, t
  <1>7. Len(t) = Len(a) + Len(b) /\ Len(Text(lines)) = Len(t) + Len(c) /\ Len(a) \in Nat
          /\ Len(b) \in Nat
        /\ Len(c) \in Nat
    <2>1. Len(a) \in Nat /\ Len(b) \in Nat /\ Len(c) \in Nat
      BY <1>2, <1>3
    <2>2. t \in Seq(Words) /\ Len(t) = Len(a) + Len(b)
      BY <1>2, <1>3, <1>4, ConcatProperties
    <2>3. Len(Text(lines)) = Len(t) + Len(c)
      BY <1>5, <2>2, ConcatProperties
    <2> QED BY <2>1, <2>2, <2>3
  <1>8. b = SubSeq(Text(lines), Len(a) + 1, Len(a) + Len(b))
    <2>1. Text(lines) = (a \o b) \o c
      BY <1>4, <1>5
    <2>2. SubSeq((a \o b) \o c, Len(a) + 1, Len(a) + Len(b)) = b
      BY <1>2, <1>3, Middle
    <2> QED BY <2>1, <2>2, Zenon
  <1> QED BY <1>2, <1>6, <1>7, <1>8 DEF b

\* Lines further on begin and end further on.
LEMMA FurtherOn ==
    ASSUME NEW lines \in Seq(Words), NEW i \in Nat, NEW j \in i .. Len(lines)
    PROVE  /\ j < Len(lines) => StartOf(lines, i) <= StartOf(lines, j)
           /\ 0 < i => EndAfter(lines, i) <= EndAfter(lines, j)
           /\ 0 < i /\ j < Len(lines) => EndAfter(lines, i) <= StartOf(lines, j)
           /\ StartOf(lines, i) \in Nat /\ StartOf(lines, j) \in Nat
           /\ EndAfter(lines, i) \in Nat /\ EndAfter(lines, j) \in Nat
  <1>1. i \in 0 .. Len(lines) /\ j \in 0 .. Len(lines)
    OBVIOUS
  <1>2. /\ StartOf(lines, i) \in Nat /\ StartOf(lines, j) \in Nat
        /\ EndAfter(lines, i) \in Nat /\ EndAfter(lines, j) \in Nat
        /\ i > 0 => StartOf(lines, i) = EndAfter(lines, i) + 1
        /\ j > 0 => StartOf(lines, j) = EndAfter(lines, j) + 1
    BY <1>1, BeforeIs, Upto
  <1>3. CASE i = j
    BY <1>2, <1>3
  <1>4. CASE i < j
    <2>1. j \in i + 1 .. Len(lines)
      BY <1>4
    <2>2. StartOf(lines, i) <= EndAfter(lines, j)
      BY <2>1, Stands
    <2> QED BY <1>2, <1>4, <2>2
  <1> QED BY <1>3, <1>4

-----------------------------------------------------------------------------
\* A block that is within both texts, and of some width in one.
InBase(block, lines, other) ==
    /\ block \in Block
    /\ block.aStart <= block.aEnd /\ block.aEnd <= Len(lines)
    /\ block.bStart <= block.bEnd /\ block.bEnd <= Len(other)

\* A change, with its offsets in the text.
Change == [start : Nat, end : Nat, exact : Seq(Words), replacement : Seq(Words)]

\* A change quotes the text at the place it gives.
Quotes(change, text) ==
    /\ change \in Change
    /\ change.start <= change.end /\ change.end <= Len(text)
    /\ change.exact = SubSeq(text, change.start + 1, change.end)

\* A block's change quotes the text where it stands.
LEMMA ChangeQuotes ==
    ASSUME NEW base \in TextLines, NEW proposed \in Seq(Words), NEW block, InBase(block, base,
           proposed)
    PROVE  Quotes(ChangeOf(base, proposed, block), Text(base))
  <1> DEFINE c == ChangeOf(base, proposed, block)
             N == Len(base)
  <1>1. /\ base \in Seq(Words) /\ N \in Nat \ {0} /\ block.aStart \in Nat /\ block.aEnd \in Nat
        /\ block.bStart \in Nat /\ block.bEnd \in Nat
        /\ block.aStart <= block.aEnd /\ block.aEnd <= N
        /\ block.bStart <= block.bEnd /\ block.bEnd <= Len(proposed)
    BY EmptySeq DEF TextLines, InBase, Block
  <1>2. Text(SubSeq(base, block.aStart + 1, block.aEnd)) \in Seq(Words)
        /\ Text(SubSeq(proposed, block.bStart + 1, block.bEnd)) \in Seq(Words)
    <2>1. SubSeq(base, block.aStart + 1, block.aEnd) \in Seq(Words)
      BY <1>1, SubSeqType
    <2>2. SubSeq(proposed, block.bStart + 1, block.bEnd) \in Seq(Words)
      BY <1>1, SubSeqType
    <2> QED BY <2>1, <2>2, TextType
  <1>3. c.exact = Text(SubSeq(base, block.aStart + 1, block.aEnd))
        /\ c.replacement = Text(SubSeq(proposed, block.bStart + 1, block.bEnd))
    BY DEF ChangeOf
  <1>4. Len(Text(base)) = EndAfter(base, N)
    BY <1>1, SubSeqFull DEF EndAfter
  <1>5. EndOf(base, N - 1) = EndAfter(base, N) /\ EndAfter(base, N) \in Nat
    BY <1>1, Upto, N \in 0 .. N
  <1>6. CASE block.aStart = block.aEnd
    <2>1. c.exact = <<>>
      <3>1. SubSeq(base, block.aStart + 1, block.aEnd) = <<>>
        BY <1>1, <1>6, SubSeqEmpty
      <3> QED BY <1>3, <3>1, TextEmpty
    <2>2. c.end = c.start
      BY <1>1, <1>6 DEF ChangeOf
    <2>3. c.start \in Nat /\ c.start <= Len(Text(base))
      <3>1. CASE block.aStart < N
        <4>1. c.start = StartOf(base, block.aStart)
          BY <3>1 DEF ChangeOf
        <4>2. block.aStart + 1 \in block.aStart + 1 .. N
          BY <1>1, <3>1
        <4>3. /\ StartOf(base, block.aStart) \in Nat
              /\ EndAfter(base, block.aStart + 1) \in Nat
              /\ StartOf(base, block.aStart) <= EndAfter(base, block.aStart + 1)
              /\ EndAfter(base, block.aStart + 1) <= Len(Text(base))
          BY <1>1, <4>2, Stands
        <4> QED BY <1>4, <1>5, <4>1, <4>3
      <3>2. CASE ~ (block.aStart < N)
        BY <1>4, <1>5, <3>2 DEF ChangeOf
      <3> QED BY <3>1, <3>2
    <2>4. SubSeq(Text(base), c.start + 1, c.end) = <<>>
      BY <2>2, <2>3, SubSeqEmpty
    <2>5. c \in Change
      BY <1>2, <1>3, <2>2, <2>3 DEF ChangeOf, Change
    <2> QED BY <2>1, <2>2, <2>3, <2>4, <2>5 DEF Quotes
  <1>7. CASE block.aStart < block.aEnd
    <2>1. c.start = StartOf(base, block.aStart) /\ c.end = EndOf(base, block.aEnd - 1)
      BY <1>1, <1>7 DEF ChangeOf
    <2>2. c.end = EndAfter(base, block.aEnd)
      BY <1>1, <2>1, Upto, block.aEnd \in 0 .. N
    <2>3. /\ c.exact = SubSeq(Text(base), c.start + 1, c.end)
          /\ c.start \in Nat /\ c.end \in Nat /\ c.start <= c.end /\ c.end <= Len(Text(base))
      <3>1. block.aEnd \in block.aStart + 1 .. N
        BY <1>1, <1>7
      <3> HIDE DEF c, N
      <3>2. /\ Text(SubSeq(base, block.aStart + 1, block.aEnd))
                 = SubSeq(Text(base), StartOf(base, block.aStart) + 1, EndAfter(base, block.aEnd))
            /\ StartOf(base, block.aStart) \in Nat /\ EndAfter(base, block.aEnd) \in Nat
            /\ StartOf(base, block.aStart) <= EndAfter(base, block.aEnd)
            /\ EndAfter(base, block.aEnd) <= Len(Text(base))
        BY <1>1, <3>1, Stands DEF N
      <3> QED BY <1>3, <2>1, <2>2, <3>2
    <2>4. c \in Change
      BY <1>2, <1>3, <2>3 DEF ChangeOf, Change
    <2> QED BY <2>3, <2>4 DEF Quotes
  <1> QED BY <1>1, <1>6, <1>7

\* Of two blocks in order, the change of the one ends before that of the other begins.
LEMMA ChangesApart ==
    ASSUME NEW base \in TextLines, NEW proposed \in Seq(Words), NEW p, NEW q,
           InBase(p, base, proposed), InBase(q, base, proposed), p.aEnd <= q.aStart
    PROVE  ChangeOf(base, proposed, p).end <= ChangeOf(base, proposed, q).start
  <1> DEFINE c == ChangeOf(base, proposed, p)
             d == ChangeOf(base, proposed, q)
             N == Len(base)
  <1>1. /\ base \in Seq(Words) /\ N \in Nat \ {0} /\ N \in 0 .. N
        /\ p.aStart \in Nat /\ p.aEnd \in Nat /\ q.aStart \in Nat /\ q.aEnd \in Nat
        /\ p.aStart <= p.aEnd /\ p.aEnd <= q.aStart /\ q.aStart <= q.aEnd /\ q.aEnd <= N
    BY EmptySeq DEF TextLines, InBase, Block
  <1>2. EndOf(base, N - 1) = EndAfter(base, N) /\ EndAfter(base, N) \in Nat
          /\ EndAfter(base, N) = Len(Text(base))
    <2>1. EndAfter(base, N) = Len(Text(base))
      BY <1>1, SubSeqFull DEF EndAfter
    <2> QED BY <1>1, <2>1, Upto
  <1>3. CASE q.aStart = N
    <2>1. d.start = Len(Text(base))
      BY <1>2, <1>3 DEF ChangeOf
    <2> QED BY <2>1, ChangeQuotes DEF Quotes
  <1>4. CASE q.aStart < N
    <2>1. d.start = StartOf(base, q.aStart)
      BY <1>4 DEF ChangeOf
    <2>2. CASE p.aStart < p.aEnd
      <3>1. c.end = EndOf(base, p.aEnd - 1)
        BY <2>2 DEF ChangeOf
      <3>2. c.end = EndAfter(base, p.aEnd)
        BY <1>1, <3>1, Upto, p.aEnd \in 0 .. N
      <3>3. q.aStart \in p.aEnd .. N /\ 0 < p.aEnd
        BY <1>1, <2>2
      <3>4. EndAfter(base, p.aEnd) <= StartOf(base, q.aStart)
        BY <1>1, <1>4, <3>3, FurtherOn
      <3> QED BY <2>1, <3>2, <3>4
    <2>3. CASE p.aStart = p.aEnd
      <3>1. c.end = StartOf(base, p.aStart)
        BY <1>1, <1>4, <2>3 DEF ChangeOf
      <3>2. q.aStart \in p.aStart .. N
        BY <1>1
      <3> QED BY <1>1, <1>4, <2>1, <3>1, <3>2, FurtherOn
    <2> QED BY <1>1, <2>2, <2>3
  <1> QED BY <1>1, <1>3, <1>4

-----------------------------------------------------------------------------
(* The difference of two texts.                                            *)

\* Changes of a text, each where it quotes, none into the next.
Laid(changes, text) ==
    /\ changes \in Seq(Change)
    /\ \A k \in 1 .. Len(changes) : Quotes(changes[k], text)
    /\ \A k, l \in 1 .. Len(changes) : k < l => changes[k].end <= changes[l].start

\* One more to the right of all of them.
LEMMA LaidMore ==
    ASSUME NEW changes, NEW text, NEW c, Laid(changes, text), Quotes(c, text),
           \A k \in 1 .. Len(changes) : changes[k].end <= c.start
    PROVE  /\ Laid(Append(changes, c), text)
           /\ \A k \in 1 .. Len(Append(changes, c)) :
                 Append(changes, c)[k]
                         = c \/ \E l \in 1 .. Len(changes) : Append(changes, c)[k] = changes[l]
  <1> DEFINE more == Append(changes, c)
             N == Len(changes)
  <1>1. changes \in Seq(Change) /\ c \in Change
    BY DEF Laid, Quotes
  <1>2. /\ more \in Seq(Change) /\ Len(more) = N + 1 /\ N \in Nat
        /\ \A k \in 1 .. N : more[k] = changes[k]
        /\ more[N + 1] = c
    BY <1>1, AppendProperties
  <1> HIDE DEF more
  <1>3. \A k \in 1 .. Len(more) : k \in 1 .. N \/ k = N + 1
    BY <1>2
  <1>4. ASSUME NEW k \in 1 .. Len(more) PROVE Quotes(more[k], text)
    BY <1>2, <1>3 DEF Laid
  <1>5. ASSUME NEW k \in 1 .. Len(more), NEW l \in 1 .. Len(more), k < l
        PROVE  more[k].end <= more[l].start
    <2>1. k \in 1 .. N
      BY <1>2, <1>5
    <2>2. CASE l \in 1 .. N
      BY <1>2, <1>5, <2>1, <2>2 DEF Laid
    <2>3. CASE l = N + 1
      BY <1>2, <2>1, <2>3
    <2> QED BY <1>3, <2>2, <2>3
  <1>6. Laid(more, text)
    BY <1>2, <1>4, <1>5 DEF Laid
  <1>7. \A k \in 1 .. Len(more) : more[k] = c \/ \E l \in 1 .. N : more[k] = changes[l]
    BY <1>2, <1>3
  <1> QED BY <1>6, <1>7 DEF more

\* One change more, unless it reads the same on both sides.
Sift(changes, c) == IF c.exact = c.replacement THEN changes ELSE Append(changes, c)

\* What is made of the first n blocks ends before the change of any later one.
Sifted(ch, N, text, n) ==
    {changes \in Seq(Change) :
        /\ Laid(changes, text)
        /\ \A k \in 1 .. Len(changes), m \in n + 1 .. N : changes[k].end <= ch[m].start}

\* N changes of a text, in their order.
InLine(ch, N, text) ==
    /\ \A m \in 1 .. N : Quotes(ch[m], text)
    /\ \A p, q \in 1 .. N : p < q => ch[p].end <= ch[q].start

\* Leaving one out, or adding it, keeps them in line.
LEMMA SiftKeeps ==
    ASSUME NEW ch, NEW N \in Nat, NEW text, InLine(ch, N, text), NEW n \in 1 .. N,
           NEW changes \in Sifted(ch, N, text, n - 1)
    PROVE  Sift(changes, ch[n]) \in Sifted(ch, N, text, n)
  <1>1. /\ changes \in Seq(Change) /\ Laid(changes, text)
        /\ \A k \in 1 .. Len(changes), m \in n .. N : changes[k].end <= ch[m].start
    <2>1. n - 1 + 1 = n
      OBVIOUS
    <2> QED BY <2>1 DEF Sifted
  <1>2. /\ Quotes(ch[n], text) /\ n \in n .. N
        /\ \A m \in n + 1 .. N : m \in 1 .. N /\ m \in n .. N /\ ch[n].end <= ch[m].start
    BY DEF InLine
  <1>3. CASE ch[n].exact = ch[n].replacement
    BY <1>1, <1>2, <1>3 DEF Sift, Sifted
  <1>4. CASE ch[n].exact # ch[n].replacement
    <2> DEFINE more == Append(changes, ch[n])
    <2>1. /\ Laid(more, text)
          /\ \A k \in 1 .. Len(more) : more[k] = ch[n] \/ \E l \in 1 .. Len(changes) : more[k]
                  = changes[l]
      BY <1>1, <1>2, LaidMore
    <2>2. Sift(changes, ch[n]) = more
      BY <1>4 DEF Sift
    <2> HIDE DEF more
    <2>3. \A k \in 1 .. Len(more), m \in n + 1 .. N : more[k].end <= ch[m].start
      BY <1>1, <1>2, <2>1
    <2>4. more \in Seq(Change)
      BY <2>1 DEF Laid
    <2> QED BY <2>1, <2>2, <2>3, <2>4 DEF Sifted
  <1> QED BY <1>3, <1>4

\* The function Diff is the last value of.
Made(base, proposed) ==
    LET blocks == ChangedBlocks(base, proposed)
        made[n \in 0 .. Len(blocks)] ==
          IF n = 0 THEN <<>>
          ELSE LET c == ChangeOf(base, proposed, blocks[n])
               IN  IF c.exact = c.replacement THEN made[n - 1] ELSE Append(made[n - 1], c)
    IN  made

\* The change of each block.
Changed(base, proposed) ==
    [k \in 1 .. Len(ChangedBlocks(base, proposed)) |->
        ChangeOf(base, proposed, ChangedBlocks(base, proposed)[k])]

\* f is that function, of the changes of all blocks.
IsMade(f, ch, N) == f = [n \in 0 .. N |-> IF n = 0 THEN <<>> ELSE Sift(f[n - 1], ch[n])]

\* It exists, and its values are changes in line.
LEMMA MadeIs ==
    ASSUME NEW N \in Nat, NEW ch, NEW text, InLine(ch, N, text)
    PROVE  /\ \E f : IsMade(f, ch, N)
           /\ \A f : IsMade(f, ch, N) => \A n \in 0 .. N : f[n] \in Sifted(ch, N, text, n)
  <1> DEFINE K(n) == Sifted(ch, N, text, n)
             kind == [n \in 0 .. N |-> K(n)]
             next == [n \in 1 .. N |-> [s \in K(n - 1) |-> Sift(s, ch[n])]]
  <1>0. N \in Nat /\ <<>> \in K(0)
    <2>1. <<>> \in Seq(Change) /\ Len(<<>>) = 0
      OBVIOUS
    <2>2. Laid(<<>>, text)
      BY <2>1 DEF Laid
    <2> QED BY <2>1, <2>2 DEF Sifted
  <1>1. \A n \in 1 .. N : \A s \in K(n - 1) : Sift(s, ch[n]) \in K(n)
    BY SiftKeeps
  <1>2. Keeps(N, kind, <<>>, next)
    <2> HIDE DEF K
    <2>1. kind[0] = K(0) /\ \A n \in 1 .. N : kind[n - 1] = K(n - 1) /\ kind[n] = K(n)
      BY <1>0
    <2>2. \A n \in 1 .. N : \A s \in K(n - 1) : next[n][s] = Sift(s, ch[n])
      BY <1>0
    <2> HIDE DEF kind, next
    <2> QED BY <1>0, <1>1, <2>1, <2>2 DEF Keeps
  <1>3. ASSUME NEW f PROVE Loops(f, N, <<>>, next) => IsMade(f, ch, N)
    <2> SUFFICES ASSUME Loops(f, N, <<>>, next) PROVE IsMade(f, ch, N)
      OBVIOUS
    <2>1. \A n \in 0 .. N : f[n] \in kind[n]
      <3> HIDE DEF kind, next
      <3> QED BY <1>0, <1>2, Kinds
    <2> HIDE DEF K
    <2>2. \A n \in 1 .. N : n - 1 \in 0 .. N /\ f[n - 1] \in K(n - 1)
      BY <1>0, <2>1
    <2>3. \A n \in 1 .. N : next[n][f[n - 1]] = Sift(f[n - 1], ch[n])
      BY <2>2
    <2> DEFINE x(n) == IF n = 0 THEN <<>> ELSE next[n][f[n - 1]]
               y(n) == IF n = 0 THEN <<>> ELSE Sift(f[n - 1], ch[n])
    <2> HIDE DEF next
    <2>4. \A n \in 0 .. N : x(n) = y(n)
      BY <1>0, <2>3
    <2>5. f = [n \in 0 .. N |-> x(n)]
      BY DEF Loops
    <2>6. f = [n \in 0 .. N |-> y(n)]
      <3> HIDE DEF x, y
      <3> QED BY <2>4, <2>5
    <2> QED BY <2>6 DEF IsMade
  <1>4. \E f : IsMade(f, ch, N)
    <2>1. \E f : Loops(f, N, <<>>, next)
      <3> HIDE DEF kind, next
      <3> QED BY <1>0, <1>2, Recursion
    <2> QED BY <2>1, <1>3
  <1>6. ASSUME NEW f, IsMade(f, ch, N) PROVE \A k \in 0 .. N : f[k] \in K(k)
    <2> DEFINE T == {k \in 0 .. N : f[k] \in K(k)}
    <2> HIDE DEF K
    <2>1. 0 \in T
      BY <1>0, <1>6 DEF IsMade
    <2>2. ASSUME NEW n \in 0 .. N, n \in T, n < N PROVE n + 1 \in T
      <3> DEFINE m == n + 1
      <3>1. m \in 1 .. N /\ m \in 0 .. N /\ m # 0 /\ m - 1 = n
        BY <1>0, <2>2
      <3> HIDE DEF m
      <3>2. f[m] = Sift(f[m - 1], ch[m])
        BY <3>1, <1>6 DEF IsMade
      <3>3. m \in T
        BY <1>1, <2>2, <3>1, <3>2
      <3> QED BY <3>3 DEF m
    <2> HIDE DEF T
    <2>3. \A n \in 0 .. N : n \in T
      BY <1>0, <2>1, <2>2, Climb, Zenon
    <2> QED BY <2>3 DEF T
  <1> QED BY <1>4, <1>6

\* The changes of a text are laid on it.
LEMMA DiffIsLaid ==
    ASSUME NEW base \in TextLines, NEW proposed \in Seq(Words)
    PROVE  Laid(Diff(base, proposed), Text(base))
  <1> DEFINE blocks == ChangedBlocks(base, proposed)
             N == Len(blocks)
             ch == Changed(base, proposed)
             f == Made(base, proposed)
  <1>0. base \in Seq(Words)
    BY DEF TextLines
  <1>1. InOrder(blocks, Len(base), Len(proposed))
    BY <1>0, BlocksInOrder
  <1>2. N \in Nat /\ \A k \in 1 .. N : ch[k] = ChangeOf(base, proposed, blocks[k])
    BY <1>1 DEF InOrder, Changed
  <1>3. \A k \in 1 .. N : InBase(blocks[k], base, proposed)
    <2> HIDE DEF blocks
    <2> QED BY <1>1 DEF InOrder, InBase
  <1>4. InLine(ch, N, Text(base))
    <2>1. \A m \in 1 .. N : Quotes(ch[m], Text(base))
      BY <1>2, <1>3, ChangeQuotes
    <2>2. ASSUME NEW p \in 1 .. N, NEW q \in 1 .. N, p < q PROVE ch[p].end <= ch[q].start
      <3>1. blocks[p].aEnd <= blocks[q].aStart
        BY <1>1, <2>2 DEF InOrder
      <3> QED BY <1>2, <1>3, <3>1, ChangesApart
    <2> QED BY <2>1, <2>2 DEF InLine
  <1>5. \E g : IsMade(g, ch, N)
    <2> HIDE DEF ch, N
    <2> QED BY <1>2, <1>4, MadeIs
  <1>6. IsMade(f, ch, N)
    <2>1. PICK g : IsMade(g, ch, N)
      BY <1>5
    <2> DEFINE y(h, n) == IF n = 0 THEN <<>> ELSE Sift(h[n - 1], ch[n])
               z(h, n) == IF n = 0
                       THEN <<>> ELSE Sift(h[n - 1], ChangeOf(base, proposed, blocks[n]))
    <2>2. \A h : \A n \in 0 .. N : y(h, n) = z(h, n)
      BY <1>2
    <2>3. \A h : [n \in 0 .. N |-> y(h, n)] = [n \in 0 .. N |-> z(h, n)]
      <3> HIDE DEF y, z
      <3> QED BY <2>2
    <2>4. g = [n \in 0 .. N |-> z(g, n)]
      <3>1. g = [n \in 0 .. N |-> y(g, n)]
        BY <2>1 DEF IsMade
      <3> HIDE DEF y, z
      <3> QED BY <2>3, <3>1
    <2>5. f = [n \in 0 .. N |-> z(f, n)]
      BY <2>4 DEF Made, Sift
    <2>6. f = [n \in 0 .. N |-> y(f, n)]
      <3> HIDE DEF y, z, f
      <3> QED BY <2>3, <2>5
    <2> QED BY <2>6 DEF IsMade
  <1>7. Diff(base, proposed) = f[N]
    BY DEF Diff, Made
  <1> HIDE DEF ch, N, f
  <1>8. f[N] \in Sifted(ch, N, Text(base), N)
    BY <1>2, <1>4, <1>6, MadeIs
  <1> QED BY <1>7, <1>8 DEF Sifted

-----------------------------------------------------------------------------
(* What the decisions make of a text, read from left to right.             *)

\* One after the other.
Cat(p, q) == p \o q

\* Where change k ends, what it becomes, and what is between it and the last.
EndsAt(changes, k) == IF k = 0 THEN 0 ELSE changes[k].end
Goes(change, verdict) == IF verdict = "reject" THEN change.exact ELSE Put(change, verdict)
Between(text, changes, k) == SubSeq(text, EndsAt(changes, k - 1) + 1, changes[k].start)

\* The function Reading is made from the last value of.
ReadsUpTo(text, changes, verdicts) ==
    LET endOf(k) == IF k = 0 THEN 0 ELSE changes[k].end
        upTo[k \in 0 .. Len(changes)] ==
          IF k = 0 THEN <<>>
          ELSE upTo[k - 1]
                 \o SubSeq(text, endOf(k - 1) + 1, changes[k].start)
                 \o (IF verdicts[k] = "reject" THEN changes[k].exact
                     ELSE Put(changes[k], verdicts[k]))
    IN  upTo

\* f is that function.
IsReading(f, text, changes, verdicts) ==
    f = [k \in 0 .. Len(changes) |->
           IF k = 0 THEN <<>>
           ELSE f[k - 1] \o Between(text, changes, k) \o Goes(changes[k], verdicts[k])]

\* A change ends within the text, and before the next begins.
LEMMA WhereItEnds ==
    ASSUME NEW text \in Seq(Words), NEW changes, Laid(changes, text), NEW k \in 0 .. Len(changes)
    PROVE  /\ EndsAt(changes, k) \in Nat /\ EndsAt(changes, k) <= Len(text)
           /\ k < Len(changes) => EndsAt(changes, k) <= changes[k + 1].start
           /\ Len(changes) \in Nat
  <1>1. \A j \in 1 .. Len(changes) :
           /\ changes[j].start \in Nat /\ changes[j].end \in Nat /\ changes[j].end <= Len(text)
    BY DEF Laid, Quotes, Change
  <1>2. Len(changes) \in Nat
    BY DEF Laid
  <1>3. CASE k = 0
    <2>1. k < Len(changes) => 1 \in 1 .. Len(changes)
      BY <1>2, <1>3
    <2> QED BY <1>1, <1>2, <1>3, <2>1 DEF EndsAt
  <1>4. CASE k # 0
    <2>1. k \in 1 .. Len(changes) /\ (k < Len(changes) => k + 1 \in 1 .. Len(changes) /\ k < k + 1)
      BY <1>2, <1>4
    <2>2. k < Len(changes) => changes[k].end <= changes[k + 1].start
      BY <2>1 DEF Laid
    <2> QED BY <1>1, <1>2, <1>4, <2>1, <2>2 DEF EndsAt
  <1> QED BY <1>3, <1>4

\* The parts of a reading are texts.
LEMMA PartsType ==
    ASSUME NEW text \in Seq(Words), NEW changes, NEW verdicts, Laid(changes, text),
           NEW k \in 1 .. Len(changes)
    PROVE  Between(text, changes, k) \in Seq(Words) /\ Goes(changes[k], verdicts[k]) \in Seq(Words)
           /\ Put(changes[k], verdicts[k]) \in Seq(Words)
  <1>1. Quotes(changes[k], text)
    BY DEF Laid
  <1>2. /\ changes[k].start \in Nat /\ changes[k].end \in Nat /\ changes[k].start <= Len(text)
        /\ changes[k].exact \in Seq(Words) /\ changes[k].replacement \in Seq(Words)
    BY <1>1 DEF Quotes, Change
  <1>3. k - 1 \in 0 .. Len(changes)
    OBVIOUS
  <1>4. Between(text, changes, k) \in Seq(Words)
    BY <1>2, <1>3, WhereItEnds, SubSeqType DEF Between
  <1>5. <<"edited">> \in Seq(Words)
    BY WordsAreWords
  <1> QED BY <1>2, <1>4, <1>5 DEF Goes, Put

\* The function exists, and its values are texts.
LEMMA ReadingIs ==
    ASSUME NEW text \in Seq(Words), NEW changes, NEW verdicts, Laid(changes, text)
    PROVE  /\ IsReading(ReadsUpTo(text, changes, verdicts), text, changes, verdicts)
           /\ \A k \in 0 .. Len(changes) : ReadsUpTo(text, changes, verdicts)[k] \in Seq(Words)
  <1> DEFINE N == Len(changes)
             K == Seq(Words)
             Add(s, n) == s \o Between(text, changes, n) \o Goes(changes[n], verdicts[n])
             kind == [n \in 0 .. N |-> K]
             next == [n \in 1 .. N |-> [s \in K |-> Add(s, n)]]
             Is(f) == IsReading(f, text, changes, verdicts)
  <1>0. N \in Nat /\ <<>> \in K
    BY DEF Laid
  <1>1. ASSUME NEW n \in 1 .. N, NEW s \in K PROVE Add(s, n) \in K
    <2>1. Between(text, changes, n) \in K /\ Goes(changes[n], verdicts[n]) \in K
      BY PartsType
    <2> QED BY <2>1, ConcatProperties
  <1>2. Keeps(N, kind, <<>>, next)
    <2> HIDE DEF Add
    <2>1. kind[0] = K /\ \A n \in 1 .. N : kind[n - 1] = K /\ kind[n] = K
      BY <1>0
    <2>2. \A n \in 1 .. N : \A s \in K : next[n][s] = Add(s, n)
      BY <1>0
    <2> HIDE DEF kind, next
    <2> QED BY <1>0, <1>1, <2>1, <2>2 DEF Keeps
  <1>3. ASSUME NEW f PROVE Loops(f, N, <<>>, next) => Is(f)
    <2> SUFFICES ASSUME Loops(f, N, <<>>, next) PROVE Is(f)
      OBVIOUS
    <2>1. \A n \in 0 .. N : f[n] \in kind[n]
      <3> HIDE DEF kind, next, N
      <3> QED BY <1>0, <1>2, Kinds
    <2>2. \A n \in 1 .. N : n - 1 \in 0 .. N /\ f[n - 1] \in K
      BY <1>0, <2>1
    <2>3. \A n \in 1 .. N : next[n][f[n - 1]] = Add(f[n - 1], n)
      <3> HIDE DEF Add
      <3> QED BY <2>2
    <2> DEFINE x(n) == IF n = 0 THEN <<>> ELSE next[n][f[n - 1]]
               y(n) == IF n = 0 THEN <<>> ELSE Add(f[n - 1], n)
    <2> HIDE DEF next
    <2>4. \A n \in 0 .. N : x(n) = y(n)
      <3> HIDE DEF Add
      <3> QED BY <1>0, <2>3
    <2>5. f = [n \in 0 .. N |-> x(n)]
      BY DEF Loops
    <2>6. f = [n \in 0 .. N |-> y(n)]
      <3> HIDE DEF x, y
      <3> QED BY <2>4, <2>5
    <2> QED BY <2>6 DEF IsReading
  <1>4. \E f : Is(f)
    <2>1. \E f : Loops(f, N, <<>>, next)
      <3> HIDE DEF kind, next, N
      <3> QED BY <1>0, <1>2, Recursion
    <2> QED BY <2>1, <1>3
  <1>5. Is(ReadsUpTo(text, changes, verdicts))
    BY <1>4 DEF IsReading, ReadsUpTo, Between, Goes, EndsAt
  <1>6. ASSUME NEW f, Is(f) PROVE \A k \in 0 .. N : f[k] \in K
    <2> DEFINE T == {k \in 0 .. N : f[k] \in K}
    <2> HIDE DEF K
    <2>1. 0 \in T
      BY <1>0, <1>6 DEF IsReading
    <2>2. ASSUME NEW n \in 0 .. N, n \in T, n < N PROVE n + 1 \in T
      <3> DEFINE m == n + 1
      <3>1. m \in 1 .. N /\ m \in 0 .. N /\ m # 0 /\ m - 1 = n
        BY <1>0, <2>2
      <3> HIDE DEF m
      <3>2. f[m] = Add(f[m - 1], m)
        BY <3>1, <1>6 DEF IsReading
      <3> HIDE DEF Add
      <3>3. m \in T
        BY <1>1, <2>2, <3>1, <3>2
      <3> QED BY <3>3 DEF m
    <2> HIDE DEF T
    <2>3. \A n \in 0 .. N : n \in T
      BY <1>0, <2>1, <2>2, Climb, Zenon
    <2> QED BY <2>3 DEF T
  <1> QED BY <1>5, <1>6

\* The reading as far as change m is that as far as the one before, and more.
LEMMA ReadingStep ==
    ASSUME NEW text \in Seq(Words), NEW changes, NEW verdicts, Laid(changes, text),
           NEW m \in 1 .. Len(changes)
    PROVE  ReadsUpTo(text, changes, verdicts)[m]
             = Cat(Cat(ReadsUpTo(text, changes, verdicts)[m - 1], Between(text, changes, m)),
                   Goes(changes[m], verdicts[m]))
  <1>1. IsReading(ReadsUpTo(text, changes, verdicts), text, changes, verdicts)
    BY ReadingIs
  <1>2. m \in 0 .. Len(changes) /\ m # 0
    BY DEF Laid
  <1>3. ASSUME NEW f, IsReading(f, text, changes, verdicts)
        PROVE  f[m] = f[m - 1] \o Between(text, changes, m) \o Goes(changes[m], verdicts[m])
    <2> DEFINE e(n) == IF n = 0 THEN <<>>
                       ELSE f[n - 1] \o Between(text, changes, n) \o Goes(changes[n], verdicts[n])
    <2>1. f = [n \in 0 .. Len(changes) |-> e(n)]
      BY <1>3 DEF IsReading
    <2>2. e(m) = f[m - 1] \o Between(text, changes, m) \o Goes(changes[m], verdicts[m])
      BY <1>2
    <2> HIDE DEF e
    <2> QED BY <1>2, <2>1, <2>2
  <1> QED BY <1>1, <1>3 DEF Cat

\* A change takes x out, from between p and r, and puts something there.
Cuts(p, x, r, put, c) ==
    /\ p \in Seq(Words) /\ x \in Seq(Words) /\ r \in Seq(Words) /\ put \in Seq(Words)
    /\ c.start = Len(p) /\ c.end = Len(p) + Len(x)

\* Splicing at a place takes out what is there.
LEMMA SpliceIs ==
    ASSUME NEW p, NEW x, NEW r, NEW put, NEW c, Cuts(p, x, r, put, c)
    PROVE  Splice(Cat(Cat(p, x), r), c, put) = Cat(Cat(p, put), r)
  <1> DEFINE out == (p \o x) \o r
  <1>0. /\ p \in Seq(Words) /\ x \in Seq(Words) /\ r \in Seq(Words) /\ put \in Seq(Words)
        /\ c.start = Len(p) /\ c.end = Len(p) + Len(x)
    BY DEF Cuts
  <1>1. Len(p) \in Nat /\ Len(x) \in Nat /\ Len(r) \in Nat /\ p \o x \in Seq(Words) /\ x
          \o r \in Seq(Words)
        /\ Len(p \o x) = Len(p) + Len(x)
    BY <1>0, ConcatProperties
  <1>2. out \in Seq(Words) /\ Len(out) = Len(p) + Len(x) + Len(r)
    BY <1>0, <1>1, ConcatProperties
  <1>3. SubSeq(out, 1, c.start) = p
    <2>1. SubSeq((<<>> \o p) \o (x \o r), Len(<<>>) + 1, Len(<<>>) + Len(p)) = p
      BY <1>0, <1>1, <<>> \in Seq(Words), Middle
    <2>2. (<<>> \o p) \o (x \o r) = out
      <3>1. <<>> \o p = p
        BY <1>0, ConcatEmptySeq
      <3>2. (p \o x) \o r = p \o (x \o r)
        BY <1>0, ConcatAssociative
      <3> QED BY <3>1, <3>2
    <2>3. Len(<<>>) + 1 = 1 /\ Len(<<>>) + Len(p) = c.start
      BY <1>0, <1>1
    <2> HIDE DEF out
    <2> QED BY <2>1, <2>2, <2>3
  <1>4. SubSeq(out, c.end + 1, Len(out)) = r
    <2>1. SubSeq(((p \o x) \o r) \o <<>>, Len(p \o x) + 1, Len(p \o x) + Len(r)) = r
      BY <1>0, <1>1, <<>> \in Seq(Words), Middle
    <2>2. out \o <<>> = out
      BY <1>2, ConcatEmptySeq
    <2>3. Len(p \o x) = c.end /\ Len(p \o x) + Len(r) = Len(out)
      BY <1>0, <1>1, <1>2
    <2> QED BY <2>1, <2>2, <2>3
  <1>5. Cat(Cat(p, x), r) = out
    BY DEF Cat
  <1> HIDE DEF out
  <1>6. Splice(out, c, put) = p \o put \o r
    BY <1>3, <1>4 DEF Splice
  <1> QED BY <1>5, <1>6 DEF Cat

-----------------------------------------------------------------------------
(* And folded from right to left.                                          *)

\* The text up to the end of a change is the text to the end of the one before,
\* what is between, and what the change quotes.
LEMMA TextParts ==
    ASSUME NEW text \in Seq(Words), NEW changes, Laid(changes, text), NEW m \in 1 .. Len(changes)
    PROVE  /\ SubSeq(text, 1, EndsAt(changes, m - 1)) \in Seq(Words)
           /\ SubSeq(text, 1, EndsAt(changes, m))
                = Cat(Cat(SubSeq(text, 1, EndsAt(changes, m - 1)), Between(text, changes, m)),
                      changes[m].exact)
           /\ Len(Cat(SubSeq(text, 1, EndsAt(changes, m - 1)), Between(text, changes, m)))
                = changes[m].start
           /\ Len(changes[m].exact) = changes[m].end - changes[m].start
           /\ changes[m].exact \in Seq(Words) /\ changes[m].start \in Nat /\ changes[m].end \in Nat
  <1> DEFINE E == EndsAt(changes, m - 1)
             s == changes[m].start
             e == changes[m].end
             L == Len(text)
  <1>1. /\ Quotes(changes[m], text) /\ L \in Nat
        /\ s \in Nat /\ e \in Nat /\ s <= e /\ e <= L
        /\ changes[m].exact = SubSeq(text, s + 1, e) /\ changes[m].exact \in Seq(Words)
    <2>1. Quotes(changes[m], text)
      BY DEF Laid
    <2> QED BY <2>1 DEF Quotes, Change
  <1>2. E \in Nat /\ E <= s
    <2>1. m - 1 \in 0 .. Len(changes) /\ m - 1 < Len(changes) /\ m - 1 + 1 = m
      BY DEF Laid
    <2> QED BY <2>1, WhereItEnds
  <1>3. EndsAt(changes, m) = e
    BY DEF EndsAt
  <1>4. Between(text, changes, m) = SubSeq(text, E + 1, s)
    BY DEF Between
  <1> HIDE DEF E, s, e, L
  <1>5. SubSeq(text, 1, E) \in Seq(Words) /\ Len(SubSeq(text, 1, E)) = E
    <2>1. 0 + 1 = 1 /\ 0 <= E /\ E - 0 = E /\ 0 \in Nat /\ E <= Len(text)
      BY <1>1, <1>2 DEF L
    <2> QED BY <1>2, <2>1, SubSeqType
  <1>6. SubSeq(text, E + 1, s) \in Seq(Words) /\ Len(SubSeq(text, E + 1, s)) = s - E
    BY <1>1, <1>2, SubSeqType DEF L
  <1>7. Len(SubSeq(text, s + 1, e)) = e - s
    BY <1>1, SubSeqType DEF L
  <1>8. SubSeq(text, 1, E) \o SubSeq(text, E + 1, s) = SubSeq(text, 1, s)
    <2>1. 1 \in 1 .. Len(text) + 1 /\ E \in 1 - 1 .. Len(text) /\ s \in E .. Len(text)
      BY <1>1, <1>2 DEF L
    <2> QED BY <2>1, ConcatAdjacentSubSeq
  <1>9. SubSeq(text, 1, s) \o SubSeq(text, s + 1, e) = SubSeq(text, 1, e)
    <2>1. 1 \in 1 .. Len(text) + 1 /\ s \in 1 - 1 .. Len(text) /\ e \in s .. Len(text)
      BY <1>1 DEF L
    <2> QED BY <2>1, ConcatAdjacentSubSeq
  <1>10. Len(SubSeq(text, 1, E) \o SubSeq(text, E + 1, s)) = s
    <2>1. Len(SubSeq(text, 1, E) \o SubSeq(text, E + 1, s)) = E + (s - E)
      BY <1>5, <1>6, ConcatProperties
    <2> QED BY <1>1, <1>2, <2>1
  <1> QED BY <1>1, <1>3, <1>4, <1>5, <1>7, <1>8, <1>9, <1>10 DEF E, s, e, Cat

\* Four texts.
AreTexts(b, g, d, r) ==
    b \in Seq(Words) /\ g \in Seq(Words) /\ d \in Seq(Words) /\ r \in Seq(Words)

\* It does not matter which of them are put together first.
LEMMA Regroup ==
    ASSUME NEW b, NEW g, NEW d, NEW r, AreTexts(b, g, d, r)
    PROVE  /\ Cat(Cat(Cat(b, g), d), r) = Cat(b, Cat(g, Cat(d, r)))
           /\ Cat(g, Cat(d, r)) \in Seq(Words) /\ Cat(b, g) \in Seq(Words)
  <1>0. b \in Seq(Words) /\ g \in Seq(Words) /\ d \in Seq(Words) /\ r \in Seq(Words)
    BY DEF AreTexts
  <1>1. \A p, q \in Seq(Words) : Cat(p, q) \in Seq(Words)
    BY ConcatProperties DEF Cat
  <1>2. ASSUME NEW p \in Seq(Words), NEW q \in Seq(Words), NEW s \in Seq(Words)
        PROVE  Cat(Cat(p, q), s) = Cat(p, Cat(q, s))
    <2>1. (p \o q) \o s = p \o (q \o s)
      OBVIOUS
    <2> QED BY <2>1 DEF Cat
  <1>3. Cat(b, g) \in Seq(Words) /\ Cat(d, r) \in Seq(Words) /\ Cat(g, Cat(d, r)) \in Seq(Words)
    BY <1>0, <1>1
  <1>4. Cat(Cat(Cat(b, g), d), r) = Cat(Cat(b, g), Cat(d, r))
    BY <1>0, <1>2, <1>3
  <1>5. Cat(Cat(b, g), Cat(d, r)) = Cat(b, Cat(g, Cat(d, r)))
    BY <1>0, <1>2, <1>3
  <1> QED BY <1>3, <1>4, <1>5

\* What a decided change puts between what is before it and what follows.
LEMMA DecidedIs ==
    ASSUME NEW p, NEW c, NEW verdict, NEW r, Cuts(p, c.exact, r, Put(c, verdict), c)
    PROVE  Decided(Cat(Cat(p, c.exact), r), c, verdict) = Cat(Cat(p, Goes(c, verdict)), r)
  <1>1. CASE verdict = "reject"
    BY <1>1 DEF Decided, Goes
  <1>2. CASE verdict # "reject"
    <2>1. Splice(Cat(Cat(p, c.exact), r), c, Put(c, verdict)) = Cat(Cat(p, Put(c, verdict)), r)
      BY SpliceIs
    <2> QED BY <1>2, <2>1 DEF Decided, Goes
  <1> QED BY <1>1, <1>2

\* The text as far as change m, and what follows; and so for the reading.
TextWith(text, changes, m, rest) == Cat(SubSeq(text, 1, EndsAt(changes, m)), rest)
ReadingWith(text, changes, verdicts, m, rest) == Cat(ReadsUpTo(text, changes, verdicts)[m], rest)

\* Deciding change m moves what is decided one change to the left, in both.
TurnsBack(text, changes, verdicts, m, rest) ==
    \E more \in Seq(Words) :
       /\ Decided(TextWith(text, changes, m, rest), changes[m], verdicts[m])
            = TextWith(text, changes, m - 1, more)
       /\ ReadingWith(text, changes, verdicts, m, rest)
            = ReadingWith(text, changes, verdicts, m - 1, more)

\* A turn of the fold, and the reading with what it has done.
LEMMA StepBack ==
    ASSUME NEW text \in Seq(Words), NEW changes, NEW verdicts, Laid(changes, text),
           NEW m \in 1 .. Len(changes), NEW rest \in Seq(Words)
    PROVE  TurnsBack(text, changes, verdicts, m, rest)
  <1> DEFINE a == SubSeq(text, 1, EndsAt(changes, m - 1))
             g == Between(text, changes, m)
             c == changes[m]
             v == verdicts[m]
             d == Goes(c, v)
             u == ReadsUpTo(text, changes, verdicts)[m - 1]
             w == ReadsUpTo(text, changes, verdicts)[m]
             to == SubSeq(text, 1, EndsAt(changes, m))
             more == Cat(g, Cat(d, rest))
  <1>1. /\ a \in Seq(Words) /\ to = Cat(Cat(a, g), c.exact)
        /\ Len(Cat(a, g)) = c.start /\ Len(c.exact) = c.end - c.start
        /\ c.exact \in Seq(Words) /\ c.start \in Nat /\ c.end \in Nat
    BY TextParts
  <1>2. g \in Seq(Words) /\ d \in Seq(Words) /\ Put(c, v) \in Seq(Words)
    BY PartsType
  <1>3. u \in Seq(Words) /\ w = Cat(Cat(u, g), d)
    <2>1. m - 1 \in 0 .. Len(changes)
      BY DEF Laid
    <2>2. u \in Seq(Words)
      BY <2>1, ReadingIs
    <2>3. w = Cat(Cat(u, g), d)
      BY ReadingStep
    <2> QED BY <2>2, <2>3
  <1>0. /\ TextWith(text, changes, m, rest) = Cat(to, rest)
        /\ TextWith(text, changes, m - 1, more) = Cat(a, more)
        /\ ReadingWith(text, changes, verdicts, m, rest) = Cat(w, rest)
        /\ ReadingWith(text, changes, verdicts, m - 1, more) = Cat(u, more)
    BY DEF TextWith, ReadingWith
  <1>d. d = Goes(c, v)
    OBVIOUS
  <1> HIDE DEF a, g, c, v, d, u, w, to
  <1>4. Decided(Cat(to, rest), c, v) = Cat(Cat(Cat(a, g), d), rest)
    <2>1. Cat(a, g) \in Seq(Words)
      <3>1. AreTexts(a, g, d, rest)
        BY <1>1, <1>2 DEF AreTexts
      <3> QED BY <3>1, Regroup
    <2>2. c.start = Len(Cat(a, g)) /\ c.end = Len(Cat(a, g)) + Len(c.exact)
      BY <1>1
    <2>3. Cuts(Cat(a, g), c.exact, rest, Put(c, v), c)
      BY <1>1, <1>2, <2>1, <2>2 DEF Cuts
    <2> QED BY <1>1, <1>d, <2>3, DecidedIs
  <1>5. /\ more \in Seq(Words)
        /\ Cat(Cat(Cat(a, g), d), rest) = Cat(a, more)
        /\ Cat(Cat(Cat(u, g), d), rest) = Cat(u, more)
    <2>1. AreTexts(a, g, d, rest) /\ AreTexts(u, g, d, rest)
      BY <1>1, <1>2, <1>3 DEF AreTexts
    <2> QED BY <2>1, Regroup
  <1> HIDE DEF more
  <1> QED BY <1>0, <1>3, <1>4, <1>5 DEF c, v, TurnsBack

\* With no two at one place, the rightmost of the first m is the last of them.
LEMMA RightmostIsLast ==
    ASSUME NEW text, NEW changes, Laid(changes, text), OneAtAPlace(changes),
           NEW m \in 1 .. Len(changes)
    PROVE  Rightmost(changes, 1 .. m) = m
  <1>1. ASSUME NEW k \in 1 .. m, k # m PROVE changes[k].start < changes[m].start
    <2>1. k \in 1 .. Len(changes) /\ k < m
      BY <1>1
    <2>2. /\ changes[k].start <= changes[k].end /\ changes[k].end <= changes[m].start
          /\ changes[k].start # changes[m].start
          /\ changes[k].start \in Nat /\ changes[k].end \in Nat /\ changes[m].start \in Nat
      <3>1. Quotes(changes[k], text) /\ Quotes(changes[m], text)
        BY <2>1 DEF Laid
      <3>2. changes[k].end <= changes[m].start
        BY <2>1 DEF Laid
      <3>3. changes[k].start # changes[m].start
        BY <2>1 DEF OneAtAPlace
      <3> QED BY <3>1, <3>2, <3>3 DEF Quotes, Change
    <2> QED BY <2>2
  <1>2. changes[m].start \in Nat
    <2>1. Quotes(changes[m], text)
      BY DEF Laid
    <2> QED BY <2>1 DEF Quotes, Change
  <1> DEFINE First(k) == \A l \in 1 .. m : \/ changes[l].start < changes[k].start
                                           \/ changes[l].start = changes[k].start /\ k <= l
  <1>3. m \in 1 .. m /\ First(m)
    BY <1>1
  <1>4. \A k \in 1 .. m : First(k) => k = m
    <2> SUFFICES ASSUME NEW k \in 1 .. m, First(k), k # m PROVE FALSE
      OBVIOUS
    <2>1. changes[k].start < changes[m].start
      BY <1>1
    <2>2. changes[k].start \in Nat
      <3>1. Quotes(changes[k], text)
        BY DEF Laid
      <3> QED BY <3>1 DEF Quotes, Change
    <2>3. m \in 1 .. m
      OBVIOUS
    <2> QED BY <1>2, <2>1, <2>2, <2>3
  <1>5. Rightmost(changes, 1 .. m) = CHOOSE k \in 1 .. m : First(k)
    BY DEF Rightmost
  <1> HIDE DEF First
  <1> QED BY <1>3, <1>4, <1>5

-----------------------------------------------------------------------------
\* The function Materialise is the last value of.
Folds(text, changes, verdicts) ==
    LET fold[n \in 0 .. Len(changes)] ==
          IF n = 0 THEN [left |-> 1 .. Len(changes), out |-> text]
          ELSE LET k == Rightmost(changes, fold[n - 1].left)
               IN  [left |-> fold[n - 1].left \ {k},
                    out |-> Decided(fold[n - 1].out, changes[k], verdicts[k])]
    IN  fold

\* A turn of the fold, and where it begins.
Turn(changes, verdicts, s) ==
    [left |-> s.left \ {Rightmost(changes, s.left)},
     out |-> Decided(s.out, changes[Rightmost(changes, s.left)], verdicts[Rightmost(changes,
         s.left)])]

Unfolded(text, changes) == [left |-> 1 .. Len(changes), out |-> text]

\* f is that function.
IsFold(f, text, changes, verdicts) ==
    f = [n \in 0 .. Len(changes) |->
           IF n = 0 THEN Unfolded(text, changes) ELSE Turn(changes, verdicts, f[n - 1])]

\* What is left to be decided is the first m, and what was is as the reading has it.
After(text, changes, verdicts, m) ==
    {s \in [left : SUBSET Nat, out : Seq(Words)] :
        /\ s.left = 1 .. m
        /\ \E rest \in Seq(Words) :
              /\ s.out = TextWith(text, changes, m, rest)
              /\ Reading(text, changes, verdicts) = ReadingWith(text, changes, verdicts, m, rest)}

\* A turn decides the last of those that are left.
LEMMA TurnKeeps ==
    ASSUME NEW text \in Seq(Words), NEW changes, NEW verdicts, Laid(changes, text),
           OneAtAPlace(changes), NEW m \in 1 .. Len(changes), NEW s \in After(text, changes,
               verdicts, m)
    PROVE  Turn(changes, verdicts, s) \in After(text, changes, verdicts, m - 1)
  <1> DEFINE t == Turn(changes, verdicts, s)
  <1>1. PICK rest \in Seq(Words) :
              /\ s.out = TextWith(text, changes, m, rest)
              /\ Reading(text, changes, verdicts) = ReadingWith(text, changes, verdicts, m, rest)
    BY DEF After
  <1>2. s.left = 1 .. m
    BY DEF After
  <1>3. Rightmost(changes, s.left) = m
    BY <1>2, RightmostIsLast
  <1>4. t.left = (1 .. m) \ {m} /\ t.out = Decided(s.out, changes[m], verdicts[m])
    BY <1>2, <1>3 DEF Turn
  <1>5. (1 .. m) \ {m} = 1 .. m - 1
    OBVIOUS
  <1>6. PICK more \in Seq(Words) :
              /\ Decided(s.out, changes[m], verdicts[m]) = TextWith(text, changes, m - 1, more)
              /\ Reading(text, changes, verdicts)
                      = ReadingWith(text, changes, verdicts, m - 1, more)
    <2>1. \E more \in Seq(Words) :
              /\ Decided(TextWith(text, changes, m, rest), changes[m], verdicts[m])
                   = TextWith(text, changes, m - 1, more)
              /\ ReadingWith(text, changes, verdicts, m, rest)
                   = ReadingWith(text, changes, verdicts, m - 1, more)
      <3>1. TurnsBack(text, changes, verdicts, m, rest)
        BY StepBack
      <3> QED BY <3>1 DEF TurnsBack
    <2> QED BY <1>1, <2>1
  <1>7. t.out \in Seq(Words)
    <2>1. SubSeq(text, 1, EndsAt(changes, m - 1)) \in Seq(Words)
      BY TextParts
    <2>2. TextWith(text, changes, m - 1, more) \in Seq(Words)
      BY <2>1, ConcatProperties DEF TextWith, Cat
    <2> QED BY <1>4, <1>6, <2>2
  <1>8. t \in [left : SUBSET Nat, out : Seq(Words)]
    <2>1. t = [left |-> t.left, out |-> t.out]
      BY DEF Turn
    <2>2. t.left \in SUBSET Nat
      BY <1>4
    <2> HIDE DEF t
    <2> QED BY <1>7, <2>1, <2>2
  <1>9. /\ t.left = 1 .. m - 1
        /\ t.out = TextWith(text, changes, m - 1, more)
        /\ Reading(text, changes, verdicts) = ReadingWith(text, changes, verdicts, m - 1, more)
    BY <1>4, <1>5, <1>6
  <1> HIDE DEF t
  <1> QED BY <1>8, <1>9 DEF After, t

\* Before the first turn they are all left.
LEMMA UnfoldedIs ==
    ASSUME NEW text \in Seq(Words), NEW changes, NEW verdicts, Laid(changes, text)
    PROVE  Unfolded(text, changes) \in After(text, changes, verdicts, Len(changes))
  <1> DEFINE N == Len(changes)
             E == EndsAt(changes, N)
             rest == SubSeq(text, E + 1, Len(text))
             s == Unfolded(text, changes)
  <1>1. N \in Nat /\ N \in 0 .. N
    BY DEF Laid
  <1>2. E \in Nat /\ E <= Len(text) /\ Len(text) \in Nat
    BY <1>1, WhereItEnds
  <1>3. Reading(text, changes, verdicts) = ReadingWith(text, changes, verdicts, N, rest)
    BY DEF Reading, ReadsUpTo, EndsAt, ReadingWith, Cat
  <1> HIDE DEF E
  <1>4. rest \in Seq(Words)
    BY <1>2, SubSeqType
  <1>5. text = TextWith(text, changes, N, rest)
    <2>1. SubSeq(text, 1, E) \o SubSeq(text, E + 1, Len(text)) = SubSeq(text, 1, Len(text))
      <3>1. 1 \in 1 .. Len(text) + 1 /\ E \in 1 - 1 .. Len(text) /\ Len(text) \in E .. Len(text)
        BY <1>2
      <3> QED BY <3>1, ConcatAdjacentSubSeq
    <2>2. SubSeq(text, 1, E) \o rest = text
      BY <2>1, SubSeqFull
    <2> QED BY <2>2 DEF TextWith, Cat, E
  <1>6. s.left = 1 .. N /\ s.out = text /\ s \in [left : SUBSET Nat, out : Seq(Words)]
    BY <1>1 DEF Unfolded
  <1> HIDE DEF rest, s, N
  <1> QED BY <1>3, <1>4, <1>5, <1>6 DEF After, s, N

\* The fold is what the decisions say it is.
LEMMA MaterialiseReads ==
    ASSUME NEW text \in Seq(Words), NEW changes, NEW verdicts, Laid(changes, text),
           OneAtAPlace(changes)
    PROVE  Materialise(text, changes, verdicts) = Reading(text, changes, verdicts)
  <1> DEFINE N == Len(changes)
             first == Unfolded(text, changes)
             K(n) == After(text, changes, verdicts, N - n)
             T(s) == Turn(changes, verdicts, s)
             kind == [n \in 0 .. N |-> K(n)]
             next == [n \in 1 .. N |-> [s \in K(n - 1) |-> T(s)]]
             Is(f) == IsFold(f, text, changes, verdicts)
  <1>0. N \in Nat /\ first \in K(0)
    <2>1. N \in Nat /\ N - 0 = N
      BY DEF Laid
    <2> QED BY <2>1, UnfoldedIs
  <1>1. ASSUME NEW n \in 1 .. N, NEW s \in K(n - 1) PROVE T(s) \in K(n)
    <2>1. N - (n - 1) \in 1 .. N /\ N - (n - 1) - 1 = N - n
      BY <1>0
    <2> QED BY <2>1, TurnKeeps
  <1>2. Keeps(N, kind, first, next)
    <2> HIDE DEF K, T, first
    <2>1. kind[0] = K(0) /\ \A n \in 1 .. N : kind[n - 1] = K(n - 1) /\ kind[n] = K(n)
      BY <1>0
    <2>2. \A n \in 1 .. N : \A s \in K(n - 1) : next[n][s] = T(s)
      BY <1>0
    <2> HIDE DEF kind, next
    <2> QED BY <1>0, <1>1, <2>1, <2>2 DEF Keeps
  <1>3. ASSUME NEW f PROVE Loops(f, N, first, next) => Is(f)
    <2> SUFFICES ASSUME Loops(f, N, first, next) PROVE Is(f)
      OBVIOUS
    <2>1. \A n \in 0 .. N : f[n] \in kind[n]
      <3> HIDE DEF kind, next, N, first
      <3> QED BY <1>0, <1>2, Kinds
    <2> HIDE DEF K
    <2>2. \A n \in 1 .. N : n - 1 \in 0 .. N /\ f[n - 1] \in K(n - 1)
      BY <1>0, <2>1
    <2>3. \A n \in 1 .. N : next[n][f[n - 1]] = T(f[n - 1])
      <3> HIDE DEF T
      <3> QED BY <2>2
    <2> DEFINE x(n) == IF n = 0 THEN first ELSE next[n][f[n - 1]]
               y(n) == IF n = 0 THEN first ELSE T(f[n - 1])
    <2> HIDE DEF next
    <2>4. \A n \in 0 .. N : x(n) = y(n)
      <3> HIDE DEF T, first
      <3> QED BY <1>0, <2>3
    <2>5. f = [n \in 0 .. N |-> x(n)]
      BY DEF Loops
    <2>6. f = [n \in 0 .. N |-> y(n)]
      <3> HIDE DEF x, y
      <3> QED BY <2>4, <2>5
    <2> QED BY <2>6 DEF IsFold
  <1>4. \E f : Is(f)
    <2>1. \E f : Loops(f, N, first, next)
      <3> HIDE DEF kind, next, N, first
      <3> QED BY <1>0, <1>2, Recursion
    <2> QED BY <2>1, <1>3
  <1>5. Is(Folds(text, changes, verdicts))
    BY <1>4 DEF IsFold, Folds, Turn, Unfolded
  <1>6. ASSUME NEW f, Is(f) PROVE \A k \in 0 .. N : f[k] \in K(k)
    <2> DEFINE S == {k \in 0 .. N : f[k] \in K(k)}
    <2> HIDE DEF K
    <2>1. 0 \in S
      BY <1>0, <1>6 DEF IsFold
    <2>2. ASSUME NEW n \in 0 .. N, n \in S, n < N PROVE n + 1 \in S
      <3> DEFINE m == n + 1
      <3>1. m \in 1 .. N /\ m \in 0 .. N /\ m # 0 /\ m - 1 = n
        BY <1>0, <2>2
      <3> HIDE DEF m
      <3>2. f[m] = T(f[m - 1])
        BY <3>1, <1>6 DEF IsFold
      <3> HIDE DEF T
      <3>3. m \in S
        BY <1>1, <2>2, <3>1, <3>2
      <3> QED BY <3>3 DEF m
    <2> HIDE DEF S
    <2>3. \A n \in 0 .. N : n \in S
      BY <1>0, <2>1, <2>2, Climb, Zenon
    <2> QED BY <2>3 DEF S
  <1>7. Materialise(text, changes, verdicts) = Folds(text, changes, verdicts)[N].out
    BY DEF Materialise, Folds
  <1>8. Folds(text, changes, verdicts)[N] \in After(text, changes, verdicts, 0)
    <2>1. N \in 0 .. N /\ N - N = 0
      BY <1>0
    <2> QED BY <1>5, <1>6, <2>1
  <1> DEFINE s == Folds(text, changes, verdicts)[N]
  <1>9. PICK rest \in Seq(Words) :
           /\ s.out = TextWith(text, changes, 0, rest)
           /\ Reading(text, changes, verdicts) = ReadingWith(text, changes, verdicts, 0, rest)
    BY <1>8 DEF After
  <1>10. SubSeq(text, 1, EndsAt(changes, 0)) = <<>>
    <2>1. EndsAt(changes, 0) = 0
      BY DEF EndsAt
    <2> QED BY <2>1, SubSeqEmpty
  <1>11. ReadsUpTo(text, changes, verdicts)[0] = <<>>
    <2>1. 0 \in 0 .. Len(changes)
      BY <1>0
    <2>2. ASSUME NEW f, IsReading(f, text, changes, verdicts) PROVE f[0] = <<>>
      BY <2>1, <2>2 DEF IsReading
    <2> QED BY <2>2, ReadingIs
  <1> HIDE DEF s, N
  <1> QED BY <1>7, <1>9, <1>10, <1>11 DEF s, N, TextWith, ReadingWith

-----------------------------------------------------------------------------
(* What is folded into a document is what was decided, once.  A changeset  *)
(* with every change decided is never touched again, because the only      *)
(* write to it is refused to a change that has a verdict.                  *)

\* A sequence, of whatever.
IsSeq(s) == \E S : s \in Seq(S)

\* What the rows and the windows are.
Types ==
    /\ IsSeq(versions) /\ Len(versions) >= 1
    /\ IsSeq(changesets) /\ \A c \in 1 .. Newest : "verdicts" \in DOMAIN changesets[c]
    /\ DOMAIN windows = Windows
    /\ windows = [w \in Windows |-> windows[w]]

\* A text is the fold of a changeset that is decided in full.
Folded(c, text) ==
    /\ c \in 1 .. Newest /\ AllDecided(c)
    /\ text = Materialise(Base, changesets[c].changes, changesets[c].verdicts)

\* What a window in the middle of something still knows to be so.
WindowKnows(w) ==
    /\ windows[w].pc = "deciding" =>
          /\ windows[w].changeset \in 1 .. Newest
          /\ windows[w].change \in DOMAIN changesets[windows[w].changeset].verdicts
    /\ windows[w].pc \in {"finishing", "folding"} =>
          /\ windows[w].from \in 1 .. Newest /\ AllDecided(windows[w].from)
          /\ windows[w].set = changesets[windows[w].from]
    /\ windows[w].pc = "writing" /\ windows[w].from # 0 =>
          Folded(windows[w].from, windows[w].text)

\* A version from a changeset is its fold, and the only one from it.
VersionsAreFolds ==
    \A i \in 1 .. Len(versions) : versions[i].from # 0 =>
        /\ Folded(versions[i].from, versions[i].text)
        /\ \A j \in 1 .. Len(versions) : versions[j].from = versions[i].from => j = i

\* The inductive invariant.
ReviewInv == Types /\ VersionsAreFolds /\ \A w \in Windows : WindowKnows(w)

\* A step keeps the base, and every changeset that has been decided.
Extends ==
    /\ Base' = Base /\ Newest <= Newest'
    /\ Newest \in Nat /\ Newest' \in Nat
    /\ \A c \in 1 .. Newest :
          /\ DOMAIN changesets'[c].verdicts = DOMAIN changesets[c].verdicts
          /\ AllDecided(c) => changesets'[c] = changesets[c]

-----------------------------------------------------------------------------
(* Sequences of anything.                                                  *)

\* Appending keeps what is there and adds one.
LEMMA AppendIsSeq ==
    ASSUME NEW s, NEW e, IsSeq(s)
    PROVE  /\ IsSeq(Append(s, e)) /\ Len(s) \in Nat /\ Len(Append(s, e)) = Len(s) + 1
           /\ \A i \in 1 .. Len(s) : Append(s, e)[i] = s[i]
           /\ Append(s, e)[Len(s) + 1] = e
  <1>1. PICK S : s \in Seq(S)
    BY DEF IsSeq
  <1>2. s \in Seq(S \cup {e})
    BY <1>1
  <1>3. Append(s, e) \in Seq(S \cup {e})
    BY <1>2
  <1> QED BY <1>2, <1>3 DEF IsSeq

\* So does replacing one element.
LEMMA ExceptIsSeq ==
    ASSUME NEW s, NEW e, NEW k, IsSeq(s), k \in 1 .. Len(s)
    PROVE  IsSeq([s EXCEPT ![k] = e]) /\ Len([s EXCEPT ![k] = e]) = Len(s)
  <1>1. PICK S : s \in Seq(S)
    BY DEF IsSeq
  <1>2. s \in Seq(S \cup {e})
    BY <1>1
  <1>3. /\ [s EXCEPT ![k] = e] \in Seq(S \cup {e})
        /\ Len([s EXCEPT ![k] = e]) = Len(s)
    BY <1>2, ExceptSeq
  <1> QED BY <1>3 DEF IsSeq

\* A sequence is a function on the numbers up to its length.
LEMMA SeqLen ==
    ASSUME NEW s, IsSeq(s)
    PROVE  Len(s) \in Nat /\ DOMAIN s = 1 .. Len(s)
  <1>1. PICK S : s \in Seq(S)
    BY DEF IsSeq
  <1> QED BY <1>1, LenProperties

-----------------------------------------------------------------------------
(* What a step that only extends leaves in place.                          *)

\* A fold stays the fold of what is on record.
LEMMA FoldedStays ==
    ASSUME NEW c, NEW text, Folded(c, text), Extends
    PROVE  /\ c \in 1 .. Newest'
           /\ \A k \in DOMAIN changesets'[c].verdicts : changesets'[c].verdicts[k] # "none"
           /\ text = Materialise(Base', changesets'[c].changes, changesets'[c].verdicts)
  BY DEF Folded, Extends, AllDecided

\* What a window knows stays so while it waits.
LEMMA WindowStays ==
    ASSUME NEW w \in Windows, WindowKnows(w), Extends, windows'[w] = windows[w]
    PROVE  WindowKnows(w)'
  <1>1. ASSUME (windows[w].pc = "writing" /\ windows[w].from # 0)'
        PROVE  Folded(windows[w].from, windows[w].text)'
    <2>1. Folded(windows[w].from, windows[w].text)
      BY <1>1 DEF WindowKnows
    <2> DEFINE c == windows[w].from
               text == windows[w].text
    <2>2. /\ c \in 1 .. Newest'
          /\ \A k \in DOMAIN changesets'[c].verdicts : changesets'[c].verdicts[k] # "none"
          /\ text = Materialise(Base', changesets'[c].changes, changesets'[c].verdicts)
      BY <2>1, FoldedStays
    <2>3. windows'[w].from = c /\ windows'[w].text = text
      OBVIOUS
    <2> QED BY <2>2, <2>3 DEF Folded, AllDecided
  <1>2. windows[w].pc = "deciding" =>
          /\ windows[w].changeset \in 1 .. Newest'
          /\ windows[w].change \in DOMAIN changesets'[windows[w].changeset].verdicts
    BY DEF WindowKnows, Extends
  <1>3. windows[w].pc \in {"finishing", "folding"} =>
          /\ windows[w].from \in 1 .. Newest' /\ AllDecided(windows[w].from)'
          /\ windows[w].set = changesets'[windows[w].from]
    BY DEF WindowKnows, Extends, AllDecided
  <1> QED BY <1>1, <1>2, <1>3 DEF WindowKnows

\* The document stays a document of folds while no version is added.
LEMMA VersionsStay ==
    ASSUME VersionsAreFolds, Extends, versions' = versions
    PROVE  VersionsAreFolds'
  <1> SUFFICES ASSUME NEW i \in 1 .. Len(versions), versions[i].from # 0
               PROVE  /\ Folded(versions[i].from, versions[i].text)'
                      /\ \A j \in 1 .. Len(versions) :
                            versions[j].from = versions[i].from => j = i
    BY DEF VersionsAreFolds
  <1> DEFINE c == versions[i].from
             text == versions[i].text
  <1>1. Folded(c, text) /\ \A j \in 1 .. Len(versions) : versions[j].from = c => j = i
    BY DEF VersionsAreFolds
  <1>2. /\ c \in 1 .. Newest'
        /\ \A k \in DOMAIN changesets'[c].verdicts : changesets'[c].verdicts[k] # "none"
        /\ text = Materialise(Base', changesets'[c].changes, changesets'[c].verdicts)
    BY <1>1, FoldedStays
  <1> QED BY <1>1, <1>2 DEF Folded, AllDecided

\* A step of one window that leaves the rows alone.
LEMMA RowsKept ==
    ASSUME ReviewInv, versions' = versions, changesets' = changesets
    PROVE  Extends
  <1>1. Newest \in Nat
    BY SeqLen DEF ReviewInv, Types, Newest
  <1> QED BY <1>1 DEF Extends, Base, Newest

\* One window moves on, knowing what it should, and nothing else is disturbed.
LEMMA OneWindowMoves ==
    ASSUME ReviewInv, NEW w \in Windows, NEW state, Goto(w, state), Extends,
           Types', VersionsAreFolds', windows'[w] = state => WindowKnows(w)'
    PROVE  ReviewInv'
  <1>1. windows'[w] = state /\ \A v \in Windows \ {w} : windows'[v] = windows[v]
    BY DEF Goto, ReviewInv, Types
  <1>2. \A v \in Windows \ {w} : WindowKnows(v)'
    BY <1>1, WindowStays DEF ReviewInv
  <1> QED BY <1>1, <1>2 DEF ReviewInv

-----------------------------------------------------------------------------
(* The steps.                                                              *)

\* The first version is the base, and it is text.
LEMMA ReviewInvInit == ReviewInit => ReviewInv
  <1> SUFFICES ASSUME ReviewInit PROVE ReviewInv
    OBVIOUS
  <1>1. PICK lines \in Bases : versions = <<[text |-> Text(lines), from |-> 0]>>
    BY DEF ReviewInit
  <1>2. versions \in Seq({[text |-> Text(lines), from |-> 0]}) /\ Len(versions) = 1
        /\ versions[1].from = 0
    BY <1>1
  <1>3. IsSeq(versions)
    BY <1>2 DEF IsSeq
  <1>4. changesets \in Seq({}) /\ Len(changesets) = 0
    BY DEF ReviewInit
  <1>5. IsSeq(changesets)
    BY <1>4 DEF IsSeq
  <1>6. windows = [w \in Windows |-> Idle] /\ Idle.pc = "idle"
    BY DEF ReviewInit, Idle
  <1>7. Types
    BY <1>2, <1>3, <1>4, <1>5, <1>6 DEF Types, Newest
  <1> QED BY <1>2, <1>6, <1>7 DEF ReviewInv, VersionsAreFolds, WindowKnows

\* A step that leaves rows and windows alone.
LEMMA ReviewInvKept ==
    ReviewInv /\ UNCHANGED <<versions, changesets, windows>> => ReviewInv'
  <1> SUFFICES ASSUME ReviewInv, UNCHANGED <<versions, changesets, windows>> PROVE ReviewInv'
    OBVIOUS
  <1>1. Extends
    BY RowsKept
  <1>2. VersionsAreFolds'
    BY <1>1, VersionsStay DEF ReviewInv
  <1>3. \A w \in Windows : WindowKnows(w)'
    BY <1>1, WindowStays DEF ReviewInv
  <1>4. Types'
    BY DEF ReviewInv, Types, Newest
  <1> QED BY <1>2, <1>3, <1>4 DEF ReviewInv

\* A run's changes come after those that are there.
LEMMA AttachKeeps == ReviewInv /\ AttachChanges => ReviewInv'
  <1> SUFFICES ASSUME ReviewInv, AttachChanges PROVE ReviewInv'
    OBVIOUS
  <1>1. PICK set : changesets' = Append(changesets, set) /\ "verdicts" \in DOMAIN set
    <2> DEFINE changes == Diff(LinesOf(Base), writing)
               set == [proposed |-> writing, changes |-> changes,
                       verdicts |-> [k \in 1 .. Len(changes) |-> "none"]]
    <2>1. changesets' = Append(changesets, set)
      BY DEF AttachChanges
    <2>2. "verdicts" \in DOMAIN set
      OBVIOUS
    <2> HIDE DEF set
    <2> QED BY <2>1, <2>2
  <1>2. versions' = versions /\ windows' = windows
    BY DEF AttachChanges
  <1>3. /\ IsSeq(changesets') /\ Newest \in Nat /\ Newest' = Newest + 1
        /\ \A c \in 1 .. Newest : changesets'[c] = changesets[c]
        /\ changesets'[Newest + 1] = set
    BY <1>1, AppendIsSeq DEF ReviewInv, Types, Newest
  <1>4. Extends
    BY <1>2, <1>3 DEF Extends, Base
  <1>5. Types'
    <2>1. \A c \in 1 .. Newest' : "verdicts" \in DOMAIN changesets'[c]
      <3>1. \A c \in 1 .. Newest' : c \in 1 .. Newest \/ c = Newest + 1
        BY <1>3
      <3>2. \A c \in 1 .. Newest : "verdicts" \in DOMAIN changesets'[c]
        BY <1>3 DEF ReviewInv, Types
      <3>3. "verdicts" \in DOMAIN changesets'[Newest + 1]
        BY <1>1, <1>3
      <3> QED BY <3>1, <3>2, <3>3
    <2> QED BY <1>2, <1>3, <2>1 DEF ReviewInv, Types
  <1>6. VersionsAreFolds'
    BY <1>2, <1>4, VersionsStay DEF ReviewInv
  <1>7. \A w \in Windows : WindowKnows(w)'
    BY <1>2, <1>4, WindowStays DEF ReviewInv
  <1> QED BY <1>5, <1>6, <1>7 DEF ReviewInv

\* One window moves and no row changes.
LEMMA MoveKeeps ==
    ASSUME ReviewInv, NEW w \in Windows, NEW state, Goto(w, state),
           versions' = versions, changesets' = changesets,
           windows'[w] = state => WindowKnows(w)'
    PROVE  ReviewInv'
  <1>1. Extends
    BY RowsKept
  <1>2. VersionsAreFolds'
    BY <1>1, VersionsStay DEF ReviewInv
  <1>3. Types'
    BY DEF ReviewInv, Types, Newest, Goto
  <1> QED BY <1>1, <1>2, <1>3, OneWindowMoves

\* A verdict is begun for a change there is.
LEMMA DecideReadsKeeps ==
    ASSUME ReviewInv, NEW w \in Windows, NEW c, NEW k, NEW verdict,
           DecideReads(w, c, k, verdict)
    PROVE  ReviewInv'
  <1> DEFINE state == [pc |-> "deciding", changeset |-> c, change |-> k, verdict |-> verdict]
  <1>1. Goto(w, state) /\ versions' = versions /\ changesets' = changesets
    BY DEF DecideReads
  <1>2. c \in 1 .. Newest /\ k \in DOMAIN changesets[c].verdicts
    BY DEF DecideReads
  <1>3. ASSUME windows'[w] = state PROVE WindowKnows(w)'
    BY <1>1, <1>2, <1>3 DEF WindowKnows, Newest
  <1> HIDE DEF state
  <1> QED BY <1>1, <1>3, MoveKeeps

\* A change that has a verdict keeps it, so one that is decided in full is
\* left as it is.
LEMMA DecideWritesKeeps ==
    ASSUME ReviewInv, NEW w \in Windows, DecideWrites(w)
    PROVE  ReviewInv'
  <1> DEFINE c == windows[w].changeset
             k == windows[w].change
             set == [changesets[c] EXCEPT !.verdicts = [@ EXCEPT ![k] = windows[w].verdict]]
  <1>1. /\ windows[w].pc = "deciding" /\ Goto(w, Idle) /\ versions' = versions
        /\ changesets' = IF changesets[c].verdicts[k] = "none"
                           THEN [changesets EXCEPT ![c] = set] ELSE changesets
    BY DEF DecideWrites
  <1>2. c \in 1 .. Newest /\ k \in DOMAIN changesets[c].verdicts
    BY <1>1 DEF ReviewInv, WindowKnows
  <1>3. CASE changesets[c].verdicts[k] # "none"
    <2>1. ASSUME windows'[w] = Idle PROVE WindowKnows(w)'
      BY <2>1 DEF WindowKnows, Idle
    <2> QED BY <1>1, <1>3, <2>1, MoveKeeps
  <1>4. CASE changesets[c].verdicts[k] = "none"
    <2>1. changesets' = [changesets EXCEPT ![c] = set]
      BY <1>1, <1>4
    <2>2. ~ AllDecided(c)
      BY <1>2, <1>4 DEF AllDecided
    <2>3. /\ DOMAIN set.verdicts = DOMAIN changesets[c].verdicts
          /\ "verdicts" \in DOMAIN set
      <3>1. "verdicts" \in DOMAIN changesets[c]
        BY <1>2 DEF ReviewInv, Types
      <3>2. DOMAIN set = DOMAIN changesets[c]
        OBVIOUS
      <3>3. set.verdicts = [changesets[c].verdicts EXCEPT ![k] = windows[w].verdict]
        BY <3>1
      <3> QED BY <3>1, <3>2, <3>3
    <2> HIDE DEF set
    <2>4. /\ IsSeq(changesets') /\ Newest' = Newest /\ Newest \in Nat
          /\ DOMAIN changesets = 1 .. Newest
      BY <1>2, <2>1, ExceptIsSeq, SeqLen DEF ReviewInv, Types, Newest
    <2>5. /\ changesets'[c] = set
          /\ \A d \in 1 .. Newest : d # c => changesets'[d] = changesets[d]
      BY <1>2, <2>1, <2>4
    <2>6. Extends
      <3>1. Base' = Base /\ Newest <= Newest' /\ Newest' \in Nat
        BY <1>1, <2>4 DEF Base
      <3>2. DOMAIN changesets'[c].verdicts = DOMAIN changesets[c].verdicts
        BY <2>3, <2>5
      <3>3. \A d \in 1 .. Newest :
              /\ DOMAIN changesets'[d].verdicts = DOMAIN changesets[d].verdicts
              /\ AllDecided(d) => changesets'[d] = changesets[d]
        BY <2>2, <2>5, <3>2
      <3> QED BY <2>4, <3>1, <3>3 DEF Extends
    <2>7. Types'
      <3>1. \A d \in 1 .. Newest' : "verdicts" \in DOMAIN changesets'[d]
        BY <2>3, <2>4, <2>5 DEF ReviewInv, Types
      <3>2. DOMAIN windows' = Windows /\ windows' = [v \in Windows |-> windows'[v]]
        BY <1>1 DEF Goto, ReviewInv, Types
      <3> QED BY <1>1, <2>4, <3>1, <3>2 DEF ReviewInv, Types
    <2>8. VersionsAreFolds'
      BY <1>1, <2>6, VersionsStay DEF ReviewInv
    <2>9. ASSUME windows'[w] = Idle PROVE WindowKnows(w)'
      BY <2>9 DEF WindowKnows, Idle
    <2> QED BY <1>1, <2>6, <2>7, <2>8, <2>9, OneWindowMoves
  <1> QED BY <1>3, <1>4

\* What is written under a free ordinal is the fold of what is decided, and no
\* other version is of its changeset.
LEMMA AddVersionKeeps ==
    ASSUME ReviewInv, NEW w \in Windows, AddVersion(w)
    PROVE  ReviewInv'
  <1> DEFINE row == [text |-> windows[w].text, from |-> windows[w].from]
             taken == \/ windows[w].ordinal # Len(versions) + 1
                      \/ row.from # 0 /\ Settled(row.from)
  <1>1. /\ windows[w].pc = "writing" /\ Goto(w, Idle) /\ changesets' = changesets
        /\ versions' = IF taken THEN versions ELSE Append(versions, row)
    BY DEF AddVersion
  <1>2. ASSUME windows'[w] = Idle PROVE WindowKnows(w)'
    BY <1>2 DEF WindowKnows, Idle
  <1>3. CASE taken
    BY <1>1, <1>2, <1>3, MoveKeeps
  <1>4. CASE ~ taken
    <2>1. versions' = Append(versions, row)
      BY <1>1, <1>4
    <2>2. row.from # 0 => Folded(row.from, row.text) /\ ~ Settled(row.from)
      BY <1>1, <1>4 DEF ReviewInv, WindowKnows
    <2> HIDE DEF row, taken
    <2>3. /\ IsSeq(versions') /\ Len(versions) \in Nat /\ Len(versions') = Len(versions) + 1
          /\ \A i \in 1 .. Len(versions) : versions'[i] = versions[i]
          /\ versions'[Len(versions) + 1] = row
      BY <2>1, AppendIsSeq DEF ReviewInv, Types
    <2>4. Base' = Base
      BY <2>3 DEF Base, ReviewInv, Types
    <2>5. Newest' = Newest /\ Newest \in Nat
      BY <1>1, SeqLen DEF ReviewInv, Types, Newest
    <2>6. Extends
      BY <1>1, <2>4, <2>5 DEF Extends
    <2>7. Types'
      BY <1>1, <2>3, <2>5 DEF ReviewInv, Types, Goto
    <2>8. ASSUME NEW c, NEW text, Folded(c, text) PROVE Folded(c, text)'
      BY <1>1, <2>4, <2>5, <2>8 DEF Folded, AllDecided
    <2>9. VersionsAreFolds'
      <3> SUFFICES ASSUME NEW i \in 1 .. Len(versions'), versions'[i].from # 0
                   PROVE  /\ Folded(versions[i].from, versions[i].text)'
                          /\ \A j \in 1 .. Len(versions') :
                                versions'[j].from = versions'[i].from => j = i
        BY DEF VersionsAreFolds
      <3>1. CASE i \in 1 .. Len(versions)
        <4>1. Folded(versions[i].from, versions[i].text) /\ versions'[i] = versions[i]
          BY <2>3, <3>1 DEF ReviewInv, VersionsAreFolds
        <4>2. Folded(versions[i].from, versions[i].text)'
          BY <1>1, <2>4, <2>5, <4>1 DEF Folded, AllDecided
        <4>3. \A j \in 1 .. Len(versions) : versions'[j].from = versions'[i].from => j = i
          BY <2>3, <3>1 DEF ReviewInv, VersionsAreFolds
        <4>4. row.from # versions'[i].from
          BY <2>2, <2>3, <3>1 DEF Settled
        <4> QED BY <2>3, <4>2, <4>3, <4>4
      <3>2. CASE i = Len(versions) + 1
        <4>1. Folded(row.from, row.text) /\ ~ Settled(row.from) /\ versions'[i] = row
          BY <2>2, <2>3, <3>2
        <4>2. Folded(versions[i].from, versions[i].text)'
          BY <1>1, <2>4, <2>5, <4>1 DEF Folded, AllDecided
        <4>3. \A j \in 1 .. Len(versions) : versions'[j].from # versions'[i].from
          BY <2>3, <4>1 DEF Settled
        <4> QED BY <2>3, <3>2, <4>2, <4>3
      <3> QED BY <2>3, <3>1, <3>2
    <2> QED BY <1>1, <1>2, <2>6, <2>7, <2>9, OneWindowMoves
  <1> QED BY <1>3, <1>4

\* Saving carries no changeset.
LEMMA SaveKeeps ==
    ASSUME ReviewInv, NEW w \in Windows, NEW lines, SaveReads(w, lines) \/ SaveOrders(w)
    PROVE  ReviewInv'
  <1>1. CASE SaveReads(w, lines)
    <2> DEFINE state == [pc |-> "saving", text |-> Text(lines)]
    <2>1. Goto(w, state) /\ versions' = versions /\ changesets' = changesets
      BY <1>1 DEF SaveReads
    <2>2. ASSUME windows'[w] = state PROVE WindowKnows(w)'
      BY <2>2 DEF WindowKnows
    <2> HIDE DEF state
    <2> QED BY <2>1, <2>2, MoveKeeps
  <1>2. CASE SaveOrders(w)
    <2> DEFINE state == [pc |-> "writing", ordinal |-> Len(versions) + 1, from |-> 0,
                         text |-> windows[w].text]
    <2>1. Goto(w, state) /\ versions' = versions /\ changesets' = changesets
      BY <1>2 DEF SaveOrders, TakesOrdinal
    <2>2. ASSUME windows'[w] = state PROVE WindowKnows(w)'
      BY <2>2 DEF WindowKnows
    <2> HIDE DEF state
    <2> QED BY <2>1, <2>2, MoveKeeps
  <1> QED BY <1>1, <1>2

\* Finishing reads a changeset that is decided in full, and folds what it read.
LEMMA FinishKeeps ==
    ASSUME ReviewInv, NEW w \in Windows, FinishReads(w) \/ FinishChecks(w) \/ FinishOrders(w)
    PROVE  ReviewInv'
  <1>0. Newest \in Nat
    BY SeqLen DEF ReviewInv, Types, Newest
  <1>1. CASE FinishReads(w)
    <2> DEFINE state == [pc |-> "finishing", from |-> Newest, set |-> changesets[Newest]]
    <2>1. Goto(w, state) /\ versions' = versions /\ changesets' = changesets
      BY <1>1 DEF FinishReads
    <2>2. Newest \in 1 .. Newest /\ AllDecided(Newest)
      BY <1>0, <1>1 DEF FinishReads, MayFinish
    <2>3. ASSUME windows'[w] = state PROVE WindowKnows(w)'
      <3>1. /\ windows'[w].pc = "finishing" /\ windows'[w].from = Newest
            /\ windows'[w].set = changesets[Newest]
        BY <2>3
      <3> QED BY <2>1, <2>2, <3>1 DEF WindowKnows, AllDecided, Newest
    <2> HIDE DEF state
    <2> QED BY <2>1, <2>3, MoveKeeps
  <1>2. CASE FinishChecks(w)
    <2>1. PICK state : /\ Goto(w, state) /\ versions' = versions /\ changesets' = changesets
                       /\ state = Idle \/ state = [windows[w] EXCEPT !.pc = "folding"]
      BY <1>2 DEF FinishChecks
    <2>2. ASSUME windows'[w] = state PROVE WindowKnows(w)'
      <3>1. CASE state = Idle
        BY <2>2, <3>1 DEF WindowKnows, Idle
      <3>2. CASE state = [windows[w] EXCEPT !.pc = "folding"]
        <4>1. /\ windows[w].from \in 1 .. Newest /\ AllDecided(windows[w].from)
              /\ windows[w].set = changesets[windows[w].from]
              /\ windows[w].pc = "finishing"
          BY <1>2 DEF FinishChecks, ReviewInv, WindowKnows
        <4>2. windows'[w].from = windows[w].from /\ windows'[w].set = windows[w].set
          BY <2>2, <3>2
        <4>3. windows'[w].pc = "folding" \/ windows'[w].pc = windows[w].pc
          BY <2>2, <3>2
        <4> QED BY <2>1, <4>1, <4>2, <4>3 DEF WindowKnows, AllDecided, Newest
      <3> QED BY <2>1, <3>1, <3>2
    <2> QED BY <2>1, <2>2, MoveKeeps
  <1>3. CASE FinishOrders(w)
    <2>0. PICK text :
            text = Materialise(Base, windows[w].set.changes, windows[w].set.verdicts)
      OBVIOUS
    <2> DEFINE state == [pc |-> "writing", ordinal |-> Len(versions) + 1,
                         from |-> windows[w].from, text |-> text]
    <2>1. Goto(w, state) /\ versions' = versions /\ changesets' = changesets
      BY <1>3, <2>0 DEF FinishOrders, TakesOrdinal
    <2>2. Folded(windows[w].from, text)
      BY <1>3, <2>0 DEF FinishOrders, ReviewInv, WindowKnows, Folded
    <2>3. ASSUME windows'[w] = state PROVE WindowKnows(w)'
      <3>1. /\ windows'[w].pc = "writing" /\ windows'[w].from = windows[w].from
            /\ windows'[w].text = text
        BY <2>3
      <3>2. Extends
        BY <2>1, RowsKept
      <3>3. /\ windows[w].from \in 1 .. Newest'
            /\ \A k \in DOMAIN changesets'[windows[w].from].verdicts :
                  changesets'[windows[w].from].verdicts[k] # "none"
            /\ text = Materialise(Base', changesets'[windows[w].from].changes,
                                  changesets'[windows[w].from].verdicts)
        BY <2>2, <3>2, FoldedStays
      <3>4. Folded(windows[w].from, windows[w].text)'
        BY <3>1, <3>3 DEF Folded, AllDecided
      <3> QED BY <3>1, <3>4 DEF WindowKnows
    <2> HIDE DEF state
    <2> QED BY <2>1, <2>3, MoveKeeps
  <1> QED BY <1>1, <1>2, <1>3

\* Every step keeps the invariant.
LEMMA ReviewInvStep == ReviewInv /\ [ReviewNext]_reviewVars => ReviewInv'
  <1> SUFFICES ASSUME ReviewInv, [ReviewNext]_reviewVars PROVE ReviewInv'
    OBVIOUS
  <1>1. CASE \E heading \in Headings, prose \in Prose, answered \in BOOLEAN :
               RecordOutcomes(heading, prose, answered)
    BY <1>1, ReviewInvKept DEF RecordOutcomes
  <1>2. CASE RunDies \/ DecideOutcome \/ UNCHANGED reviewVars
    BY <1>2, ReviewInvKept DEF RunDies, DecideOutcome, reviewVars
  <1>3. CASE AttachChanges
    BY <1>3, AttachKeeps
  <1>4. CASE \E w \in Windows : \E c \in 1 .. Newest : \E k \in DOMAIN changesets[c].verdicts,
               verdict \in {"accept", "reject", "edit"} : DecideReads(w, c, k, verdict)
    BY <1>4, DecideReadsKeeps
  <1>5. CASE \E w \in Windows : DecideWrites(w)
    BY <1>5, DecideWritesKeeps
  <1>6. CASE \E w \in Windows : AddVersion(w)
    BY <1>6, AddVersionKeeps
  <1>7. CASE \E w \in Windows : (\E lines \in Edits : SaveReads(w, lines)) \/ SaveOrders(w)
    BY <1>7, SaveKeeps
  <1>8. CASE \E w \in Windows : FinishReads(w) \/ FinishChecks(w) \/ FinishOrders(w)
    BY <1>8, FinishKeeps
  <1> QED BY <1>1, <1>2, <1>3, <1>4, <1>5, <1>6, <1>7, <1>8 DEF ReviewNext

-----------------------------------------------------------------------------
\* The invariant: what every window still knows in the middle of its work.
THEOREM ReviewInvariant == ReviewSpec => []ReviewInv
  BY ReviewInvInit, ReviewInvStep, PTL DEF ReviewSpec

\* A changeset is folded at most once, decided in full, and as decided,
\* whatever windows decide, save and finish at the same time.
THEOREM AlwaysFoldsWhatWasDecided == ReviewSpec => []FoldsWhatWasDecided
  <1>1. ReviewInv => FoldsWhatWasDecided
    BY DEF ReviewInv, VersionsAreFolds, Folded, FoldsWhatWasDecided
  <1> QED BY ReviewInvariant, <1>1, PTL

-----------------------------------------------------------------------------
(***************************************************************************)
(* A verdict touches its own change and nothing else.                      *)
(*                                                                         *)
(* The base is the text of the lines it was drafted with, a run's changes  *)
(* are the difference of two texts, and nothing but a verdict is written   *)
(* to them: so they are laid on the base as MaterialiseReads wants them.   *)
(***************************************************************************)

\* What stands on the base.
DocumentInv ==
    /\ \E lines \in Bases : Base = Text(lines)
    /\ writing \in Seq(Words)
    /\ \A c \in 1 .. Newest : Laid(changesets[c].changes, Base)

\* Of some numbers there is a least.
LEMMA LeastIs ==
    ASSUME NEW S, S \subseteq Nat, S # {}
    PROVE  \E k \in S : \A j \in S : k <= j
  <1>1. PICK m \in S : \A n \in S : ~ (<<n, m>> \in OpToRel(<, Nat))
    BY WFMin, NatLessThanWellFounded, Zenon
  <1>2. \A n \in S : ~ (n < m)
    BY <1>1 DEF OpToRel
  <1> QED BY <1>2

\* A text with a section rewritten is a text.
LEMMA WithSectionType ==
    ASSUME NEW lines \in Seq(Words), NEW heading \in Headings, NEW prose \in Seq(Words)
    PROVE  WithSection(lines, heading, prose) \in Seq(Words)
  <1> DEFINE N == Len(lines)
  <1>1. N \in Nat /\ <<Blank>> \in Seq(Words) /\ <<Blank, heading, Blank>> \in Seq(Words)
    <2>1. heading \in Words
      BY DEF Words
    <2> QED BY <2>1, WordsAreWords
  <1>2. ASSUME NEW k \in 0 .. N PROVE SubSeq(lines, 1, k) \in Seq(Words)
    <2>1. 0 + 1 = 1 /\ 0 \in Nat /\ k \in Nat /\ 0 <= k /\ k <= Len(lines)
      BY <1>1
    <2> QED BY <2>1, SubSeqType
  <1>3. CASE ~ Contains(lines, heading)
    <2> DEFINE blanksAtEnd == {k \in 0 .. N : \A i \in k + 1 .. N : lines[i] = Blank}
               kept == CHOOSE k \in blanksAtEnd : \A j \in blanksAtEnd : k <= j
    <2>1. blanksAtEnd \subseteq Nat /\ blanksAtEnd # {}
      <3>1. N \in blanksAtEnd
        BY <1>1
      <3> QED BY <1>1, <3>1
    <2>2. kept \in 0 .. N
      <3>1. \E k \in blanksAtEnd : \A j \in blanksAtEnd : k <= j
        <4> HIDE DEF blanksAtEnd
        <4> QED BY <2>1, LeastIs
      <3>2. kept \in blanksAtEnd
        <4> HIDE DEF blanksAtEnd
        <4> QED BY <3>1
      <3> QED BY <3>2
    <2>3. WithSection(lines, heading, prose)
            = SubSeq(lines, 1, kept) \o <<Blank, heading, Blank>> \o prose \o <<Blank>>
      BY <1>3 DEF WithSection
    <2> HIDE DEF kept
    <2> QED BY <1>1, <1>2, <2>2, <2>3, ConcatProperties
  <1>4. CASE Contains(lines, heading)
    <2> DEFINE here == {i \in 1 .. N : lines[i] = heading}
               start == CHOOSE i \in here : \A j \in here : i <= j
               next == {i \in start + 1 .. N : lines[i] \in Headings}
               rest == IF next = {} THEN N + 1
                       ELSE CHOOSE i \in next : \A j \in next : i <= j
    <2>1. start \in 1 .. N
      <3>1. here \subseteq Nat /\ here # {} /\ here \subseteq 1 .. N
        BY <1>4 DEF Contains
      <3>2. \E i \in here : \A j \in here : i <= j
        <4> HIDE DEF here
        <4> QED BY <3>1, LeastIs
      <3> HIDE DEF here
      <3>3. start \in here
        BY <3>2
      <3> QED BY <3>1, <3>3
    <2>2. WithSection(lines, heading, prose)
            = SubSeq(lines, 1, start) \o <<Blank>> \o prose \o <<Blank>>
                \o SubSeq(lines, rest, N)
      <3> DEFINE Following(s) == {i \in s + 1 .. N : lines[i] \in Headings}
                 From(s) == IF Following(s) = {} THEN N + 1
                            ELSE CHOOSE i \in Following(s) : \A j \in Following(s) : i <= j
                 Rewritten(s) == SubSeq(lines, 1, s) \o <<Blank>> \o prose \o <<Blank>>
                              \o SubSeq(lines, From(s), N)
                 found == IF here # {} THEN start ELSE 0
      <3>1. WithSection(lines, heading, prose) = Rewritten(found)
        BY <1>4 DEF WithSection, SelectInSeq, Min
      <3>2. found = start
        BY <1>4 DEF Contains
      <3>3. Rewritten(start) = SubSeq(lines, 1, start) \o <<Blank>> \o prose \o <<Blank>>
                            \o SubSeq(lines, rest, N)
        OBVIOUS
      <3> HIDE DEF Rewritten, found, start
      <3> QED BY <3>1, <3>2, <3>3
    <2> HIDE DEF start
    <2>3. rest \in 1 .. N + 1
      <3>1. CASE next = {}
        BY <1>1, <3>1
      <3>2. CASE next # {}
        <4>1. next \subseteq Nat /\ next \subseteq 1 .. N
          BY <2>1
        <4>2. \E i \in next : \A j \in next : i <= j
          <5> HIDE DEF next
          <5> QED BY <3>2, <4>1, LeastIs
        <4> HIDE DEF next
        <4>3. rest \in next
          BY <3>2, <4>2
        <4> HIDE DEF rest
        <4> QED BY <1>1, <4>1, <4>3
      <3> QED BY <3>1, <3>2
    <2> HIDE DEF rest
    <2>5. SubSeq(lines, rest, N) \in Seq(Words)
      <3>1. rest - 1 \in Nat /\ rest - 1 + 1 = rest /\ rest - 1 <= N /\ N \in Nat /\ N <= Len(lines)
        BY <1>1, <2>3
      <3> QED BY <3>1, SubSeqType
    <2>6. SubSeq(lines, 1, start) \in Seq(Words)
      BY <1>1, <1>2, <2>1
    <2> QED BY <1>1, <2>2, <2>5, <2>6, ConcatProperties
  <1> QED BY <1>3, <1>4

\* The base is what the lines it was drafted with read as.
LEMMA BaseIs ==
    ASSUME NEW base, NEW lines \in Bases, base = Text(lines)
    PROVE  base \in Seq(Words) /\ LinesOf(base) \in TextLines /\ Text(LinesOf(base)) = base
  <1>1. lines \in Seq(Words) /\ \A i \in 1 .. Len(lines) : lines[i] # Break
    <2>1. lines \in Seq(Words \ {Break})
      BY ReviewConstants
    <2> QED BY <2>1
  <1>2. base \in Seq(Words)
    BY <1>1, TextType
  <1> QED BY <1>1, <1>2, LinesOfType, RoundTrip

\* The first version is never another.
LEMMA BaseStays == ReviewInv /\ [ReviewNext]_reviewVars => Base' = Base
  <1> SUFFICES ASSUME ReviewInv, [ReviewNext]_reviewVars PROVE Base' = Base
    OBVIOUS
  <1>1. CASE versions' = versions
    BY <1>1 DEF Base
  <1>2. CASE \E w \in Windows : AddVersion(w)
    <2>1. PICK row : versions' = versions \/ versions' = Append(versions, row)
      BY <1>2 DEF AddVersion
    <2>2. IsSeq(versions) /\ Len(versions) >= 1
      BY DEF ReviewInv, Types
    <2>3. 1 \in 1 .. Len(versions)
      BY <2>2, SeqLen
    <2> QED BY <2>1, <2>2, <2>3, AppendIsSeq DEF Base
  <1>3. ASSUME NEW w \in Windows PROVE SaveOrders(w) => versions' = versions
    BY DEF SaveOrders
  <1>4. ASSUME NEW w \in Windows PROVE FinishOrders(w) => versions' = versions
    BY DEF FinishOrders
  <1> QED BY <1>1, <1>2, <1>3, <1>4
      DEF ReviewNext, RecordOutcomes, AttachChanges, RunDies, DecideOutcome, DecideReads,
          DecideWrites,
          SaveReads, FinishReads, FinishChecks, reviewVars

\* At the start the base is one that may be, and there are no changes.
LEMMA DocumentInvInit == ReviewInit => DocumentInv
  <1> SUFFICES ASSUME ReviewInit PROVE DocumentInv
    OBVIOUS
  <1>1. PICK lines \in Bases : versions = <<[text |-> Text(lines), from |-> 0]>>
    BY DEF ReviewInit
  <1>2. Base = Text(lines)
    BY <1>1 DEF Base
  <1>3. writing \in Seq(Words) /\ Newest = 0
    BY DEF ReviewInit, Nothing, Newest
  <1> QED BY <1>2, <1>3 DEF DocumentInv

\* What a run writes is a text, and its changes are laid on the base.
LEMMA DocumentInvStep == ReviewInv /\ DocumentInv /\ [ReviewNext]_reviewVars => DocumentInv'
  <1> SUFFICES ASSUME ReviewInv, DocumentInv, [ReviewNext]_reviewVars PROVE DocumentInv'
    OBVIOUS
  <1>1. Base' = Base
    BY BaseStays
  <1>2. PICK lines \in Bases : Base = Text(lines)
    BY DEF DocumentInv
  <1>3. Base \in Seq(Words) /\ LinesOf(Base) \in TextLines /\ Text(LinesOf(Base)) = Base
    BY <1>2, BaseIs
  <1>4. IsSeq(changesets) /\ Newest \in Nat
    BY SeqLen DEF ReviewInv, Types, Newest
  <1>5. ASSUME changesets' = changesets, writing' \in Seq(Words) PROVE DocumentInv'
    BY <1>1, <1>5 DEF DocumentInv, Newest
  <1>6. CASE \E heading \in Headings, prose \in Prose, answered \in BOOLEAN :
               RecordOutcomes(heading, prose, answered)
    <2>1. PICK heading \in Headings, prose \in Prose, answered \in BOOLEAN :
               RecordOutcomes(heading, prose, answered)
      BY <1>6
    <2>2. changesets' = changesets /\ writing' = WithSection(LinesOf(Base), heading, prose)
      BY <2>1 DEF RecordOutcomes
    <2>3. LinesOf(Base) \in Seq(Words)
      BY <1>3 DEF TextLines
    <2>4. prose \in Seq(Words)
      <3>1. prose \in Seq(Words \ {Break})
        BY ReviewConstants
      <3> QED BY <3>1
    <2> QED BY <1>5, <2>2, <2>3, <2>4, WithSectionType
  <1>7. CASE AttachChanges
    <2>1. PICK set : changesets' = Append(changesets, set) /\ set.changes
            = Diff(LinesOf(Base), writing)
      BY <1>7 DEF AttachChanges
    <2>2. writing' \in Seq(Words) /\ writing \in Seq(Words)
      BY <1>7 DEF AttachChanges, Nothing, DocumentInv
    <2>3. Laid(set.changes, Base)
      BY <1>3, <2>1, <2>2, DiffIsLaid
    <2>4. /\ Newest' = Newest + 1 /\ changesets'[Newest + 1] = set
          /\ \A c \in 1 .. Newest : changesets'[c] = changesets[c]
      BY <1>4, <2>1, AppendIsSeq DEF Newest
    <2>5. ASSUME NEW c \in 1 .. Newest' PROVE Laid(changesets'[c].changes, Base)
      <3>1. CASE c = Newest + 1
        BY <2>3, <2>4, <3>1
      <3>2. CASE c # Newest + 1
        <4>1. c \in 1 .. Newest
          BY <1>4, <2>4, <3>2
        <4> QED BY <2>4, <4>1 DEF DocumentInv
      <3> QED BY <3>1, <3>2
    <2> QED BY <1>1, <1>2, <2>2, <2>5 DEF DocumentInv
  <1>8. CASE \E w \in Windows : DecideWrites(w)
    <2>1. PICK w \in Windows : DecideWrites(w)
      BY <1>8
    <2> DEFINE c == windows[w].changeset
               k == windows[w].change
               set == [changesets[c] EXCEPT !.verdicts = [@ EXCEPT ![k] = windows[w].verdict]]
    <2>2. writing' \in Seq(Words)
      BY <2>1 DEF DecideWrites, DocumentInv
    <2>3. changesets' = changesets \/ changesets' = [changesets EXCEPT ![c] = set]
      BY <2>1 DEF DecideWrites
    <2>4. set.changes = changesets[c].changes
      OBVIOUS
    <2> HIDE DEF set, c
    <2>5. CASE changesets' = [changesets EXCEPT ![c] = set]
      <3>1. c \in 1 .. Newest
        BY <2>1 DEF DecideWrites, ReviewInv, WindowKnows, c
      <3>2. Newest' = Newest
        BY <1>4, <2>5, <3>1, ExceptIsSeq DEF Newest
      <3>3. \A d \in 1 .. Newest : changesets'[d].changes = changesets[d].changes
        <4>1. DOMAIN changesets = 1 .. Newest
          BY <1>4, SeqLen DEF Newest
        <4> QED BY <2>4, <2>5, <4>1
      <3> QED BY <1>1, <2>2, <3>2, <3>3 DEF DocumentInv
    <2> QED BY <1>5, <2>2, <2>3, <2>5
  <1>9. ASSUME NEW w \in Windows
        PROVE  SaveOrders(w) \/ FinishOrders(w) => changesets' = changesets /\ writing' = writing
    BY DEF SaveOrders, FinishOrders
  <1>10. CASE changesets' = changesets /\ writing' = writing
    BY <1>5, <1>10 DEF DocumentInv
  <1>11. CASE RunDies
    <2>1. changesets' = changesets /\ writing' \in Seq(Words)
      BY <1>11 DEF RunDies, Nothing
    <2> QED BY <1>5, <2>1
  <1> QED BY <1>6, <1>7, <1>8, <1>9, <1>10, <1>11
      DEF ReviewNext, DecideOutcome, DecideReads, AddVersion, SaveReads, FinishReads, FinishChecks,
          reviewVars

-----------------------------------------------------------------------------
\* The changes of every changeset stand on the base they were made of, each
\* where it quotes it and none into the next.
THEOREM DocumentInvariant == ReviewSpec => []DocumentInv
  BY DocumentInvInit, DocumentInvStep, ReviewInvariant, PTL DEF ReviewSpec

\* Whatever is decided, each verdict touches its own change and nothing else.
THEOREM DecisionsAreAlwaysLocal == ReviewSpec => []DecisionsAreLocal
  <1>1. ReviewInv /\ DocumentInv => DecisionsAreLocal
    <2> SUFFICES ASSUME ReviewInv, DocumentInv PROVE DecisionsAreLocal
      OBVIOUS
    <2>1. PICK lines \in Bases : Base = Text(lines)
      BY DEF DocumentInv
    <2>2. Base \in Seq(Words)
      BY <2>1, BaseIs
    <2>3. ASSUME NEW c \in 1 .. Newest PROVE Anchored(changesets[c].changes)
      <3> DEFINE changes == changesets[c].changes
      <3>1. Laid(changes, Base)
        BY DEF DocumentInv
      <3> HIDE DEF changes
      <3>2. \A k \in 1 .. Len(changes) :
               changes[k].exact = SubSeq(Base, changes[k].start + 1, changes[k].end)
        BY <3>1 DEF Laid, Quotes
      <3>3. \A k \in 1 .. Len(changes) : \A j \in k + 1 .. Len(changes) :
               j \in 1 .. Len(changes) /\ k < j
        BY <3>1 DEF Laid
      <3>4. \A k \in 1 .. Len(changes) : \A j \in k + 1 .. Len(changes) :
               changes[k].end <= changes[j].start
        BY <3>1, <3>3 DEF Laid
      <3> QED BY <3>2, <3>4 DEF Anchored, changes
    <2>4. ASSUME NEW i \in 1 .. Len(versions), versions[i].from # 0,
                 OneAtAPlace(changesets[versions[i].from].changes)
          PROVE  versions[i].text = Reading(Base, changesets[versions[i].from].changes,
                                            changesets[versions[i].from].verdicts)
      <3> DEFINE set == changesets[versions[i].from]
      <3>1. versions[i].from \in 1 .. Newest
            /\ versions[i].text = Materialise(Base, set.changes, set.verdicts)
        BY <2>4 DEF ReviewInv, VersionsAreFolds, Folded
      <3>2. Laid(set.changes, Base)
        BY <3>1 DEF DocumentInv
      <3> QED BY <2>2, <2>4, <3>1, <3>2, MaterialiseReads
    <2> QED BY <2>3, <2>4 DEF DecisionsAreLocal
  <1> QED BY <1>1, ReviewInvariant, DocumentInvariant, PTL

=============================================================================
