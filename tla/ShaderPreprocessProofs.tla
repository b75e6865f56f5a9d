----------------------- MODULE ShaderPreprocessProofs -----------------------
(***************************************************************************)
(* Theorems about ShaderPreprocess, for every value of its constants.      *)
(***************************************************************************)
EXTENDS ShaderPreprocess, SequenceTheorems, WellFoundedInduction, TLAPS

\* A set of numbers that is not empty has a least element.
LEMMA LeastNumber ==
  ASSUME NEW T \in SUBSET Nat, T # {}
  PROVE  \E x \in T : \A y \in T : x <= y
<1>1. PICK R : /\ IsWellFoundedOn(R, Nat)
               /\ \A x, y \in Nat : y < x => <<y, x>> \in R
  <2>1. IsWellFoundedOn(OpToRel(<, Nat), Nat)  BY NatLessThanWellFounded
  <2>2. \A x, y \in Nat : y < x => <<y, x>> \in OpToRel(<, Nat)  BY DEF OpToRel
  <2>3. QED  BY <2>1, <2>2, Zenon
<1>2. PICK x \in T : \A y \in T : <<y, x>> \notin R  BY <1>1, WFMin
<1>3. ASSUME NEW y \in T PROVE x <= y
  <2>1. x \in Nat /\ y \in Nat  OBVIOUS
  <2>2. ~(y < x)  BY <1>1, <1>2, <2>1, Zenon
  <2>3. QED  BY <2>1, <2>2
<1>4. QED  BY <1>3

\* A set that holds 0 and, with each number, the next one, holds every number:
\* the least number missing would have a predecessor.
LEMMA Induction ==
  ASSUME NEW S, 0 \in S, \A n \in Nat : n \in S => n + 1 \in S
  PROVE  Nat \subseteq S
<1> SUFFICES ASSUME NEW z \in Nat, z \notin S PROVE FALSE  OBVIOUS
<1> DEFINE T == {n \in Nat : n \notin S}
<1>1. T \in SUBSET Nat /\ T # {}  OBVIOUS
<1>2. PICK x \in T : \A y \in T : x <= y
  <2> HIDE DEF T
  <2>1. QED  BY <1>1, LeastNumber
<1>3. x \in Nat /\ x # 0 /\ x - 1 \in Nat  OBVIOUS
<1>4. x - 1 \in T
  <2>1. x - 1 \in S => (x - 1) + 1 \in S  BY <1>3
  <2>2. QED  BY <1>3, <2>1
<1>5. QED  BY <1>2, <1>3, <1>4

\* What is so for 0 and goes from each number up to a bound to the next, is so
\* for all of them.
LEMMA BoundedInduction ==
  ASSUME NEW N \in Nat, NEW S, 0 \in S, \A n \in 1..N : n - 1 \in S => n \in S
  PROVE  0..N \subseteq S
<1> DEFINE T == S \cup {n \in Nat : n > N}
<1>1. 0 \in T  OBVIOUS
<1>2. ASSUME NEW n \in Nat, n \in T PROVE n + 1 \in T
  <2>1. CASE n + 1 > N  BY <2>1
  <2>2. CASE n + 1 <= N
    <3>1. n + 1 \in 1..N /\ (n + 1) - 1 = n /\ n \in S  BY <1>2, <2>2
    <3>2. QED  BY <3>1
  <2>3. QED  BY <2>1, <2>2
<1>3. Nat \subseteq T
  <2> HIDE DEF T
  <2>1. QED  BY <1>1, <1>2, Induction
<1>4. QED  BY <1>3

\* A recursion over the first numbers, each value made from the one before.
SolvesRecursion(f, N, V, base, step) ==
    /\ f \in [0..N -> V] /\ f[0] = base
    /\ \A n \in 1..N : f[n] = step[n][f[n - 1]]

\* It has a solution.
LEMMA RecursionExists ==
  ASSUME NEW N \in Nat, NEW V, NEW base \in V, NEW step \in [1..N -> [V -> V]]
  PROVE  \E f : SolvesRecursion(f, N, V, base, step)
<1> DEFINE Solves(f, n) == /\ f \in [0..n -> V] /\ f[0] = base
                           /\ \A k \in 1..n : f[k] = step[k][f[k - 1]]
           S == {n \in 0..N : \E f : Solves(f, n)}
<1>1. 0 \in S
  <2> DEFINE g == [n \in 0..0 |-> base]
  <2>1. Solves(g, 0)  OBVIOUS
  <2> HIDE DEF Solves
  <2>2. QED  BY <2>1
<1>2. ASSUME NEW n \in 1..N, n - 1 \in S PROVE n \in S
  <2>1. PICK f : Solves(f, n - 1)  BY <1>2
  <2> DEFINE g == [k \in 0..n |-> IF k = n THEN step[n][f[n - 1]] ELSE f[k]]
  <2>2. f[n - 1] \in V /\ step[n][f[n - 1]] \in V
    <3>1. n - 1 \in 0..(n - 1)  OBVIOUS
    <3>2. f[n - 1] \in V  BY <2>1, <3>1
    <3>3. step[n] \in [V -> V]  OBVIOUS
    <3>4. QED  BY <3>2, <3>3
  <2>3. g \in [0..n -> V]  BY <2>1, <2>2
  <2>4. g[0] = base  BY <2>1
  <2>5. ASSUME NEW k \in 1..n PROVE g[k] = step[k][g[k - 1]]
    <3>1. g[k - 1] = f[k - 1]  OBVIOUS
    <3>2. CASE k = n  BY <3>1, <3>2
    <3>3. CASE k # n
      <4>1. k \in 1..(n - 1)  BY <3>3
      <4>2. g[k] = f[k]  BY <3>3
      <4>3. f[k] = step[k][f[k - 1]]  BY <2>1, <4>1
      <4>4. QED  BY <3>1, <4>2, <4>3
    <3>4. QED  BY <3>2, <3>3
  <2>6. Solves(g, n)  BY <2>3, <2>4, <2>5
  <2> HIDE DEF Solves
  <2>7. QED  BY <2>6
<1>3. 0..N \subseteq S
  <2> HIDE DEF S
  <2>1. QED  BY <1>1, <1>2, BoundedInduction
<1>4. PICK f : Solves(f, N)  BY <1>3
<1>5. SolvesRecursion(f, N, V, base, step)  BY <1>4 DEF SolvesRecursion
<1>6. QED  BY <1>5

-----------------------------------------------------------------------------
\* What a line of a text is expanded to.
Piece(line, File) ==
    IF line.kind # "include" THEN <<line>>
    ELSE IF line.path \in DOMAIN File THEN File[line.path] ELSE <<>>

\* A function from paths to texts.
IsFiles(File) == \A p \in DOMAIN File : File[p] \in Seq(Lines)

LEMMA PieceType ==
  ASSUME NEW line \in Lines, NEW File, IsFiles(File)
  PROVE  Piece(line, File) \in Seq(Lines)
<1>1. <<line>> \in Seq(Lines) /\ <<>> \in Seq(Lines)  OBVIOUS
<1>2. QED  BY <1>1 DEF Piece, IsFiles

\* Expansions, unfolded: a line at a time.
LEMMA ExpansionsUnfold ==
  ASSUME NEW text \in Seq(Lines), NEW File, IsFiles(File)
  PROVE  /\ \A n \in 0..Len(text) : Expansions(text, File)[n] \in Seq(Lines)
         /\ Expansions(text, File)[0] = <<>>
         /\ \A n \in 1..Len(text) :
               Expansions(text, File)[n] = Expansions(text, File)[n - 1] \o Piece(text[n], File)
<1> DEFINE N == Len(text)
           step == [n \in 1..N |-> [s \in Seq(Lines) |-> s \o Piece(text[n], File)]]
           IsUpTo(f) == f = [n \in 0..N |-> IF n = 0 THEN <<>>
                                            ELSE f[n - 1] \o Piece(text[n], File)]
<1>1. N \in Nat /\ <<>> \in Seq(Lines)  OBVIOUS
<1>2. \A n \in 1..N : text[n] \in Lines  OBVIOUS
<1>3. step \in [1..N -> [Seq(Lines) -> Seq(Lines)]]
  <2>1. \A n \in 1..N : Piece(text[n], File) \in Seq(Lines)  BY <1>2, PieceType
  <2>2. \A n \in 1..N : \A s \in Seq(Lines) : s \o Piece(text[n], File) \in Seq(Lines)
    BY <2>1
  <2>3. QED  BY <2>2
<1>4. PICK f : SolvesRecursion(f, N, Seq(Lines), <<>>, step)
  <2> HIDE DEF step, N
  <2>1. QED  BY <1>1, <1>3, RecursionExists
<1>5. /\ f \in [0..N -> Seq(Lines)] /\ f[0] = <<>>
      /\ \A n \in 1..N : f[n] = step[n][f[n - 1]]
  BY <1>4 DEF SolvesRecursion
<1>6. ASSUME NEW n \in 1..N PROVE f[n] = f[n - 1] \o Piece(text[n], File)
  <2>1. n - 1 \in 0..N  OBVIOUS
  <2>2. f[n - 1] \in Seq(Lines)  BY <1>5, <2>1
  <2>3. step[n][f[n - 1]] = f[n - 1] \o Piece(text[n], File)  BY <2>2
  <2>4. QED  BY <1>5, <2>3
<1>7. IsUpTo(f)
  <2>1. f = [n \in 0..N |-> f[n]]  BY <1>5
  <2>2. ASSUME NEW n \in 0..N
        PROVE  f[n] = IF n = 0 THEN <<>> ELSE f[n - 1] \o Piece(text[n], File)
    <3>1. CASE n = 0  BY <1>5, <3>1
    <3>2. CASE n # 0
      <4>1. n \in 1..N  BY <3>2
      <4>2. QED  BY <1>6, <3>2, <4>1
    <3>3. QED  BY <3>1, <3>2
  <2> HIDE DEF N
  <2>3. QED  BY <2>1, <2>2
<1>8. Expansions(text, File) = CHOOSE g : IsUpTo(g)  BY Zenon DEF Expansions, Piece
<1>9. IsUpTo(Expansions(text, File))
  <2> HIDE DEF IsUpTo
  <2>1. QED  BY <1>7, <1>8
<1> DEFINE E == Expansions(text, File)
<1> HIDE DEF E
<1>10. IsUpTo(E)  BY <1>9 DEF E
<1>11. E[0] = <<>>  BY <1>10
<1>12. \A n \in 1..N : E[n] = E[n - 1] \o Piece(text[n], File)  BY <1>10
<1>13. \A n \in 0..N : E[n] \in Seq(Lines)
  <2> DEFINE S == {n \in 0..N : E[n] \in Seq(Lines)}
  <2>1. 0 \in S
    <3>1. 0 \in 0..N  BY <1>1
    <3>2. E[0] \in Seq(Lines)  BY <1>1, <1>11
    <3>3. QED  BY <3>1, <3>2
  <2>2. ASSUME NEW n \in 1..N, n - 1 \in S PROVE n \in S
    <3>1. Piece(text[n], File) \in Seq(Lines)  BY <1>2, PieceType
    <3>2. E[n - 1] \in Seq(Lines)  BY <2>2
    <3>3. E[n] = E[n - 1] \o Piece(text[n], File)  BY <1>12
    <3>4. E[n] \in Seq(Lines)  BY <3>1, <3>2, <3>3
    <3>5. QED  BY <3>4
  <2>3. 0..N \subseteq S
    <3> HIDE DEF S, N
    <3>1. QED  BY <1>1, <2>1, <2>2, BoundedInduction
  <2>4. QED  BY <2>3
<1>14. QED  BY <1>11, <1>12, <1>13 DEF E

\* Files that agree on what a text includes expand it to the same.
LEMMA ExpandSame ==
  ASSUME NEW text \in Seq(Lines), NEW File, NEW Other, IsFiles(File), IsFiles(Other),
         DOMAIN File = DOMAIN Other,
         \A p \in Included(text, File) : File[p] = Other[p]
  PROVE  Expand(text, File) = Expand(text, Other)
<1> DEFINE E == Expansions(text, File)
           O == Expansions(text, Other)
           N == Len(text)
           S == {n \in 0..N : E[n] = O[n]}
<1>1. /\ E[0] = <<>> /\ O[0] = <<>>
      /\ \A n \in 1..N : E[n] = E[n - 1] \o Piece(text[n], File)
      /\ \A n \in 1..N : O[n] = O[n - 1] \o Piece(text[n], Other)
  BY ExpansionsUnfold
<1>2. ASSUME NEW n \in 1..N PROVE Piece(text[n], File) = Piece(text[n], Other)
  <2>1. n \in DOMAIN text  OBVIOUS
  <2>2. CASE text[n].kind = "include" /\ text[n].path \in DOMAIN File
    <3>1. text[n].path \in Included(text, File)  BY <2>1, <2>2 DEF Included
    <3>2. QED  BY <2>2, <3>1 DEF Piece
  <2>3. CASE ~(text[n].kind = "include" /\ text[n].path \in DOMAIN File)
    BY <2>3 DEF Piece
  <2>4. QED  BY <2>2, <2>3
<1>3. N \in Nat  OBVIOUS
<1> HIDE DEF E, O, N
<1>4. 0 \in S  BY <1>1, <1>3
<1>5. ASSUME NEW n \in 1..N, n - 1 \in S PROVE n \in S
  <2>1. n \in 0..N /\ E[n - 1] = O[n - 1]  BY <1>3, <1>5
  <2>2. E[n] = O[n]  BY <1>1, <1>2, <2>1
  <2>3. QED  BY <2>1, <2>2
<1>6. 0..N \subseteq S
  <2> HIDE DEF S
  <2>1. QED  BY <1>3, <1>4, <1>5, BoundedInduction
<1>7. E[N] = O[N]  BY <1>3, <1>6
<1>8. QED  BY <1>7 DEF Expand, E, O, N

\* A text that includes nothing expands to itself.
LEMMA ExpandPlain ==
  ASSUME NEW text \in Seq(Lines), NEW File, IsFiles(File),
         \A n \in DOMAIN text : text[n].kind # "include"
  PROVE  Expand(text, File) = text
<1> DEFINE E == Expansions(text, File)
           N == Len(text)
           S == {n \in 0..N : E[n] = SubSeq(text, 1, n)}
<1>1. /\ E[0] = <<>>
      /\ \A n \in 1..N : E[n] = E[n - 1] \o Piece(text[n], File)
  BY ExpansionsUnfold
<1>2. \A n \in 1..N : Piece(text[n], File) = <<text[n]>>  BY DEF Piece
<1>3. N \in Nat  OBVIOUS
<1>4. \A n \in 1..N : SubSeq(text, 1, n) = SubSeq(text, 1, n - 1) \o <<text[n]>>
  OBVIOUS
<1>5. SubSeq(text, 1, 0) = <<>> /\ SubSeq(text, 1, N) = text  OBVIOUS
<1> HIDE DEF E, N
<1>6. 0 \in S
  <2>1. E[0] = SubSeq(text, 1, 0)  BY <1>1, <1>5, Zenon
  <2>2. QED  BY <1>3, <2>1
<1>7. ASSUME NEW n \in 1..N, n - 1 \in S PROVE n \in S
  <2>1. n \in 0..N /\ E[n - 1] = SubSeq(text, 1, n - 1)  BY <1>3, <1>7
  <2>2. E[n] = SubSeq(text, 1, n)  BY <1>1, <1>2, <1>4, <2>1
  <2>3. QED  BY <2>1, <2>2
<1>8. 0..N \subseteq S
  <2> HIDE DEF S
  <2>1. QED  BY <1>3, <1>6, <1>7, BoundedInduction
<1>9. E[N] = SubSeq(text, 1, N)  BY <1>3, <1>8
<1>10. QED  BY <1>5, <1>9 DEF Expand, E, N

LEMMA ExpandType ==
  ASSUME NEW text \in Seq(Lines), NEW File, IsFiles(File)
  PROVE  Expand(text, File) \in Seq(Lines)
<1>1. Len(text) \in 0..Len(text)  OBVIOUS
<1>2. QED  BY <1>1, ExpansionsUnfold DEF Expand

\* Expanded, unfolded: a file more that can be opened at a time.
LEMMA ExpandedUnfold ==
  ASSUME NEW files, IsFiles(files)
  PROVE  /\ \A k \in 0..(MaxOpen + 1) : /\ DOMAIN Expanded(files)[k] = DOMAIN files
                                        /\ IsFiles(Expanded(files)[k])
         /\ \A p \in DOMAIN files : Expanded(files)[0][p] = <<>>
         /\ \A k \in 1..(MaxOpen + 1) : \A p \in DOMAIN files :
               Expanded(files)[k][p] = Expand(files[p], Expanded(files)[k - 1])
<1> DEFINE N == MaxOpen + 1
           P == DOMAIN files
           V == [P -> Seq(Lines)]
           none == [p \in P |-> <<>>]
           step == [k \in 1..N |-> [File \in V |-> [p \in P |-> Expand(files[p], File)]]]
           IsFile(f) == f = [k \in 0..N |->
                                [p \in P |-> IF k = 0 THEN <<>>
                                             ELSE Expand(files[p], f[k - 1])]]
<1>1. N \in Nat  BY MaxOpenAssumption
<1>2. none \in V
  <2>1. <<>> \in Seq(Lines)  OBVIOUS
  <2>2. QED  BY <2>1
<1>3. step \in [1..N -> [V -> V]]
  <2>1. ASSUME NEW File \in V PROVE \A p \in P : Expand(files[p], File) \in Seq(Lines)
    <3>1. IsFiles(File)  BY DEF IsFiles
    <3>2. QED  BY <3>1, ExpandType DEF IsFiles
  <2>2. \A File \in V : [p \in P |-> Expand(files[p], File)] \in V  BY <2>1
  <2> HIDE DEF V
  <2>3. QED  BY <2>2
<1>4. PICK f : SolvesRecursion(f, N, V, none, step)
  <2> HIDE DEF step, N, none, V
  <2>1. QED  BY <1>1, <1>2, <1>3, RecursionExists
<1> HIDE DEF N, V
<1>5. /\ f \in [0..N -> V] /\ f[0] = none
      /\ \A k \in 1..N : f[k] = step[k][f[k - 1]]
  BY <1>4 DEF SolvesRecursion
<1>6. ASSUME NEW k \in 1..N PROVE f[k] = [p \in P |-> Expand(files[p], f[k - 1])]
  <2>1. k - 1 \in 0..N  BY <1>1
  <2>2. f[k - 1] \in V  BY <1>5, <2>1
  <2>3. step[k][f[k - 1]] = [p \in P |-> Expand(files[p], f[k - 1])]  BY <2>2
  <2>4. QED  BY <1>5, <2>3
<1>7. IsFile(f)
  <2>1. f = [k \in 0..N |-> f[k]]  BY <1>5
  <2>2. ASSUME NEW k \in 0..N
        PROVE  f[k] = [p \in P |-> IF k = 0 THEN <<>> ELSE Expand(files[p], f[k - 1])]
    <3>1. CASE k = 0  BY <1>5, <3>1
    <3>2. CASE k # 0
      <4>1. k \in 1..N  BY <1>1, <3>2
      <4>2. QED  BY <1>6, <3>2, <4>1
    <3>3. QED  BY <3>1, <3>2
  <2>3. QED  BY <2>1, <2>2
<1>8. Expanded(files) = CHOOSE g : IsFile(g)  BY Zenon DEF Expanded, N
<1>9. IsFile(Expanded(files))
  <2> HIDE DEF IsFile
  <2>1. QED  BY <1>7, <1>8
<1> DEFINE X == Expanded(files)
<1> HIDE DEF X
<1>10. IsFile(X)  BY <1>9 DEF X
<1>11. 0 \in 0..N  BY <1>1
<1>12. X[0] = none  BY <1>10, <1>11
<1>13. ASSUME NEW k \in 1..N PROVE X[k] = [p \in P |-> Expand(files[p], X[k - 1])]
  <2>1. k \in 0..N /\ k # 0  BY <1>1
  <2>2. QED  BY <1>10, <2>1
<1>14. 0..N \subseteq {k \in 0..N : X[k] \in V}
  <2> DEFINE S == {k \in 0..N : X[k] \in V}
  <2>1. 0 \in S  BY <1>2, <1>11, <1>12
  <2>2. ASSUME NEW k \in 1..N, k - 1 \in S PROVE k \in S
    <3>1. k \in 0..N /\ X[k - 1] \in V  BY <1>1, <2>2
    <3>2. step[k][X[k - 1]] \in V  BY <1>3, <3>1
    <3>3. step[k][X[k - 1]] = X[k]  BY <1>13, <3>1
    <3>4. QED  BY <3>1, <3>2, <3>3
  <2>3. QED
    <3> HIDE DEF S
    <3>1. 0..N \subseteq S  BY <1>1, <2>1, <2>2, BoundedInduction
    <3>2. QED  BY <3>1 DEF S
<1>15. ASSUME NEW k \in 0..N PROVE DOMAIN X[k] = P /\ IsFiles(X[k])
  <2>1. X[k] \in V  BY <1>14
  <2>2. QED  BY <2>1 DEF V, IsFiles
<1>16. \A p \in P : X[0][p] = <<>>  BY <1>12
<1>17. \A k \in 1..N : \A p \in P : X[k][p] = Expand(files[p], X[k - 1])  BY <1>13
<1>18. QED  BY <1>15, <1>16, <1>17 DEF X, N

\* ReachedFrom, unfolded: a step at a time.
LEMMA ReachedUnfold ==
  ASSUME NEW text, NEW files
  PROVE  /\ \A k \in 0..MaxOpen : ReachedFrom(text, files)[k] \subseteq DOMAIN files
         /\ ReachedFrom(text, files)[0] = Included(text, files)
         /\ \A k \in 1..MaxOpen : \A p \in ReachedFrom(text, files)[k - 1] :
               Included(files[p], files) \subseteq ReachedFrom(text, files)[k]
<1> DEFINE N == MaxOpen
           V == SUBSET DOMAIN files
           base == Included(text, files)
           Onward(R) == UNION {Included(files[p], files) : p \in R}
           step == [k \in 1..N |-> [R \in V |-> Onward(R)]]
           IsReached(f) == f = [k \in 0..N |-> IF k = 0 THEN base ELSE Onward(f[k - 1])]
<1>1. N \in Nat  BY MaxOpenAssumption
<1>2. base \in V /\ \A R : Onward(R) \in V  BY DEF Included
<1>3. step \in [1..N -> [V -> V]]
  <2> HIDE DEF V, Onward
  <2>1. QED  BY <1>2
<1>4. PICK f : SolvesRecursion(f, N, V, base, step)
  <2> HIDE DEF step, N, base, V
  <2>1. QED  BY <1>1, <1>2, <1>3, RecursionExists
<1> HIDE DEF N, V, Onward, base
<1>5. /\ f \in [0..N -> V] /\ f[0] = base
      /\ \A k \in 1..N : f[k] = step[k][f[k - 1]]
  BY <1>4 DEF SolvesRecursion
<1>6. ASSUME NEW k \in 1..N PROVE f[k] = Onward(f[k - 1])
  <2>1. k - 1 \in 0..N  BY <1>1
  <2>2. f[k - 1] \in V  BY <1>5, <2>1
  <2>3. step[k][f[k - 1]] = Onward(f[k - 1])  BY <2>2
  <2>4. QED  BY <1>5, <2>3
<1>7. IsReached(f)
  <2>1. f = [k \in 0..N |-> f[k]]  BY <1>5
  <2>2. ASSUME NEW k \in 0..N
        PROVE  f[k] = IF k = 0 THEN base ELSE Onward(f[k - 1])
    <3>1. CASE k = 0  BY <1>5, <3>1
    <3>2. CASE k # 0
      <4>1. k \in 1..N  BY <1>1, <3>2
      <4>2. QED  BY <1>6, <3>2, <4>1
    <3>3. QED  BY <3>1, <3>2
  <2>3. QED  BY <2>1, <2>2
<1>8. ReachedFrom(text, files) = CHOOSE g : IsReached(g)
  BY Zenon DEF ReachedFrom, N, Onward, base
<1>9. IsReached(ReachedFrom(text, files))
  <2> HIDE DEF IsReached
  <2>1. QED  BY <1>7, <1>8
<1> DEFINE X == ReachedFrom(text, files)
<1> HIDE DEF X
<1>10. IsReached(X)  BY <1>9 DEF X
<1>11. 0 \in 0..N  BY <1>1
<1>12. X[0] = base  BY <1>10, <1>11
<1>13. ASSUME NEW k \in 1..N PROVE X[k] = Onward(X[k - 1])
  <2>1. k \in 0..N /\ k # 0  BY <1>1
  <2>2. QED  BY <1>10, <2>1
<1>14. ASSUME NEW k \in 0..N PROVE X[k] \subseteq DOMAIN files
  <2>1. CASE k = 0  BY <1>2, <1>12, <2>1 DEF V
  <2>2. CASE k # 0
    <3>1. k \in 1..N  BY <1>1, <2>2
    <3>2. QED  BY <1>2, <1>13, <3>1 DEF V
  <2>3. QED  BY <2>1, <2>2
<1>15. \A k \in 1..N : \A p \in X[k - 1] : Included(files[p], files) \subseteq X[k]
  BY <1>13 DEF Onward
<1>16. QED  BY <1>12, <1>14, <1>15 DEF X, N, base

-----------------------------------------------------------------------------
\* A sequence without its last element.
LEMMA FrontOfSequence ==
  ASSUME NEW S, NEW s \in Seq(S), s # <<>>
  PROVE  /\ SubSeq(s, 1, Len(s) - 1) \in Seq(S)
         /\ Len(SubSeq(s, 1, Len(s) - 1)) = Len(s) - 1
         /\ \A n \in 1..(Len(s) - 1) : SubSeq(s, 1, Len(s) - 1)[n] = s[n]
<1>1. Len(s) \in Nat /\ Len(s) # 0 /\ Len(s) - 1 \in Int  OBVIOUS
<1>2. \A i \in 1..(Len(s) - 1) : s[i] \in S  BY <1>1
<1> DEFINE t == SubSeq(s, 1, Len(s) - 1)
<1>3. /\ t \in Seq(S)
      /\ Len(t) = IF 1 <= Len(s) - 1 THEN (Len(s) - 1) - 1 + 1 ELSE 0
      /\ \A i \in 1..((Len(s) - 1) - 1 + 1) : t[i] = s[1 + i - 1]
  <2>1. 1 \in Int  OBVIOUS
  <2>2. QED  BY <1>1, <1>2, <2>1, SubSeqProperties
<1> DEFINE L == Len(s)
           M == Len(t)
<1> HIDE DEF t, L, M
<1>4. L \in Nat /\ L # 0 /\ M = IF 1 <= L - 1 THEN (L - 1) - 1 + 1 ELSE 0
  BY <1>1, <1>3 DEF L, M
<1>5. M = L - 1  BY <1>4
<1>6. \A n \in 1..(Len(s) - 1) : t[n] = s[n]  BY <1>1, <1>3
<1>7. QED  BY <1>3, <1>5, <1>6 DEF t, L, M

\* A sequence whose last element is replaced.
DiffersAtLast(t, s, x) ==
    /\ Len(t) = Len(s) /\ t # <<>> /\ t[Len(s)] = x
    /\ \A n \in 1..(Len(s) - 1) : t[n] = s[n]

LEMMA LastReplaced ==
  ASSUME NEW S, NEW s \in Seq(S), s # <<>>, NEW x \in S, NEW t,
         t = Append(SubSeq(s, 1, Len(s) - 1), x)
  PROVE  t \in Seq(S) /\ DiffersAtLast(t, s, x)
<1>1. Len(s) \in Nat /\ Len(s) # 0  OBVIOUS
<1> DEFINE front == SubSeq(s, 1, Len(s) - 1)
<1>2. /\ front \in Seq(S) /\ Len(front) = Len(s) - 1
      /\ \A n \in 1..(Len(s) - 1) : front[n] = s[n]
  BY <1>1, FrontOfSequence
<1> HIDE DEF front
<1>3. t = Append(front, x)  BY DEF front
<1>4. t \in Seq(S) /\ t # <<>> /\ Len(t) = Len(s)  BY <1>1, <1>2, <1>3, AppendProperties
<1>5. t[Len(s)] = x
  <2>1. t[Len(front) + 1] = x  BY <1>2, <1>3, AppendProperties
  <2>2. Len(front) + 1 = Len(s)  BY <1>1, <1>2
  <2>3. QED  BY <2>1, <2>2, Zenon
<1>6. \A n \in 1..(Len(s) - 1) : t[n] = s[n]  BY <1>1, <1>2, <1>3, AppendProperties
<1>7. QED  BY <1>4, <1>5, <1>6 DEF DiffersAtLast

\* The bottom of the stack that the top stands on.
LEMMA BelowType ==
  ASSUME stack \in Seq(Activations), stack # <<>>
  PROVE  /\ Below \in Seq(Activations) /\ Len(Below) = Len(stack) - 1
         /\ \A n \in 1..(Len(stack) - 1) : Below[n] = stack[n]
<1>1. QED  BY FrontOfSequence DEF Below

LEMMA TopType ==
  ASSUME stack \in Seq(Activations), stack # <<>>
  PROVE  /\ Len(stack) \in Nat \ {0} /\ Top \in Activations
         /\ Top.lines \in Seq(Lines) /\ Top.at \in Nat /\ Top.ret \in Seq(Lines)
<1>1. Len(stack) \in Nat /\ Len(stack) # 0 /\ Len(stack) \in 1..Len(stack)  OBVIOUS
<1>2. Top \in Activations  BY <1>1 DEF Top
<1>3. QED  BY <1>1, <1>2 DEF Activations

\* The first mention of an include in a text that has one.
LEMMA FirstMentionFound ==
  ASSUME NEW text \in Seq(Lines), NEW k \in DOMAIN text, MentionsInclude(text[k])
  PROVE  /\ FirstMention(text) \in 1..Len(text) /\ FirstMention(text) <= k
         /\ MentionsInclude(text[FirstMention(text)])
         /\ \A m \in 1..(FirstMention(text) - 1) : ~MentionsInclude(text[m])
<1> DEFINE T == {n \in 1..Len(text) : MentionsInclude(text[n])}
           First(n) == MentionsInclude(text[n]) /\ \A m \in 1..(n - 1) : ~MentionsInclude(text[m])
<1>1. DOMAIN text = 1..Len(text) /\ Len(text) \in Nat  OBVIOUS
<1>2. T \in SUBSET Nat /\ T # {}  BY <1>1
<1>3. PICK x \in T : \A y \in T : x <= y
  <2> HIDE DEF T
  <2>1. QED  BY <1>2, LeastNumber
<1>4. x \in DOMAIN text /\ First(x)  BY <1>1, <1>3
<1>5. FirstMention(text) = CHOOSE n \in DOMAIN text : First(n)  BY DEF FirstMention
<1>6. FirstMention(text) \in DOMAIN text /\ First(FirstMention(text))
  <2> HIDE DEF First
  <2>1. QED  BY <1>4, <1>5
<1>7. FirstMention(text) <= k
  <2>1. k \in Nat /\ FirstMention(text) \in Nat /\ k >= 1  BY <1>1, <1>6
  <2>2. k > FirstMention(text) \/ k <= FirstMention(text)  BY <2>1
  <2> DEFINE F == FirstMention(text)
  <2> HIDE DEF F
  <2>3. ASSUME k < F PROVE FALSE
    <3>1. k \in 1..(F - 1)  BY <2>1, <2>3 DEF F
    <3>2. QED  BY <1>6, <3>1 DEF F
  <2>4. QED  BY <2>1, <2>3 DEF F
<1>8. QED  BY <1>1, <1>6, <1>7

LEMMA PairIsSeq ==
  ASSUME NEW S, NEW a \in S, NEW b \in S
  PROVE  <<a>> \in Seq(S) /\ <<a, b>> \in Seq(S)
<1>1. <<a, b>> \in [1..2 -> S]
  <2>1. \A i \in 1..2 : <<a, b>>[i] = IF i = 1 THEN a ELSE b  OBVIOUS
  <2>2. DOMAIN <<a, b>> = 1..2  OBVIOUS
  <2>3. QED  BY <2>1, <2>2
<1>2. QED  BY <1>1

LEMMA JoinedType ==
  ASSUME NEW S, NEW a \in Seq(S), NEW b \in Seq(S), NEW c \in Seq(S)
  PROVE  a \o b \o c \in Seq(S)
<1>1. a \o b \in Seq(S)  BY ConcatProperties
<1>2. QED  BY <1>1, ConcatProperties

LEMMA PrepareType ==
  ASSUME NEW text \in Seq(Lines)
  PROVE  WithVersion(text) \in Seq(Lines) /\ WithExtension(text) \in Seq(Lines)
<1>1. Version \in Lines /\ Extension \in Lines /\ [kind |-> "text", path |-> ""] \in Lines
  BY PathsAssumption DEF Version, Extension, Lines, Kinds
<1>2. WithVersion(text) \in Seq(Lines)
  <2>1. <<Version>> \in Seq(Lines)  BY <1>1, PairIsSeq
  <2>2. <<Version>> \o text \in Seq(Lines)  BY <2>1, ConcatProperties
  <2>3. QED  BY <2>2 DEF WithVersion
<1>3. CASE \A n \in DOMAIN text : ~MentionsInclude(text[n])
  <2>1. WithExtension(text) = text  BY <1>3, Zenon DEF WithExtension
  <2>2. QED  BY <1>2, <2>1
<1>4. CASE ~\A n \in DOMAIN text : ~MentionsInclude(text[n])
  <2> DEFINE F == FirstMention(text)
             broken == [text[F] EXCEPT !.kind = "include"]
  <2>1. F \in 1..Len(text) /\ Len(text) \in Nat  BY <1>4, FirstMentionFound
  <2>2. broken \in Lines
    <3>1. text[F] \in Lines  BY <2>1
    <3>2. QED  BY <3>1 DEF Lines, Kinds
  <2> DEFINE before == SubSeq(text, 1, F - 1)
             after == SubSeq(text, F + 1, Len(text))
             lost == <<[kind |-> "text", path |-> ""], broken>>
             added == <<Extension, broken>>
  <2>3. before \in Seq(Lines) /\ after \in Seq(Lines)  BY <2>1
  <2>4. \/ WithExtension(text) = before \o lost \o after
        \/ WithExtension(text) = before \o added \o after
    BY <1>4, Zenon DEF WithExtension
  <2>5. lost \in Seq(Lines) /\ added \in Seq(Lines)
    <3> HIDE DEF broken
    <3>1. QED  BY <1>1, <2>2, PairIsSeq
  <2> HIDE DEF before, after, lost, added
  <2>6. before \o lost \o after \in Seq(Lines)  BY <2>3, <2>5, JoinedType
  <2>7. before \o added \o after \in Seq(Lines)  BY <2>3, <2>5, JoinedType
  <2>8. QED  BY <1>2, <2>4, <2>6, <2>7, Zenon
<1>5. QED  BY <1>2, <1>3, <1>4

-----------------------------------------------------------------------------
\* What the activation at a place of the stack expands, line by line: the files
\* that it includes can open as many others as there are places above it.
ReadBy(a, n, files) == Expansions(a.lines, Expanded(files)[MaxOpen - n + 1])

\* The top has read the lines before its next one.
HasRead(a, n, files) == a.ret = ReadBy(a, n, files)[a.at - 1]

\* An activation under another has read all but the last of them, which includes
\* the file that the other reads.
Awaits(a, n, lines, files) ==
    /\ a.at >= 2
    /\ a.lines[a.at - 1].kind = "include"
    /\ a.lines[a.at - 1].path \in DOMAIN files
    /\ lines = files[a.lines[a.at - 1].path]
    /\ a.ret = ReadBy(a, n, files)[a.at - 2]

StackReads ==
    /\ stack # <<>> => stack[1].lines = source
    /\ stack # <<>> => HasRead(stack[Len(stack)], Len(stack), disk)
    /\ \A n \in 1..(Len(stack) - 1) : Awaits(stack[n], n, stack[n + 1].lines, disk)

\* An answer is the expansion of the source.
ResultIsExpansion ==
    result.of = "ReplaceIncludes" => result.text = Expand(source, FileText[MaxOpen])

-----------------------------------------------------------------------------
\* The files of a disk are texts, and so are their expansions.
LEMMA DiskType ==
  ASSUME TypesOK
  PROVE  /\ IsFiles(disk)
         /\ \A k \in 0..(MaxOpen + 1) : DOMAIN FileText[k] = DOMAIN disk /\ IsFiles(FileText[k])
         /\ \A p \in DOMAIN disk : FileText[0][p] = <<>>
         /\ \A k \in 1..(MaxOpen + 1) : \A p \in DOMAIN disk :
               FileText[k][p] = Expand(disk[p], FileText[k - 1])
<1>1. IsFiles(disk)  BY TextsAssumption DEF TypesOK, IsFiles
<1>2. QED  BY <1>1, ExpandedUnfold DEF FileText

\* The next line of the top is one of its lines.
LEMMA NextLineType ==
  ASSUME TypesOK, HasLine
  PROVE  /\ stack # <<>> /\ Len(stack) \in Nat \ {0}
         /\ Top \in Activations /\ Top.at \in 1..Len(Top.lines)
         /\ NextLine \in Lines
<1>1. stack # <<>> /\ stack \in Seq(Activations)  BY DEF HasLine, TypesOK
<1>2. /\ Len(stack) \in Nat \ {0} /\ Top \in Activations
      /\ Top.lines \in Seq(Lines) /\ Top.at \in Nat
  BY <1>1, TopType
<1>3. Len(stack) \in DOMAIN stack  BY <1>1, <1>2
<1>4. Top.at \in 1..(Len(Top.lines) + 1)  BY <1>3 DEF TypesOK, Top
<1>5. Top.at \in 1..Len(Top.lines)  BY <1>2, <1>4 DEF HasLine
<1>6. NextLine \in Lines  BY <1>2, <1>5 DEF NextLine
<1>7. QED  BY <1>1, <1>2, <1>5, <1>6

\* What the steps push and change are activations.
LEMMA StepTypes ==
  ASSUME TypesOK, HasLine
  PROVE  /\ Advanced \in Activations /\ Advanced.lines = Top.lines
         /\ Advanced.at = Top.at + 1 /\ Advanced.ret = Top.ret
         /\ [Advanced EXCEPT !.ret = Append(@, NextLine)] \in Activations
         /\ [Advanced EXCEPT !.ret = Append(@, NextLine)].lines = Top.lines
         /\ [Advanced EXCEPT !.ret = Append(@, NextLine)].at = Top.at + 1
         /\ [Advanced EXCEPT !.ret = Append(@, NextLine)].ret = Append(Top.ret, NextLine)
<1>1. Top \in Activations /\ NextLine \in Lines  BY NextLineType
<1>2. Append(Top.ret, NextLine) \in Seq(Lines)  BY <1>1 DEF Activations
<1> DEFINE A == Advanced
<1>3. /\ A \in Activations /\ A.lines = Top.lines
      /\ A.at = Top.at + 1 /\ A.ret = Top.ret
  BY <1>1 DEF Advanced, Activations
<1> HIDE DEF A
<1> DEFINE R == [A EXCEPT !.ret = Append(@, NextLine)]
<1>4. /\ R \in Activations /\ R.lines = Top.lines
      /\ R.at = Top.at + 1 /\ R.ret = Append(Top.ret, NextLine)
  BY <1>2, <1>3 DEF Activations
<1>5. QED  BY <1>3, <1>4 DEF A

LEMMA ActivationType ==
  ASSUME NEW lines \in Seq(Lines)
  PROVE  /\ Activation(lines) \in Activations
         /\ Activation(lines).lines = lines /\ Activation(lines).at = 1
         /\ Activation(lines).ret = <<>>
<1>1. <<>> \in Seq(Lines)  OBVIOUS
<1>2. QED  BY <1>1 DEF Activation, Activations

\* The places of a stack.
PlacesOK(s) == \A n \in DOMAIN s : s[n].at \in 1..(Len(s[n].lines) + 1)

\* ReadLine, SkipInclude: what becomes of the stack when its top is replaced by
\* what has read a line more.
LEMMA TopReads ==
  ASSUME TypesOK, HasLine, NEW a \in Activations, a.lines = Top.lines, a.at = Top.at + 1,
         stack' = Append(Below, a)
  PROVE  /\ stack' \in Seq(Activations) /\ Len(stack') = Len(stack) /\ stack' # <<>>
         /\ stack'[Len(stack)] = a
         /\ \A n \in 1..(Len(stack) - 1) : stack'[n] = stack[n]
         /\ PlacesOK(stack')
<1>1. /\ stack # <<>> /\ Len(stack) \in Nat \ {0}
      /\ Top \in Activations /\ Top.at \in 1..Len(Top.lines)
  BY NextLineType
<1>2. /\ stack' \in Seq(Activations) /\ Len(stack') = Len(stack) /\ stack' # <<>>
      /\ stack'[Len(stack)] = a
      /\ \A n \in 1..(Len(stack) - 1) : stack'[n] = stack[n]
  <2> DEFINE t == stack'
  <2>1. stack \in Seq(Activations)  BY DEF TypesOK
  <2>2. t = Append(SubSeq(stack, 1, Len(stack) - 1), a)  BY DEF Below
  <2> HIDE DEF t
  <2>3. t \in Seq(Activations) /\ DiffersAtLast(t, stack, a)
    BY <1>1, <2>1, <2>2, LastReplaced
  <2>4. QED  BY <2>3 DEF t, DiffersAtLast
<1>3. ASSUME NEW n \in DOMAIN stack' PROVE stack'[n].at \in 1..(Len(stack'[n].lines) + 1)
  <2>1. n \in 1..Len(stack)  BY <1>2
  <2>2. CASE n = Len(stack)
    <3>1. a.at \in 1..(Len(a.lines) + 1)
      <4>1. Len(Top.lines) \in Nat  BY <1>1 DEF Activations
      <4>2. QED  BY <1>1, <4>1
    <3>2. QED  BY <1>2, <2>2, <3>1
  <2>3. CASE n # Len(stack)
    <3>1. n \in 1..(Len(stack) - 1) /\ n \in DOMAIN stack  BY <1>1, <2>1, <2>3
    <3>2. stack'[n] = stack[n]  BY <1>2, <3>1
    <3>3. QED  BY <3>1, <3>2 DEF TypesOK
  <2>4. QED  BY <2>2, <2>3
<1>4. QED  BY <1>2, <1>3 DEF PlacesOK

\* OpenInclude: the top has read a line more, and the file stands on it.
LEMMA TopOpens ==
  ASSUME TypesOK, HasLine, NEW b \in Activations, b.at = 1,
         stack' = Below \o <<Advanced, b>>
  PROVE  /\ stack' \in Seq(Activations) /\ Len(stack') = Len(stack) + 1 /\ stack' # <<>>
         /\ stack'[Len(stack)] = Advanced /\ stack'[Len(stack) + 1] = b
         /\ \A n \in 1..(Len(stack) - 1) : stack'[n] = stack[n]
         /\ PlacesOK(stack')
<1>1. /\ stack # <<>> /\ Len(stack) \in Nat \ {0}
      /\ Top \in Activations /\ Top.at \in 1..Len(Top.lines)
  BY NextLineType
<1>2. /\ Below \in Seq(Activations) /\ Len(Below) = Len(stack) - 1
      /\ \A n \in 1..(Len(stack) - 1) : Below[n] = stack[n]
  BY <1>1, BelowType DEF TypesOK
<1>3. Advanced \in Activations /\ Advanced.lines = Top.lines /\ Advanced.at = Top.at + 1
  BY StepTypes
<1> DEFINE two == <<Advanced, b>>
<1>4. two \in Seq(Activations) /\ Len(two) = 2 /\ two[1] = Advanced /\ two[2] = b
  BY <1>3, PairIsSeq
<1> HIDE DEF two
<1>5. stack' = Below \o two  BY DEF two
<1>6. stack' \in Seq(Activations) /\ Len(stack') = Len(stack) + 1
  BY <1>1, <1>2, <1>4, <1>5, ConcatProperties
<1>7. ASSUME NEW i \in 1..(Len(stack) + 1)
      PROVE  stack'[i] = IF i <= Len(stack) - 1 THEN Below[i] ELSE two[i - (Len(stack) - 1)]
  <2>1. i \in 1..(Len(Below) + Len(two))  BY <1>1, <1>2, <1>4
  <2>2. QED  BY <1>2, <1>4, <1>5, <2>1, ConcatProperties
<1>8. stack'[Len(stack)] = Advanced /\ stack'[Len(stack) + 1] = b
  <2>1. Len(stack) \in 1..(Len(stack) + 1) /\ Len(stack) + 1 \in 1..(Len(stack) + 1)
    BY <1>1
  <2>2. /\ ~(Len(stack) <= Len(stack) - 1) /\ ~(Len(stack) + 1 <= Len(stack) - 1)
        /\ Len(stack) - (Len(stack) - 1) = 1 /\ (Len(stack) + 1) - (Len(stack) - 1) = 2
    BY <1>1
  <2>3. stack'[Len(stack)] = two[1]
    <3>1. stack'[Len(stack)] = two[Len(stack) - (Len(stack) - 1)]  BY <1>7, <2>1, <2>2, Zenon
    <3>2. QED  BY <2>2, <3>1, Zenon
  <2>4. stack'[Len(stack) + 1] = two[2]
    <3>1. stack'[Len(stack) + 1] = two[(Len(stack) + 1) - (Len(stack) - 1)]
      BY <1>7, <2>1, <2>2, Zenon
    <3>2. QED  BY <2>2, <3>1, Zenon
  <2>5. QED  BY <1>4, <2>3, <2>4, Zenon
<1>9. ASSUME NEW n \in 1..(Len(stack) - 1) PROVE stack'[n] = stack[n]
  <2>1. n \in 1..(Len(stack) + 1) /\ n <= Len(stack) - 1  BY <1>1
  <2>2. QED  BY <1>2, <1>7, <2>1
<1>10. ASSUME NEW n \in DOMAIN stack' PROVE stack'[n].at \in 1..(Len(stack'[n].lines) + 1)
  <2>1. n \in 1..(Len(stack) + 1)  BY <1>6
  <2>2. CASE n = Len(stack) + 1
    <3>1. Len(b.lines) \in Nat  BY DEF Activations
    <3>2. QED  BY <1>8, <2>2, <3>1
  <2>3. CASE n = Len(stack)
    <3>1. Len(Top.lines) \in Nat  BY <1>1 DEF Activations
    <3>2. QED  BY <1>1, <1>3, <1>8, <2>3, <3>1
  <2>4. CASE n # Len(stack) /\ n # Len(stack) + 1
    <3>1. n \in 1..(Len(stack) - 1) /\ n \in DOMAIN stack
      BY <1>1, <2>1, <2>4 DEF TypesOK
    <3>2. stack'[n] = stack[n]  BY <1>9, <3>1
    <3>3. QED  BY <3>1, <3>2 DEF TypesOK
  <2>5. QED  BY <2>2, <2>3, <2>4
<1>11. QED  BY <1>6, <1>8, <1>9, <1>10 DEF PlacesOK

\* Return, when it is not the source that was read: the expansion is appended to
\* what the activation under it has.
LEMMA TopReturns ==
  ASSUME TypesOK, stack # <<>>, Len(stack) # 1,
         stack' = [Below EXCEPT ![Len(Below)].ret = Appended(@, Top.ret)]
  PROVE  /\ stack' \in Seq(Activations) /\ Len(stack') = Len(stack) - 1 /\ stack' # <<>>
         /\ stack'[Len(stack) - 1].lines = stack[Len(stack) - 1].lines
         /\ stack'[Len(stack) - 1].at = stack[Len(stack) - 1].at
         /\ stack'[Len(stack) - 1].ret = stack[Len(stack) - 1].ret \o Top.ret
         /\ \A n \in 1..(Len(stack) - 2) : stack'[n] = stack[n]
         /\ PlacesOK(stack')
<1>1. /\ stack \in Seq(Activations) /\ Len(stack) \in Nat \ {0, 1}
      /\ Top \in Activations /\ Top.ret \in Seq(Lines)
  BY TopType DEF TypesOK
<1> DEFINE m == Len(stack) - 1
<1>2. /\ Below \in Seq(Activations) /\ Len(Below) = m
      /\ \A n \in 1..m : Below[n] = stack[n]
  BY <1>1, BelowType
<1>3. m \in 1..m /\ m \in Nat /\ m - 1 = Len(stack) - 2
  <2>1. \A k \in Nat \ {0, 1} : k - 1 \in 1..(k - 1) /\ k - 1 \in Nat /\ (k - 1) - 1 = k - 2
    OBVIOUS
  <2>2. QED  BY <1>1, <2>1, Zenon
<1> DEFINE b == [stack[m] EXCEPT !.ret = @ \o Top.ret]
<1>4. stack[m] \in Activations  BY <1>2, <1>3
<1>5. stack[m].ret \o Top.ret \in Seq(Lines)
  <2>1. stack[m].ret \in Seq(Lines)  BY <1>4 DEF Activations
  <2>2. QED  BY <1>1, <2>1, ConcatProperties
<1>6. /\ b \in Activations /\ b.lines = stack[m].lines /\ b.at = stack[m].at
      /\ b.ret = stack[m].ret \o Top.ret
  BY <1>4, <1>5 DEF Activations
<1>7. stack' = [Below EXCEPT ![m] = b]  BY <1>2, <1>3 DEF Appended
<1> HIDE DEF b, m
<1>8. /\ stack' \in Seq(Activations) /\ Len(stack') = m
      /\ stack'[m] = b /\ \A n \in 1..(m - 1) : stack'[n] = Below[n]
  <2>1. m \in 1..Len(Below)  BY <1>2, <1>3
  <2>2. /\ stack' \in Seq(Activations) /\ Len(stack') = m
    BY <1>2, <1>6, <1>7, <2>1, ExceptSeq
  <2>3. DOMAIN Below = 1..m  BY <1>2
  <2>4. QED  BY <1>3, <1>7, <2>2, <2>3
<1>9. stack' # <<>>  BY <1>3, <1>8
<1>10. \A n \in 1..(m - 1) : stack'[n] = stack[n]  BY <1>2, <1>3, <1>8
<1>11. ASSUME NEW n \in DOMAIN stack' PROVE stack'[n].at \in 1..(Len(stack'[n].lines) + 1)
  <2>1. n \in 1..m /\ n \in DOMAIN stack
    <3>1. DOMAIN stack' = 1..m /\ DOMAIN stack = 1..Len(stack)  BY <1>1, <1>8
    <3>2. QED  BY <1>1, <1>3, <3>1 DEF m
  <2>2. stack[n].at \in 1..(Len(stack[n].lines) + 1)  BY <2>1 DEF TypesOK
  <2>3. CASE n = m  BY <1>6, <1>8, <2>2, <2>3
  <2>4. CASE n # m
    <3>1. n \in 1..(m - 1)  BY <1>3, <2>1, <2>4
    <3>2. QED  BY <1>10, <2>2, <3>1
  <2>5. QED  BY <2>3, <2>4
<1>12. QED  BY <1>3, <1>6, <1>8, <1>9, <1>10, <1>11 DEF m, PlacesOK

-----------------------------------------------------------------------------
\* One step of the specification keeps the types.
LEMMA TypeStep ==
  ASSUME TypesOK, [Next]_vars
  PROVE  TypesOK'
<1>1. ASSUME NEW t \in Texts, ReplaceIncludes(t) PROVE TypesOK'
  <2>1. t \in Seq(Lines) /\ <<>> \in Seq(Lines)  BY TextsAssumption
  <2>2. result' \in [of : {"nothing", "ReplaceIncludes", "PrepareGLSL"}, text : Seq(Lines)]
    <3>1. \E x \in Seq(Lines) : \/ result' = [of |-> "nothing", text |-> x]
                                \/ result' = [of |-> "ReplaceIncludes", text |-> x]
      BY <1>1, <2>1, Zenon DEF ReplaceIncludes
    <3>2. QED  BY <3>1
  <2>3. source' \in Seq(Lines) /\ disk' \in Disks  BY <1>1, <2>1 DEF ReplaceIncludes, TypesOK
  <2>4. CASE stack' = <<Activation(t)>>
    <3>1. Activation(t) \in Activations /\ Activation(t).lines = t /\ Activation(t).at = 1
      BY <2>1, ActivationType
    <3>2. stack' \in Seq(Activations) /\ Len(stack') = 1 /\ stack'[1] = Activation(t)
      BY <2>4, <3>1, PairIsSeq
    <3>3. Len(stack') <= MaxOpen + 1  BY <3>2, MaxOpenAssumption
    <3>4. 1 \in 1..(Len(t) + 1)  BY <2>1
    <3>5. \A n \in DOMAIN stack' : n = 1  BY <3>2
    <3>6. \A n \in DOMAIN stack' : stack'[n].at \in 1..(Len(stack'[n].lines) + 1)
      BY <3>1, <3>2, <3>4, <3>5
    <3>7. QED  BY <2>2, <2>3, <3>2, <3>3, <3>6 DEF TypesOK
  <2>5. CASE UNCHANGED stack  BY <2>2, <2>3, <2>5 DEF TypesOK
  <2>6. QED  BY <1>1, <2>4, <2>5 DEF ReplaceIncludes
<1>2. ASSUME NEW t \in Texts, PrepareGLSL(t) PROVE TypesOK'
  <2>1. t \in Seq(Lines)  BY TextsAssumption
  <2>2. WithExtension(WithVersion(t)) \in Seq(Lines)  BY <2>1, PrepareType
  <2>3. QED  BY <1>2, <2>1, <2>2 DEF PrepareGLSL, TypesOK
<1>3. CASE ReadLine
  <2> DEFINE a == [Advanced EXCEPT !.ret = Append(@, NextLine)]
  <2>1. HasLine /\ stack' = Append(Below, a)  BY <1>3 DEF ReadLine
  <2>2. a \in Activations /\ a.lines = Top.lines /\ a.at = Top.at + 1  BY <2>1, StepTypes
  <2> HIDE DEF a
  <2>3. stack' \in Seq(Activations) /\ Len(stack') = Len(stack) /\ PlacesOK(stack')
    BY <2>1, <2>2, TopReads
  <2>4. QED  BY <1>3, <2>3 DEF ReadLine, TypesOK, PlacesOK
<1>4. CASE SkipInclude
  <2>1. HasLine /\ stack' = Append(Below, Advanced)  BY <1>4 DEF SkipInclude
  <2>2. Advanced \in Activations /\ Advanced.lines = Top.lines /\ Advanced.at = Top.at + 1
    BY <2>1, StepTypes
  <2>3. stack' \in Seq(Activations) /\ Len(stack') = Len(stack) /\ PlacesOK(stack')
    BY <2>1, <2>2, TopReads
  <2>4. QED  BY <1>4, <2>3 DEF SkipInclude, TypesOK, PlacesOK
<1>5. CASE OpenInclude
  <2> DEFINE b == Activation(disk[NextLine.path])
  <2>1. /\ HasLine /\ stack' = Below \o <<Advanced, b>>
        /\ NextLine.path \in DOMAIN disk /\ Len(stack) - 1 < MaxOpen
    BY <1>5 DEF OpenInclude, Opens
  <2>2. disk[NextLine.path] \in Seq(Lines)  BY <2>1, DiskType DEF IsFiles
  <2>3. b \in Activations /\ b.at = 1  BY <2>2, ActivationType
  <2> HIDE DEF b
  <2>4. stack' \in Seq(Activations) /\ Len(stack') = Len(stack) + 1 /\ PlacesOK(stack')
    BY <2>1, <2>3, TopOpens
  <2>5. Len(stack') <= MaxOpen + 1
    <3>1. Len(stack) \in Nat  BY DEF TypesOK
    <3>2. QED  BY <2>1, <2>4, <3>1, MaxOpenAssumption
  <2>6. QED  BY <1>5, <2>4, <2>5 DEF OpenInclude, TypesOK, PlacesOK
<1>6. CASE Return
  <2>1. stack # <<>> /\ stack \in Seq(Activations)  BY <1>6 DEF Return, TypesOK
  <2>2. Top.ret \in Seq(Lines) /\ Len(stack) \in Nat  BY <2>1, TopType
  <2>3. disk' \in Disks /\ source' \in Seq(Lines)  BY <1>6 DEF Return, TypesOK
  <2>4. CASE Len(stack) = 1
    <3>1. stack' = <<>> /\ result' = [of |-> "ReplaceIncludes", text |-> Top.ret]
      BY <1>6, <2>4 DEF Return
    <3>2. result' \in [of : {"nothing", "ReplaceIncludes", "PrepareGLSL"}, text : Seq(Lines)]
      BY <2>2, <3>1
    <3>3. /\ stack' \in Seq(Activations) /\ Len(stack') <= MaxOpen + 1
          /\ \A n \in DOMAIN stack' : stack'[n].at \in 1..(Len(stack'[n].lines) + 1)
      BY <3>1, MaxOpenAssumption
    <3>4. QED  BY <2>3, <3>2, <3>3 DEF TypesOK
  <2>5. CASE Len(stack) # 1
    <3>1. stack' = [Below EXCEPT ![Len(Below)].ret = Appended(@, Top.ret)] /\ result' = result
      BY <1>6, <2>5 DEF Return
    <3>2. stack' \in Seq(Activations) /\ Len(stack') = Len(stack) - 1 /\ PlacesOK(stack')
      BY <2>1, <2>5, <3>1, TopReturns
    <3>3. Len(stack') <= MaxOpen + 1  BY <2>2, <3>2, MaxOpenAssumption DEF TypesOK
    <3>4. QED  BY <2>3, <3>1, <3>2, <3>3 DEF TypesOK, PlacesOK
  <2>6. QED  BY <2>4, <2>5
<1>7. CASE UNCHANGED vars  BY <1>7 DEF vars, TypesOK
<1>8. QED  BY <1>1, <1>2, <1>3, <1>4, <1>5, <1>6, <1>7 DEF Next, Step

LEMMA TypeInit == Init => TypesOK
<1> SUFFICES ASSUME Init PROVE TypesOK  OBVIOUS
<1>1. disk \in Disks /\ source = <<>> /\ stack = <<>> /\ result = [of |-> "nothing", text |-> <<>>]
  BY DEF Init
<1>2. source \in Seq(Lines) /\ stack \in Seq(Activations) /\ Len(stack) <= MaxOpen + 1
  BY <1>1, MaxOpenAssumption
<1>3. \A n \in DOMAIN stack : stack[n].at \in 1..(Len(stack[n].lines) + 1)  BY <1>1
<1>4. PICK x \in Seq(Lines) : result = [of |-> "nothing", text |-> x]
  <2>1. <<>> \in Seq(Lines)  OBVIOUS
  <2>2. QED  BY <1>1, <2>1, Zenon
<1>5. result \in [of : {"nothing", "ReplaceIncludes", "PrepareGLSL"}, text : Seq(Lines)]
  BY <1>4
<1>6. QED  BY <1>1, <1>2, <1>3, <1>5 DEF TypesOK

-----------------------------------------------------------------------------
\* What an activation has read when it has read a line more.
LEMMA OneMoreLine ==
  ASSUME TypesOK, NEW a \in Activations, NEW n \in 1..(MaxOpen + 1), a.at \in 1..Len(a.lines)
  PROVE  /\ ReadBy(a, n, disk)[0] = <<>>
         /\ ReadBy(a, n, disk)[a.at] =
               ReadBy(a, n, disk)[a.at - 1] \o Piece(a.lines[a.at], FileText[MaxOpen - n + 1])
         /\ ReadBy(a, n, disk)[a.at - 1] \in Seq(Lines)
<1>1. MaxOpen - n + 1 \in 0..(MaxOpen + 1)  BY MaxOpenAssumption
<1>2. IsFiles(FileText[MaxOpen - n + 1])  BY <1>1, DiskType
<1>3. a.lines \in Seq(Lines)  BY DEF Activations
<1>4. a.at - 1 \in 0..Len(a.lines)  BY <1>3
<1>5. QED  BY <1>2, <1>3, <1>4, ExpansionsUnfold DEF ReadBy, FileText

\* What is under the top keeps waiting for what stands on it.
LEMMA StillAwaits ==
  ASSUME TypesOK, StackReads, stack # <<>>, disk' = disk,
         \A n \in 1..(Len(stack) - 1) : stack'[n] = stack[n],
         stack'[Len(stack)].lines = Top.lines
  PROVE  /\ \A n \in 1..(Len(stack) - 1) : Awaits(stack'[n], n, stack'[n + 1].lines, disk')
         /\ stack'[1].lines = source
<1>1. Len(stack) \in Nat \ {0}  BY TopType DEF TypesOK
<1>2. ASSUME NEW n \in 1..(Len(stack) - 1)
      PROVE  Awaits(stack'[n], n, stack'[n + 1].lines, disk')
  <2>1. Awaits(stack[n], n, stack[n + 1].lines, disk) /\ stack'[n] = stack[n]
    BY DEF StackReads
  <2>2. stack'[n + 1].lines = stack[n + 1].lines
    <3>1. CASE n + 1 = Len(stack)  BY <3>1 DEF Top
    <3>2. CASE n + 1 # Len(stack)
      <4>1. n + 1 \in 1..(Len(stack) - 1)  BY <1>1, <3>2
      <4>2. QED  BY <4>1
    <3>3. QED  BY <3>1, <3>2
  <2>3. QED  BY <2>1, <2>2, Zenon
<1>3. stack'[1].lines = source
  <2>1. stack[1].lines = source  BY DEF StackReads
  <2>2. CASE Len(stack) = 1  BY <2>1, <2>2 DEF Top
  <2>3. CASE Len(stack) # 1
    <3>1. \A k \in Nat \ {0} : k # 1 => 1 \in 1..(k - 1)  OBVIOUS
    <3>2. 1 \in 1..(Len(stack) - 1)  BY <1>1, <2>3, <3>1
    <3>3. QED  BY <2>1, <3>2
  <2>4. QED  BY <2>2, <2>3
<1>4. QED  BY <1>2, <1>3

\* ReadLine, SkipInclude: the top has read its next line.
LEMMA ReadsOn ==
  ASSUME TypesOK, StackReads, HasLine, disk' = disk, source' = source,
         NEW a \in Activations, a.lines = Top.lines, a.at = Top.at + 1,
         a.ret = Top.ret \o Piece(NextLine, FileText[MaxOpen - Len(stack) + 1]),
         stack' = Append(Below, a)
  PROVE  StackReads'
<1> DEFINE L == Len(stack)
<1>1. /\ stack # <<>> /\ L \in Nat \ {0}
      /\ Top \in Activations /\ Top.at \in 1..Len(Top.lines)
  BY NextLineType
<1>2. /\ stack' \in Seq(Activations) /\ Len(stack') = L /\ stack' # <<>>
      /\ stack'[L] = a
      /\ \A n \in 1..(L - 1) : stack'[n] = stack[n]
  BY TopReads
<1>3. L \in 1..(MaxOpen + 1)  BY <1>1, MaxOpenAssumption DEF TypesOK
<1>4. HasRead(a, L, disk)
  <2>1. ReadBy(Top, L, disk)[Top.at] =
           ReadBy(Top, L, disk)[Top.at - 1] \o Piece(NextLine, FileText[MaxOpen - L + 1])
    BY <1>1, <1>3, OneMoreLine DEF NextLine
  <2>2. Top.ret = ReadBy(Top, L, disk)[Top.at - 1]  BY <1>1 DEF StackReads, HasRead, Top
  <2>3. ReadBy(a, L, disk) = ReadBy(Top, L, disk)  BY DEF ReadBy
  <2>4. a.at - 1 = Top.at  BY <1>1
  <2>5. QED  BY <2>1, <2>2, <2>3, <2>4 DEF HasRead
<1>5. /\ \A n \in 1..(L - 1) : Awaits(stack'[n], n, stack'[n + 1].lines, disk')
      /\ stack'[1].lines = source
  BY <1>1, <1>2, StillAwaits
<1>6. HasRead(stack'[Len(stack')], Len(stack'), disk')  BY <1>2, <1>4
<1>7. QED  BY <1>2, <1>5, <1>6 DEF StackReads

\* OpenInclude.
LEMMA OpensOn ==
  ASSUME TypesOK, StackReads, OpenInclude
  PROVE  StackReads'
<1> DEFINE L == Len(stack)
           b == Activation(disk[NextLine.path])
<1>1. /\ HasLine /\ stack' = Below \o <<Advanced, b>> /\ disk' = disk /\ source' = source
      /\ NextLine.path \in DOMAIN disk /\ L - 1 < MaxOpen /\ NextLine.kind = "include"
  BY DEF OpenInclude, Opens, GetPathFromLine
<1>2. disk[NextLine.path] \in Seq(Lines)  BY <1>1, DiskType DEF IsFiles
<1>3. b \in Activations /\ b.at = 1 /\ b.lines = disk[NextLine.path] /\ b.ret = <<>>
  BY <1>2, ActivationType
<1> HIDE DEF b
<1>4. /\ stack # <<>> /\ L \in Nat \ {0}
      /\ Top \in Activations /\ Top.at \in 1..Len(Top.lines)
  BY <1>1, NextLineType
<1>5. /\ stack' \in Seq(Activations) /\ Len(stack') = L + 1 /\ stack' # <<>>
      /\ stack'[L] = Advanced /\ stack'[L + 1] = b
      /\ \A n \in 1..(L - 1) : stack'[n] = stack[n]
  BY <1>1, <1>3, TopOpens
<1>6. Advanced.lines = Top.lines /\ Advanced.at = Top.at + 1 /\ Advanced.ret = Top.ret
  BY <1>1, StepTypes
<1>7. /\ \A n \in 1..(L - 1) : Awaits(stack'[n], n, stack'[n + 1].lines, disk')
      /\ stack'[1].lines = source
  BY <1>1, <1>4, <1>5, <1>6, StillAwaits
<1>8. Awaits(Advanced, L, b.lines, disk)
  <2>1. Advanced.at >= 2 /\ Advanced.at - 1 = Top.at /\ Advanced.at - 2 = Top.at - 1
    BY <1>4, <1>6
  <2>2. Advanced.lines[Advanced.at - 1] = NextLine  BY <1>6, <2>1 DEF NextLine
  <2>3. Top.ret = ReadBy(Top, L, disk)[Top.at - 1]  BY <1>4 DEF StackReads, HasRead, Top
  <2>4. ReadBy(Advanced, L, disk) = ReadBy(Top, L, disk)  BY <1>6 DEF ReadBy
  <2>5. QED  BY <1>1, <1>3, <1>6, <2>1, <2>2, <2>3, <2>4 DEF Awaits
<1>9. HasRead(b, L + 1, disk)
  <2>1. MaxOpen - (L + 1) + 1 \in 0..(MaxOpen + 1)  BY <1>1, <1>4, MaxOpenAssumption
  <2>2. IsFiles(FileText[MaxOpen - (L + 1) + 1])  BY <2>1, DiskType
  <2>3. ReadBy(b, L + 1, disk)[0] = <<>>
    BY <1>2, <1>3, <2>2, ExpansionsUnfold DEF ReadBy, FileText
  <2>4. b.at - 1 = 0  BY <1>3
  <2>5. QED  BY <1>3, <2>3, <2>4 DEF HasRead
<1>10. ASSUME NEW n \in 1..(Len(stack') - 1)
       PROVE  Awaits(stack'[n], n, stack'[n + 1].lines, disk')
  <2>1. n \in 1..L  BY <1>4, <1>5
  <2>2. CASE n = L  BY <1>1, <1>5, <1>8, <2>2
  <2>3. CASE n # L
    <3>1. n \in 1..(L - 1)  BY <1>4, <2>1, <2>3
    <3>2. QED  BY <1>7, <3>1
  <2>4. QED  BY <2>2, <2>3
<1>11. HasRead(stack'[Len(stack')], Len(stack'), disk')  BY <1>1, <1>5, <1>9
<1>12. QED  BY <1>1, <1>5, <1>7, <1>10, <1>11 DEF StackReads

\* The top, at its end, has read its whole text.
LEMMA TopHasReadAll ==
  ASSUME TypesOK, StackReads, stack # <<>>, ~HasLine
  PROVE  Top.ret = Expand(Top.lines, FileText[MaxOpen - Len(stack) + 1])
<1>1. /\ Len(stack) \in Nat \ {0} /\ Top \in Activations
      /\ Top.lines \in Seq(Lines) /\ Top.at \in Nat
  BY TopType DEF TypesOK
<1>2. Len(stack) \in DOMAIN stack
  <2>1. stack \in Seq(Activations)  BY DEF TypesOK
  <2>2. QED  BY <1>1, <2>1
<1>3. Top.at \in 1..(Len(Top.lines) + 1)  BY <1>2 DEF TypesOK, Top
<1>4. Top.at - 1 = Len(Top.lines)  BY <1>1, <1>3 DEF HasLine
<1>5. Top.ret = ReadBy(Top, Len(stack), disk)[Top.at - 1]  BY DEF StackReads, HasRead, Top
<1>6. QED  BY <1>4, <1>5 DEF ReadBy, Expand, FileText

\* Return to an activation: it has read the line that it was waiting at.
LEMMA ReturnsOn ==
  ASSUME TypesOK, StackReads, Return, Len(stack) # 1
  PROVE  StackReads'
<1> DEFINE L == Len(stack)
           m == L - 1
           a == stack[m]
           line == a.lines[a.at - 1]
<1>1. /\ stack # <<>> /\ ~HasLine /\ disk' = disk /\ source' = source
      /\ stack' = [Below EXCEPT ![Len(Below)].ret = Appended(@, Top.ret)]
  BY DEF Return
<1>2. L \in Nat \ {0, 1} /\ L <= MaxOpen + 1  BY <1>1, TopType DEF TypesOK
<1>3. /\ m \in 1..m /\ m \in Nat \ {0} /\ m + 1 = L
      /\ MaxOpen - m + 1 \in 1..(MaxOpen + 1) /\ (MaxOpen - m + 1) - 1 = MaxOpen - L + 1
      /\ m \in 1..(MaxOpen + 1) /\ m \in DOMAIN stack
  <2>1. \A k \in Nat \ {0, 1} : k <= MaxOpen + 1 =>
           /\ k - 1 \in 1..(k - 1) /\ k - 1 \in Nat \ {0} /\ (k - 1) + 1 = k
           /\ MaxOpen - (k - 1) + 1 \in 1..(MaxOpen + 1)
           /\ (MaxOpen - (k - 1) + 1) - 1 = MaxOpen - k + 1
           /\ k - 1 \in 1..(MaxOpen + 1) /\ k - 1 \in 1..k
    BY MaxOpenAssumption
  <2>2. DOMAIN stack = 1..L  BY DEF TypesOK
  <2>3. QED  BY <1>2, <2>1, <2>2, Zenon
<1>4. Awaits(a, m, stack[m + 1].lines, disk)  BY <1>3 DEF StackReads
<1> HIDE DEF m, L, a
<1>5. a \in Activations /\ a.lines \in Seq(Lines) /\ a.at \in 1..(Len(a.lines) + 1)
  <2>1. a \in Activations  BY <1>3 DEF TypesOK, a
  <2>2. a.at \in 1..(Len(a.lines) + 1)  BY <1>3 DEF TypesOK, a
  <2>3. QED  BY <2>1, <2>2 DEF Activations
<1>6. /\ a.at - 1 \in 1..Len(a.lines) /\ (a.at - 1) - 1 = a.at - 2
      /\ line.kind = "include" /\ line.path \in DOMAIN disk
      /\ Top.lines = disk[line.path]
      /\ a.ret = ReadBy(a, m, disk)[a.at - 2]
  BY <1>3, <1>4, <1>5 DEF Awaits, Top, L
<1>7. /\ DOMAIN FileText[MaxOpen - m + 1] = DOMAIN disk /\ IsFiles(FileText[MaxOpen - m + 1])
  BY <1>3, DiskType
<1>8. Top.ret = Piece(line, FileText[MaxOpen - m + 1])
  <2>1. Top.ret = Expand(disk[line.path], FileText[MaxOpen - L + 1])
    BY <1>1, <1>6, TopHasReadAll DEF L
  <2>2. FileText[MaxOpen - m + 1][line.path]
           = Expand(disk[line.path], FileText[(MaxOpen - m + 1) - 1])
    BY <1>3, <1>6, DiskType
  <2>3. QED  BY <1>3, <1>6, <1>7, <2>1, <2>2 DEF Piece
<1>9. ReadBy(a, m, disk)[a.at - 1] = ReadBy(a, m, disk)[(a.at - 1) - 1] \o Top.ret
  BY <1>5, <1>6, <1>7, <1>8, ExpansionsUnfold DEF ReadBy, FileText
<1>10. /\ stack' \in Seq(Activations) /\ Len(stack') = m /\ stack' # <<>>
       /\ stack'[m].lines = a.lines /\ stack'[m].at = a.at
       /\ stack'[m].ret = a.ret \o Top.ret
       /\ \A n \in 1..(L - 2) : stack'[n] = stack[n]
  <2>1. L # 1  BY <1>2
  <2>2. QED  BY <1>1, <2>1, TopReturns DEF L, m, a
<1>11. HasRead(stack'[Len(stack')], Len(stack'), disk')
  <2>1. ReadBy(stack'[m], m, disk) = ReadBy(a, m, disk)  BY <1>10 DEF ReadBy
  <2>2. stack'[m].ret = ReadBy(stack'[m], m, disk)[stack'[m].at - 1]
    BY <1>6, <1>9, <1>10, <2>1
  <2>3. QED  BY <1>1, <1>10, <2>2 DEF HasRead
<1>12. ASSUME NEW n \in 1..(Len(stack') - 1)
       PROVE  Awaits(stack'[n], n, stack'[n + 1].lines, disk')
  <2>1. n \in 1..(L - 2) /\ n \in 1..(L - 1)  BY <1>2, <1>3, <1>10
  <2>2. Awaits(stack[n], n, stack[n + 1].lines, disk)  BY <2>1 DEF StackReads, L
  <2>3. stack'[n + 1].lines = stack[n + 1].lines
    <3>1. CASE n + 1 = m  BY <1>10, <3>1 DEF a
    <3>2. CASE n + 1 # m
      <4>1. n + 1 \in 1..(L - 2)  BY <1>2, <1>3, <2>1, <3>2
      <4>2. QED  BY <1>10, <4>1
    <3>3. QED  BY <3>1, <3>2
  <2>4. stack'[n] = stack[n]  BY <1>10, <2>1
  <2>5. QED  BY <1>1, <2>2, <2>3, <2>4, Zenon
<1>13. stack'[1].lines = source
  <2>1. stack[1].lines = source  BY <1>1 DEF StackReads
  <2>2. CASE m = 1  BY <1>10, <2>1, <2>2 DEF a
  <2>3. CASE m # 1
    <3>1. 1 \in 1..(L - 2)  BY <1>2, <1>3, <2>3
    <3>2. QED  BY <1>10, <2>1, <3>1
  <2>4. QED  BY <2>2, <2>3
<1>14. QED  BY <1>1, <1>10, <1>11, <1>12, <1>13 DEF StackReads

\* A call begins: nothing has been read, and a text without a mention of an include
\* is its own expansion.
LEMMA Begins ==
  ASSUME TypesOK, NEW t \in Texts, ReplaceIncludes(t)
  PROVE  StackReads' /\ ResultIsExpansion'
<1>1. t \in Seq(Lines) /\ source' = t /\ disk' = disk
  BY TextsAssumption DEF ReplaceIncludes
<1>2. IsFiles(FileText[MaxOpen])
  <2>1. MaxOpen \in 0..(MaxOpen + 1)  BY MaxOpenAssumption
  <2>2. QED  BY <2>1, DiskType
<1>3. CASE \E n \in DOMAIN t : MentionsInclude(t[n])
  <2>1. stack' = <<Activation(t)>> /\ result'.of # "ReplaceIncludes"
    <3>1. stack' = <<Activation(t)>> /\ result' = [of |-> "nothing", text |-> <<>>]
      BY <1>3, Zenon DEF ReplaceIncludes
    <3>2. QED  BY <3>1
  <2> DEFINE b == Activation(t)
  <2>2. b \in Activations /\ b.lines = t /\ b.at = 1 /\ b.ret = <<>>
    BY <1>1, ActivationType
  <2> HIDE DEF b
  <2>3. Len(stack') = 1 /\ stack'[1] = b /\ stack' # <<>>  BY <2>1 DEF b
  <2>4. HasRead(b, 1, disk)
    <3>1. MaxOpen - 1 + 1 = MaxOpen  BY MaxOpenAssumption
    <3>2. ReadBy(b, 1, disk)[0] = <<>>
      BY <1>1, <1>2, <2>2, <3>1, ExpansionsUnfold DEF ReadBy, FileText
    <3>3. b.at - 1 = 0  BY <2>2
    <3>4. QED  BY <2>2, <3>2, <3>3 DEF HasRead
  <2>5. StackReads'  BY <1>1, <2>2, <2>3, <2>4 DEF StackReads
  <2>6. QED  BY <2>1, <2>5 DEF ResultIsExpansion
<1>4. CASE ~\E n \in DOMAIN t : MentionsInclude(t[n])
  <2>1. stack = <<>> /\ stack' = stack /\ result' = [of |-> "ReplaceIncludes", text |-> t]
    BY <1>4, Zenon DEF ReplaceIncludes
  <2>2. StackReads'  BY <2>1 DEF StackReads
  <2>3. Expand(t, FileText[MaxOpen]) = t
    <3>1. \A n \in DOMAIN t : t[n].kind # "include"  BY <1>4 DEF MentionsInclude
    <3>2. QED  BY <1>1, <1>2, <3>1, ExpandPlain
  <2>4. QED  BY <1>1, <2>1, <2>2, <2>3 DEF ResultIsExpansion, FileText
<1>5. QED  BY <1>3, <1>4

\* One step keeps what the stack has read, and answers with the expansion.
LEMMA ReadingStep ==
  ASSUME TypesOK, StackReads, ResultIsExpansion, [Next]_vars
  PROVE  StackReads' /\ ResultIsExpansion'
<1>1. ASSUME NEW t \in Texts, ReplaceIncludes(t) PROVE StackReads' /\ ResultIsExpansion'
  BY <1>1, Begins
<1>2. ASSUME NEW t \in Texts, PrepareGLSL(t) PROVE StackReads' /\ ResultIsExpansion'
  <2>1. stack = <<>> /\ stack' = stack /\ result'.of # "ReplaceIncludes"
    BY <1>2 DEF PrepareGLSL
  <2>2. QED  BY <2>1 DEF StackReads, ResultIsExpansion
<1>3. CASE ReadLine
  <2> DEFINE a == [Advanced EXCEPT !.ret = Append(@, NextLine)]
  <2>1. /\ HasLine /\ stack' = Append(Below, a) /\ ~GetPathFromLine(NextLine)
        /\ disk' = disk /\ source' = source /\ result' = result
    BY <1>3 DEF ReadLine
  <2>2. /\ a \in Activations /\ a.lines = Top.lines /\ a.at = Top.at + 1
        /\ a.ret = Append(Top.ret, NextLine)
    BY <2>1, StepTypes
  <2> HIDE DEF a
  <2>3. Top.ret \in Seq(Lines) /\ NextLine \in Lines
    BY <2>1, NextLineType DEF Activations
  <2>4. a.ret = Top.ret \o Piece(NextLine, FileText[MaxOpen - Len(stack) + 1])
    <3>1. Append(Top.ret, NextLine) = Top.ret \o <<NextLine>>  BY <2>3, AppendIsConcat
    <3>2. QED  BY <2>1, <2>2, <3>1 DEF Piece, GetPathFromLine
  <2>5. StackReads'  BY <2>1, <2>2, <2>4, ReadsOn
  <2>6. QED  BY <2>1, <2>5 DEF ResultIsExpansion, FileText
<1>4. CASE SkipInclude
  <2>1. /\ HasLine /\ stack' = Append(Below, Advanced) /\ NextLine.kind = "include"
        /\ ~Opens(NextLine.path)
        /\ disk' = disk /\ source' = source /\ result' = result
    BY <1>4 DEF SkipInclude, GetPathFromLine
  <2>2. /\ Advanced \in Activations /\ Advanced.lines = Top.lines
        /\ Advanced.at = Top.at + 1 /\ Advanced.ret = Top.ret
    BY <2>1, StepTypes
  <2>3. Top.ret \in Seq(Lines) /\ Len(stack) \in Nat \ {0}
    BY <2>1, NextLineType DEF Activations
  <2> DEFINE File == FileText[MaxOpen - Len(stack) + 1]
  <2>4. Len(stack) <= MaxOpen + 1 /\ MaxOpen - Len(stack) + 1 \in 0..(MaxOpen + 1)
    BY <2>3, MaxOpenAssumption DEF TypesOK
  <2>5. Piece(NextLine, File) = <<>>
    <3>1. DOMAIN File = DOMAIN disk  BY <2>4, DiskType
    <3>2. CASE NextLine.path \notin DOMAIN disk  BY <2>1, <3>1, <3>2 DEF Piece
    <3>3. CASE NextLine.path \in DOMAIN disk
      <4>1. ~(Len(stack) - 1 < MaxOpen)  BY <2>1, <3>3 DEF Opens
      <4>2. MaxOpen - Len(stack) + 1 = 0  BY <2>3, <2>4, <4>1, MaxOpenAssumption
      <4>3. File[NextLine.path] = <<>>  BY <3>3, <4>2, DiskType
      <4>4. QED  BY <2>1, <3>1, <3>3, <4>3 DEF Piece
    <3>4. QED  BY <3>2, <3>3
  <2> HIDE DEF File
  <2>6. Advanced.ret = Top.ret \o Piece(NextLine, File)  BY <2>2, <2>3, <2>5, ConcatEmptySeq
  <2>7. StackReads'  BY <2>1, <2>2, <2>6, ReadsOn DEF File
  <2>8. QED  BY <2>1, <2>7 DEF ResultIsExpansion, FileText
<1>5. CASE OpenInclude
  <2>1. StackReads'  BY <1>5, OpensOn
  <2>2. disk' = disk /\ source' = source /\ result' = result  BY <1>5 DEF OpenInclude
  <2>3. QED  BY <2>1, <2>2 DEF ResultIsExpansion, FileText
<1>6. CASE Return
  <2>1. stack # <<>> /\ ~HasLine /\ disk' = disk /\ source' = source  BY <1>6 DEF Return
  <2>2. CASE Len(stack) = 1
    <3>1. stack' = <<>> /\ result' = [of |-> "ReplaceIncludes", text |-> Top.ret]
      BY <1>6, <2>2 DEF Return
    <3>2. StackReads'  BY <3>1 DEF StackReads
    <3>3. Top.lines = source  BY <2>1, <2>2 DEF StackReads, Top
    <3>4. MaxOpen - Len(stack) + 1 = MaxOpen  BY <2>2, MaxOpenAssumption
    <3>5. Top.ret = Expand(source, FileText[MaxOpen])  BY <2>1, <3>3, <3>4, TopHasReadAll
    <3>6. QED  BY <2>1, <3>1, <3>2, <3>5 DEF ResultIsExpansion, FileText
  <2>3. CASE Len(stack) # 1
    <3>1. StackReads'  BY <1>6, <2>3, ReturnsOn
    <3>2. result' = result  BY <1>6, <2>3 DEF Return
    <3>3. QED  BY <2>1, <3>1, <3>2 DEF ResultIsExpansion, FileText
  <2>4. QED  BY <2>2, <2>3
<1>7. CASE UNCHANGED vars
  BY <1>7 DEF vars, StackReads, ResultIsExpansion, FileText
<1>8. QED  BY <1>1, <1>2, <1>3, <1>4, <1>5, <1>6, <1>7 DEF Next, Step

-----------------------------------------------------------------------------
\* When no chain of includes is longer than files can be open, each file on such a
\* chain expands to the same with one file more.
LEMMA EnoughFiles ==
  ASSUME TypesOK, Reached[MaxOpen] = {}
  PROVE  Expand(source, FileText[MaxOpen]) = Expand(source, FileText[MaxOpen + 1])
<1> DEFINE N == MaxOpen
           Same(i) == \A p \in Reached[N - i] : FileText[i][p] = FileText[i + 1][p]
           S == {i \in 0..N : Same(i)}
<1>1. N \in Nat /\ source \in Seq(Lines)  BY MaxOpenAssumption DEF TypesOK
<1>2. 0 \in S  BY <1>1
<1>3. ASSUME NEW i \in 1..N, i - 1 \in S PROVE i \in S
  <2>1. /\ i \in 1..(N + 1) /\ i + 1 \in 1..(N + 1) /\ (i + 1) - 1 = i
        /\ i \in 0..(N + 1) /\ i - 1 \in 0..(N + 1) /\ (i - 1) + 1 = i
        /\ N - i \in 0..N /\ N - (i - 1) \in 1..N /\ (N - (i - 1)) - 1 = N - i
    BY <1>1
  <2>2. ASSUME NEW p \in Reached[N - i] PROVE FileText[i][p] = FileText[i + 1][p]
    <3>1. p \in DOMAIN disk  BY <2>1, ReachedUnfold DEF Reached
    <3>2. /\ FileText[i][p] = Expand(disk[p], FileText[i - 1])
          /\ FileText[i + 1][p] = Expand(disk[p], FileText[i])
      BY <2>1, <3>1, DiskType
    <3>3. /\ IsFiles(FileText[i - 1]) /\ IsFiles(FileText[i])
          /\ DOMAIN FileText[i - 1] = DOMAIN disk /\ DOMAIN FileText[i] = DOMAIN disk
      BY <2>1, DiskType
    <3>4. ASSUME NEW q \in Included(disk[p], FileText[i - 1])
          PROVE  FileText[i - 1][q] = FileText[i][q]
      <4>1. q \in Included(disk[p], disk)  BY <3>3 DEF Included
      <4>2. p \in Reached[(N - (i - 1)) - 1]  BY <2>1
      <4>3. q \in Reached[N - (i - 1)]  BY <2>1, <4>1, <4>2, ReachedUnfold DEF Reached
      <4>4. QED  BY <1>3, <2>1, <4>3
    <3>5. disk[p] \in Seq(Lines)  BY <3>1, DiskType DEF IsFiles
    <3>6. QED  BY <3>2, <3>3, <3>4, <3>5, ExpandSame
  <2>3. QED  BY <2>1, <2>2
<1>4. 0..N \subseteq S
  <2> HIDE DEF S
  <2>1. QED  BY <1>1, <1>2, <1>3, BoundedInduction
<1>5. Same(N)  BY <1>1, <1>4
<1>6. N - N = 0 /\ N \in 0..(N + 1) /\ N + 1 \in 0..(N + 1)  BY <1>1
<1>7. ASSUME NEW p \in Included(source, FileText[N])
      PROVE  FileText[N][p] = FileText[N + 1][p]
  <2>1. p \in Included(source, disk)  BY <1>6, DiskType DEF Included
  <2>2. p \in Reached[0]  BY <2>1, ReachedUnfold DEF Reached
  <2>3. QED  BY <1>5, <1>6, <2>2
<1>8. /\ IsFiles(FileText[N]) /\ IsFiles(FileText[N + 1])
      /\ DOMAIN FileText[N] = DOMAIN FileText[N + 1]
  BY <1>6, DiskType
<1>9. QED  BY <1>1, <1>7, <1>8, ExpandSame

\* The inductive invariant: what the stack has read, and what was answered.
ReadingInv == TypesOK /\ StackReads /\ ResultIsExpansion

LEMMA ReadingAlways == Spec => []ReadingInv
<1>1. Init => ReadingInv
  <2> SUFFICES ASSUME Init PROVE StackReads /\ ResultIsExpansion
    BY TypeInit DEF ReadingInv
  <2>1. stack = <<>> /\ result.of # "ReplaceIncludes"  BY DEF Init
  <2>2. QED  BY <2>1 DEF StackReads, ResultIsExpansion
<1>2. ReadingInv /\ [Next]_vars => ReadingInv'  BY TypeStep, ReadingStep DEF ReadingInv
<1>3. QED  BY <1>1, <1>2, PTL DEF Spec

\* The type invariant: the stack never holds more files than the system opens, no
\* activation reads past the end of its text, and each reads the file that the one
\* under it includes.
THEOREM TypeCorrect == Spec => []TypeOK
<1>1. ReadingInv => TypeOK
  <2> SUFFICES ASSUME ReadingInv PROVE TypeOK  OBVIOUS
  <2>1. ASSUME NEW n \in 1..(Len(stack) - 1)
        PROVE  Awaits(stack[n], n, stack[n + 1].lines, disk)
    BY DEF ReadingInv, StackReads
  <2>2. QED  BY <2>1 DEF ReadingInv, StackReads, TypeOK, Awaits
<1>2. QED  BY <1>1, ReadingAlways, PTL

\* Whatever the files include, and however often and deep: what ReplaceIncludes
\* answers is the source with every include replaced by the expansion of its file.
THEOREM IncludesFlattened == Spec => []ExpansionIsFlattening
<1>1. ReadingInv => ExpansionIsFlattening
  BY EnoughFiles DEF ReadingInv, ResultIsExpansion, ExpansionIsFlattening
<1>2. QED  BY <1>1, ReadingAlways, PTL

-----------------------------------------------------------------------------
\* What was prepared last is what PrepareGLSL makes of the source.
ResultIsPrepared ==
    result.of = "PrepareGLSL" => result.text = WithExtension(WithVersion(source))

\* A sequence is another, of some length, and after it a third.
IsConcat(t, s1, m, s2, n) ==
    /\ Len(t) = m + n
    /\ \A i \in 1..m : t[i] = s1[i]
    /\ \A i \in (m + 1)..(m + n) : t[i] = s2[i - m]

LEMMA Concatenated ==
  ASSUME NEW S, NEW s1 \in Seq(S), NEW s2 \in Seq(S), NEW m, NEW n,
         Len(s1) = m, Len(s2) = n, NEW t, t = s1 \o s2
  PROVE  t \in Seq(S) /\ IsConcat(t, s1, m, s2, n)
<1>1. m \in Nat /\ n \in Nat  OBVIOUS
<1>2. /\ t \in Seq(S) /\ Len(t) = m + n
      /\ \A i \in 1..(m + n) : t[i] = IF i <= m THEN s1[i] ELSE s2[i - m]
  BY ConcatProperties
<1>3. \A i \in 1..m : t[i] = s1[i]  BY <1>1, <1>2
<1>4. \A i \in (m + 1)..(m + n) : t[i] = s2[i - m]
  <2>1. \A i \in (m + 1)..(m + n) : i \in 1..(m + n) /\ ~(i <= m)  BY <1>1
  <2>2. QED  BY <1>2, <2>1
<1>5. QED  BY <1>2, <1>3, <1>4 DEF IsConcat

\* A sequence in which two elements take the place of one.
Spliced(t, s, k, a, b) ==
    /\ Len(t) = Len(s) + 1
    /\ \A n \in 1..(k - 1) : t[n] = s[n]
    /\ t[k] = a /\ t[k + 1] = b
    /\ \A n \in (k + 2)..Len(t) : t[n] = s[n - 1]

LEMMA Splicing ==
  ASSUME NEW S, NEW s \in Seq(S), NEW k \in 1..Len(s), NEW a \in S, NEW b \in S
  PROVE  Spliced(SubSeq(s, 1, k - 1) \o <<a, b>> \o SubSeq(s, k + 1, Len(s)), s, k, a, b)
<1> DEFINE L == Len(s)
           before == SubSeq(s, 1, k - 1)
           two == <<a, b>>
           after == SubSeq(s, k + 1, Len(s))
           front == before \o two
           t == front \o after
<1>1. L \in Nat /\ \A n \in 1..L : s[n] \in S  OBVIOUS
<1>2. /\ before \in Seq(S) /\ Len(before) = k - 1
      /\ \A n \in 1..(k - 1) : before[n] = s[n]
  <2> DEFINE M == Len(before)
  <2>1. \A n \in 1..(k - 1) : s[n] \in S  BY <1>1
  <2>2. 1 \in Int /\ k - 1 \in Int  BY <1>1
  <2>3. /\ before \in Seq(S)
        /\ M = IF 1 <= k - 1 THEN (k - 1) - 1 + 1 ELSE 0
        /\ \A n \in 1..((k - 1) - 1 + 1) : before[n] = s[1 + n - 1]
    BY <2>1, <2>2, SubSeqProperties
  <2> HIDE DEF before, M
  <2>4. M = k - 1  BY <1>1, <2>3
  <2>5. \A n \in 1..(k - 1) : before[n] = s[n]  BY <1>1, <2>3
  <2>6. QED  BY <2>3, <2>4, <2>5 DEF M
<1>3. two \in Seq(S) /\ Len(two) = 2 /\ two[1] = a /\ two[2] = b  BY PairIsSeq
<1>4. /\ after \in Seq(S) /\ Len(after) = L - k
      /\ \A n \in 1..(L - k) : after[n] = s[n + k]
  <2> DEFINE M == Len(after)
  <2>1. \A n \in (k + 1)..L : s[n] \in S  BY <1>1
  <2>2. k + 1 \in Int /\ L \in Int  BY <1>1
  <2>3. /\ after \in Seq(S)
        /\ M = IF k + 1 <= L THEN L - (k + 1) + 1 ELSE 0
        /\ \A n \in 1..(L - (k + 1) + 1) : after[n] = s[(k + 1) + n - 1]
    BY <2>1, <2>2, SubSeqProperties
  <2> HIDE DEF after, M, L
  <2>4. M = L - k  BY <1>1, <2>3 DEF L
  <2>5. ASSUME NEW n \in 1..(L - k) PROVE after[n] = s[n + k]
    <3>1. n \in 1..(L - (k + 1) + 1) /\ (k + 1) + n - 1 = n + k  BY <1>1 DEF L
    <3>2. QED  BY <2>3, <3>1
  <2>6. QED  BY <2>3, <2>4, <2>5 DEF M
<1> HIDE DEF before, two, after, L
<1>5. k \in Nat \ {0} /\ k <= L  BY <1>1 DEF L
<1>6. front \in Seq(S) /\ IsConcat(front, before, k - 1, two, 2)
  <2> DEFINE x == front
  <2>1. x = before \o two  OBVIOUS
  <2> HIDE DEF x
  <2>2. x \in Seq(S) /\ IsConcat(x, before, k - 1, two, 2)
    BY <1>2, <1>3, <2>1, Concatenated
  <2>3. QED  BY <2>2 DEF x
<1> HIDE DEF front
<1>7. /\ Len(front) = k + 1 /\ \A n \in 1..(k - 1) : front[n] = before[n]
      /\ front[k] = two[1] /\ front[k + 1] = two[2]
  <2>1. (k - 1) + 2 = k + 1 /\ (k - 1) + 1 = k /\ k - (k - 1) = 1 /\ (k + 1) - (k - 1) = 2
    BY <1>5
  <2>2. \A n \in k..(k + 1) : front[n] = two[n - (k - 1)]  BY <1>6, <2>1 DEF IsConcat
  <2>3. k \in k..(k + 1) /\ k + 1 \in k..(k + 1)  BY <1>5
  <2>4. front[k] = two[k - (k - 1)] /\ front[k + 1] = two[(k + 1) - (k - 1)]
    BY <2>2, <2>3, Zenon
  <2>5. front[k] = two[1] /\ front[k + 1] = two[2]  BY <2>1, <2>4, Zenon
  <2>6. QED  BY <1>6, <2>1, <2>5 DEF IsConcat
<1>8. IsConcat(t, front, k + 1, after, L - k)
  <2> DEFINE x == t
  <2>1. x = front \o after  OBVIOUS
  <2> HIDE DEF x, t
  <2>2. IsConcat(x, front, k + 1, after, L - k)  BY <1>4, <1>6, <1>7, <2>1, Concatenated
  <2>3. QED  BY <2>2 DEF x
<1> HIDE DEF t
<1>9. /\ Len(t) = L + 1
      /\ \A n \in 1..(k + 1) : t[n] = front[n]
      /\ \A n \in (k + 2)..(L + 1) : t[n] = s[n - 1]
  <2>1. (k + 1) + (L - k) = L + 1 /\ (k + 1) + 1 = k + 2  BY <1>1, <1>5
  <2>2. ASSUME NEW n \in (k + 2)..(L + 1) PROVE t[n] = s[n - 1]
    <3>1. n - (k + 1) \in 1..(L - k) /\ (n - (k + 1)) + k = n - 1  BY <1>1, <1>5
    <3>2. t[n] = after[n - (k + 1)]  BY <1>8, <2>1 DEF IsConcat
    <3>3. after[n - (k + 1)] = s[(n - (k + 1)) + k]  BY <1>4, <3>1
    <3>4. QED  BY <3>1, <3>2, <3>3, Zenon
  <2>3. QED  BY <1>8, <2>1, <2>2 DEF IsConcat
<1>10. /\ \A n \in 1..(k - 1) : t[n] = s[n]
       /\ t[k] = a /\ t[k + 1] = b
  <2>1. \A n \in 1..(k - 1) : n \in 1..(k + 1)  BY <1>5
  <2>2. k \in 1..(k + 1) /\ k + 1 \in 1..(k + 1)  BY <1>5
  <2>3. QED  BY <1>2, <1>3, <1>7, <1>9, <2>1, <2>2
<1>11. Spliced(t, s, k, a, b)  BY <1>9, <1>10 DEF Spliced, L
<1>12. QED  BY <1>11 DEF t, front, before, two, after, L

\* A version is put before a text that has none.
LEMMA VersionPut ==
  ASSUME NEW text \in Seq(Lines), ~\E n \in DOMAIN text : MentionsVersion(text[n])
  PROVE  /\ Len(WithVersion(text)) = Len(text) + 1
         /\ WithVersion(text)[1] = Version
         /\ \A n \in 2..(Len(text) + 1) : WithVersion(text)[n] = text[n - 1]
<1> DEFINE t == WithVersion(text)
           one == <<Version>>
<1>1. t = one \o text  BY DEF WithVersion
<1>2. one \in Seq(Lines) /\ Len(one) = 1 /\ one[1] = Version
  <2>1. Version \in Lines  BY PathsAssumption DEF Version, Lines, Kinds
  <2>2. QED  BY <2>1, PairIsSeq
<1> DEFINE L == Len(text)
<1>3. L \in Nat /\ L = Len(text)  OBVIOUS
<1> HIDE DEF t, one, L
<1>4. IsConcat(t, one, 1, text, L)  BY <1>1, <1>2, <1>3, Concatenated
<1>5. /\ Len(t) = L + 1 /\ t[1] = one[1]
      /\ \A n \in 2..(L + 1) : t[n] = text[n - 1]
  <2>1. 1 + L = L + 1 /\ 1 \in 1..1  BY <1>3
  <2>2. QED  BY <1>4, <2>1 DEF IsConcat
<1>6. QED  BY <1>2, <1>5 DEF t, L

\* A text that begins with a version, or does not speak of any, begins with one prepared.
LEMMA VersionFirst ==
  ASSUME NEW text \in Seq(Lines),
         BeginsWithVersion(text) \/ \A n \in DOMAIN text : ~MentionsVersion(text[n])
  PROVE  BeginsWithVersion(WithVersion(text))
<1>1. CASE \E n \in DOMAIN text : MentionsVersion(text[n])  BY <1>1 DEF WithVersion
<1>2. CASE ~\E n \in DOMAIN text : MentionsVersion(text[n])
  <2> DEFINE t == WithVersion(text)
  <2>1. t \in Seq(Lines) /\ Len(t) = Len(text) + 1 /\ t[1] = Version
    BY <1>2, PrepareType, VersionPut
  <2> HIDE DEF t
  <2>2. Len(text) \in Nat /\ DOMAIN t = 1..Len(t)  BY <2>1
  <2>3. 1 \in Directives(t) /\ t[1].kind = "version"
    <3>1. Version.kind = "version"  BY DEF Version
    <3>2. 1 \in 1..(Len(text) + 1)  BY <2>2
    <3>3. QED  BY <2>1, <2>2, <3>1, <3>2 DEF Directives
  <2>4. \A m \in Directives(t) : 1 <= m  BY <2>1, <2>2 DEF Directives
  <2>5. QED  BY <2>3, <2>4 DEF BeginsWithVersion, t
<1>3. QED  BY <1>1, <1>2

\* A comment is the first to mention an include in what was prepared when it is in
\* the source.
LEMMA SameFirstMention ==
  ASSUME NEW text \in Seq(Lines), NEW k \in DOMAIN WithVersion(text),
         MentionsInclude(WithVersion(text)[k]),
         (\E n \in DOMAIN text : MentionsInclude(text[n])) =>
             text[FirstMention(text)].kind # "comment"
  PROVE  WithVersion(text)[FirstMention(WithVersion(text))].kind # "comment"
<1>1. CASE \E n \in DOMAIN text : MentionsVersion(text[n])
  <2>1. WithVersion(text) = text  BY <1>1 DEF WithVersion
  <2>2. QED  BY <2>1
<1>2. CASE ~\E n \in DOMAIN text : MentionsVersion(text[n])
  <2> DEFINE t == WithVersion(text)
             F == FirstMention(t)
             G == FirstMention(text)
  <2>1. /\ t \in Seq(Lines) /\ Len(t) = Len(text) + 1 /\ t[1] = Version
        /\ \A n \in 2..(Len(text) + 1) : t[n] = text[n - 1]
    BY <1>2, PrepareType, VersionPut
  <2> HIDE DEF t
  <2>2. /\ F \in 1..Len(t) /\ MentionsInclude(t[F])
        /\ \A m \in 1..(F - 1) : ~MentionsInclude(t[m])
    BY <2>1, FirstMentionFound DEF t
  <2> HIDE DEF F
  <2>3. F # 1
    <3>1. ~MentionsInclude(Version)  BY DEF MentionsInclude, Version
    <3>2. QED  BY <2>1, <2>2, <3>1
  <2>4. Len(text) \in Nat /\ DOMAIN text = 1..Len(text)  OBVIOUS
  <2>5. /\ F - 1 \in DOMAIN text /\ F \in 2..(Len(text) + 1) /\ t[F] = text[F - 1]
    BY <2>1, <2>2, <2>3, <2>4
  <2>6. G \in 1..Len(text) /\ G <= F - 1 /\ MentionsInclude(text[G])
    BY <2>2, <2>5, FirstMentionFound
  <2> HIDE DEF G
  <2>7. G + 1 \in 2..(Len(text) + 1) /\ t[G + 1] = text[G]
    <3>1. G + 1 \in 2..(Len(text) + 1) /\ (G + 1) - 1 = G  BY <2>4, <2>6
    <3>2. QED  BY <2>1, <3>1
  <2>8. G = F - 1
    <3>1. ASSUME G + 1 < F PROVE FALSE
      <4>1. G + 1 \in 1..(F - 1)  BY <2>4, <2>5, <2>6, <3>1
      <4>2. QED  BY <2>2, <2>6, <2>7, <4>1
    <3>2. QED  BY <2>4, <2>5, <2>6, <3>1
  <2>9. text[G].kind # "comment"  BY <2>4, <2>6 DEF G
  <2>10. QED  BY <2>5, <2>8, <2>9 DEF F, t
<1>3. QED  BY <1>1, <1>2

\* The extension is put before every include and after the version.
LEMMA ExtensionInOrder ==
  ASSUME NEW text \in Seq(Lines),
         (\E n \in DOMAIN text : MentionsInclude(text[n])) =>
             text[FirstMention(text)].kind # "comment"
  PROVE  /\ BeginsWithVersion(text) => BeginsWithVersion(WithExtension(text))
         /\ \A n \in DOMAIN WithExtension(text) :
               WithExtension(text)[n].kind \in {"include", "indented"} =>
                  \E m \in 1..(n - 1) : WithExtension(text)[m].kind = "extension"
<1>1. CASE ~\E n \in DOMAIN text : MentionsInclude(text[n])
  <2>1. WithExtension(text) = text  BY <1>1, Zenon DEF WithExtension
  <2>2. QED  BY <1>1, <2>1 DEF MentionsInclude
<1>2. CASE \E n \in DOMAIN text : MentionsInclude(text[n])
  <2> DEFINE F == FirstMention(text)
             broken == [text[F] EXCEPT !.kind = "include"]
             u == WithExtension(text)
  <2>1. /\ F \in 1..Len(text) /\ Len(text) \in Nat /\ DOMAIN text = 1..Len(text)
        /\ MentionsInclude(text[F]) /\ \A m \in 1..(F - 1) : ~MentionsInclude(text[m])
        /\ text[F].kind # "comment"
    BY <1>2, FirstMentionFound
  <2>2. broken \in Lines /\ Extension \in Lines /\ broken.kind = "include"
    <3>1. text[F] \in Lines  BY <2>1
    <3>2. QED  BY <3>1, PathsAssumption DEF Lines, Kinds, Extension
  <2>3. u = SubSeq(text, 1, F - 1) \o <<Extension, broken>> \o SubSeq(text, F + 1, Len(text))
    BY <1>2, <2>1, Zenon DEF WithExtension
  <2> HIDE DEF F, broken, u
  <2>4. Spliced(u, text, F, Extension, broken)  BY <2>1, <2>2, <2>3, Splicing
  <2>5. u \in Seq(Lines)  BY PrepareType DEF u
  <2>6. /\ Len(u) = Len(text) + 1 /\ DOMAIN u = 1..Len(u)
        /\ \A n \in 1..(F - 1) : u[n] = text[n]
        /\ u[F].kind = "extension"
    <3>1. Extension.kind = "extension"  BY DEF Extension
    <3>2. /\ Len(u) = Len(text) + 1 /\ \A n \in 1..(F - 1) : u[n] = text[n]
          /\ u[F] = Extension
      BY <2>4 DEF Spliced
    <3>3. QED  BY <2>5, <3>1, <3>2
  <2>7. ASSUME NEW n \in DOMAIN u, u[n].kind \in {"include", "indented"}
        PROVE  \E m \in 1..(n - 1) : u[m].kind = "extension"
    <3>1. n # F  BY <2>6, <2>7
    <3>2. ASSUME n < F PROVE FALSE
      <4>1. n \in 1..(F - 1)  BY <2>1, <2>6, <3>2
      <4>2. QED  BY <2>1, <2>6, <2>7, <4>1 DEF MentionsInclude
    <3>3. F \in 1..(n - 1)  BY <2>1, <2>6, <3>1, <3>2
    <3>4. QED  BY <2>6, <3>3
  <2>8. ASSUME BeginsWithVersion(text) PROVE BeginsWithVersion(u)
    <3>1. PICK v \in Directives(text) : /\ text[v].kind = "version"
                                        /\ \A m \in Directives(text) : v <= m
      BY <2>8 DEF BeginsWithVersion
    <3>2. v \in 1..(F - 1)
      <4>1. F \in Directives(text)  BY <2>1 DEF Directives, MentionsInclude
      <4>2. v # F  BY <2>1, <3>1 DEF MentionsInclude
      <4>3. v \in 1..Len(text) /\ v <= F  BY <2>1, <3>1, <4>1 DEF Directives
      <4>4. QED  BY <2>1, <4>2, <4>3
    <3>3. v \in Directives(u) /\ u[v].kind = "version"
      <4>1. v \in DOMAIN u /\ u[v] = text[v]  BY <2>1, <2>6, <3>2
      <4>2. QED  BY <3>1, <4>1 DEF Directives
    <3>4. ASSUME NEW m \in Directives(u) PROVE v <= m
      <4>1. m \in 1..Len(u)  BY <2>6 DEF Directives
      <4>2. CASE m < F
        <5>1. m \in 1..(F - 1) /\ m \in DOMAIN text  BY <2>1, <4>1, <4>2
        <5>2. m \in Directives(text)  BY <2>6, <5>1 DEF Directives
        <5>3. QED  BY <3>1, <5>2
      <4>3. CASE ~(m < F)  BY <2>1, <2>6, <3>2, <4>1, <4>3
      <4>4. QED  BY <4>2, <4>3
    <3>5. QED  BY <3>3, <3>4 DEF BeginsWithVersion
  <2>9. QED  BY <2>7, <2>8 DEF u
<1>3. QED  BY <1>1, <1>2

\* What PrepareGLSL answers has an extension directive before every include, if no
\* comment is the first to speak of includes, and a version first, if the source has
\* that or does not speak of versions.
THEOREM PreparedTextsInOrder == Spec => []PreparedInOrder
<1>1. Init => ResultIsPrepared  BY DEF Init, ResultIsPrepared
<1>2. ResultIsPrepared /\ [Next]_vars => ResultIsPrepared'
  <2> SUFFICES ASSUME ResultIsPrepared, [Next]_vars PROVE ResultIsPrepared'  OBVIOUS
  <2>1. ASSUME NEW t \in Texts, ReplaceIncludes(t) PROVE ResultIsPrepared'
    <3>1. \/ result' = [of |-> "nothing", text |-> <<>>]
          \/ result' = [of |-> "ReplaceIncludes", text |-> t]
      BY <2>1, Zenon DEF ReplaceIncludes
    <3>2. result'.of # "PrepareGLSL"  BY <3>1
    <3>3. QED  BY <3>2 DEF ResultIsPrepared
  <2>2. ASSUME NEW t \in Texts, PrepareGLSL(t) PROVE ResultIsPrepared'
    BY <2>2 DEF PrepareGLSL, ResultIsPrepared
  <2>3. CASE ReadLine \/ OpenInclude \/ SkipInclude
    BY <2>3 DEF ReadLine, OpenInclude, SkipInclude, ResultIsPrepared
  <2>4. CASE Return  BY <2>4 DEF Return, ResultIsPrepared
  <2>5. CASE UNCHANGED vars  BY <2>5 DEF vars, ResultIsPrepared
  <2>6. QED  BY <2>1, <2>2, <2>3, <2>4, <2>5 DEF Next, Step
<1>3. TypesOK /\ ResultIsPrepared => PreparedInOrder
  <2> SUFFICES ASSUME TypesOK, ResultIsPrepared, result.of = "PrepareGLSL",
                      (\E n \in DOMAIN source : MentionsInclude(source[n])) =>
                          source[FirstMention(source)].kind # "comment"
               PROVE  /\ (\/ BeginsWithVersion(source)
                          \/ \A n \in DOMAIN source : ~MentionsVersion(source[n]))
                             => BeginsWithVersion(result.text)
                      /\ \A n \in DOMAIN result.text :
                            result.text[n].kind \in {"include", "indented"} =>
                               \E m \in 1..(n - 1) : result.text[m].kind = "extension"
      BY DEF PreparedInOrder
  <2> DEFINE t == WithVersion(source)
  <2>1. source \in Seq(Lines)  BY DEF TypesOK
  <2>2. t \in Seq(Lines)  BY <2>1, PrepareType
  <2>3. (BeginsWithVersion(source) \/ \A n \in DOMAIN source : ~MentionsVersion(source[n]))
            => BeginsWithVersion(t)
    BY <2>1, VersionFirst
  <2>4. (\E n \in DOMAIN t : MentionsInclude(t[n])) => t[FirstMention(t)].kind # "comment"
    BY <2>1, SameFirstMention
  <2> HIDE DEF t
  <2>5. result.text = WithExtension(t)  BY DEF ResultIsPrepared, t
  <2>6. QED  BY <2>2, <2>3, <2>4, <2>5, ExtensionInOrder
<1>4. ReadingInv => TypesOK  BY DEF ReadingInv
<1>5. QED  BY <1>1, <1>2, <1>3, <1>4, ReadingAlways, PTL DEF Spec
=============================================================================
