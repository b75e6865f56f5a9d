-------------------------- MODULE ShaderInfoProofs --------------------------
(***************************************************************************)
(* Theorems about ShaderInfo, for any trees and names: the definition that *)
(* is found and the symbols that are reported are those that the tree, read *)
(* as a whole, says they are.                                              *)
(*                                                                         *)
(* What a traversal has before it is a forest: trees that are next to each *)
(* other and reach to the end.  So it has a place in the source, where its *)
(* first tree begins, and what it has done is what is before that place.   *)
(***************************************************************************)
EXTENDS ShaderInfo, SequenceTheorems, WellFoundedInduction, TLAPS

\* A set of numbers that is not empty has a least element.
LEMMA LeastNumber ==
  ASSUME NEW T \in SUBSET Nat, T # {}
  PROVE  \E x \in T : \A y \in T : x <= y
<1>1. PICK R : /\ IsWellFoundedOn(R, Nat)
               /\ \A x, y \in Nat : y < x => <<y, x>> \in R
  <2>1. IsWellFoundedOn(OpToRel(<, Nat), Nat)  BY NatLessThanWellFounded
  <2>2. \A x, y \in Nat : y < x => <<y, x>> \in OpToRel(<, Nat)  BY DEF OpToRel
  <2>3. QED  BY <2>1, <2>2, Zenon
<1>2. PICK x \in T : \A y \in T : <<y, x>> \notin R  BY <1>1, WFMin
<1>3. ASSUME NEW y \in T PROVE x <= y
  <2>1. x \in Nat /\ y \in Nat  OBVIOUS
  <2>2. ~(y < x)  BY <1>1, <1>2, <2>1, Zenon
  <2>3. QED  BY <2>1, <2>2
<1>4. QED  BY <1>3

\* What is so for 0 and goes from each number up to a bound to the next, is so
\* for all of them: the least exception would have a predecessor.
LEMMA BoundedInduction ==
  ASSUME NEW N \in Nat, NEW S, 0 \in S, \A n \in 1..N : n - 1 \in S => n \in S
  PROVE  0..N \subseteq S
<1> SUFFICES ASSUME NEW z \in 0..N, z \notin S PROVE FALSE  OBVIOUS
<1> DEFINE T == {n \in 0..N : n \notin S}
<1>1. T \in SUBSET Nat /\ T # {}  OBVIOUS
<1>2. PICK x \in T : \A y \in T : x <= y
  <2> HIDE DEF T
  <2>1. QED  BY <1>1, LeastNumber
<1>3. x \in 1..N /\ x - 1 \in 0..N  OBVIOUS
<1>4. x - 1 \notin T  BY <1>2, <1>3
<1>5. QED  BY <1>3, <1>4

\* A recursion over the first numbers, each value made from the one before.
SolvesRecursion(f, N, V, base, step) ==
    /\ f \in [0..N -> V] /\ f[0] = base
    /\ \A n \in 1..N : f[n] = step[n][f[n - 1]]

\* It has a solution.
LEMMA RecursionExists ==
  ASSUME NEW N \in Nat, NEW V, NEW base \in V, NEW step \in [1..N -> [V -> V]]
  PROVE  \E f : SolvesRecursion(f, N, V, base, step)
<1> DEFINE Solves(f, n) == /\ f \in [0..n -> V] /\ f[0] = base
                           /\ \A k \in 1..n : f[k] = step[k][f[k - 1]]
           S == {n \in 0..N : \E f : Solves(f, n)}
<1>1. 0 \in S
  <2> DEFINE g == [n \in 0..0 |-> base]
  <2>1. Solves(g, 0)  OBVIOUS
  <2> HIDE DEF Solves
  <2>2. QED  BY <2>1
<1>2. ASSUME NEW n \in 1..N, n - 1 \in S PROVE n \in S
  <2>1. PICK f : Solves(f, n - 1)  BY <1>2
  <2> DEFINE g == [k \in 0..n |-> IF k = n THEN step[n][f[n - 1]] ELSE f[k]]
  <2>2. f[n - 1] \in V /\ step[n][f[n - 1]] \in V
    <3>1. n - 1 \in 0..(n - 1)  OBVIOUS
    <3>2. f[n - 1] \in V  BY <2>1, <3>1
    <3>3. step[n] \in [V -> V]  OBVIOUS
    <3>4. QED  BY <3>2, <3>3
  <2>3. g \in [0..n -> V]  BY <2>1, <2>2
  <2>4. g[0] = base  BY <2>1
  <2>5. ASSUME NEW k \in 1..n PROVE g[k] = step[k][g[k - 1]]
    <3>1. g[k - 1] = f[k - 1]  OBVIOUS
    <3>2. CASE k = n  BY <3>1, <3>2
    <3>3. CASE k # n
      <4>1. k \in 1..(n - 1)  BY <3>3
      <4>2. g[k] = f[k]  BY <3>3
      <4>3. f[k] = step[k][f[k - 1]]  BY <2>1, <4>1
      <4>4. QED  BY <3>1, <4>2, <4>3
    <3>4. QED  BY <3>2, <3>3
  <2>6. Solves(g, n)  BY <2>3, <2>4, <2>5
  <2> HIDE DEF Solves
  <2>7. QED  BY <2>6
<1>3. 0..N \subseteq S
  <2> HIDE DEF S
  <2>1. QED  BY <1>1, <1>2, BoundedInduction
<1>4. PICK f : Solves(f, N)  BY <1>3
<1>5. SolvesRecursion(f, N, V, base, step)  BY <1>4 DEF SolvesRecursion
<1>6. QED  BY <1>5

\* What is so for a number as soon as it is so for all greater ones up to a bound,
\* is so for all of them: the greatest exception would have none above it.
LEMMA BackwardInduction ==
  ASSUME NEW N \in Nat, NEW S, \A n \in 1..N : (n + 1)..N \subseteq S => n \in S
  PROVE  1..N \subseteq S
<1> SUFFICES ASSUME NEW z \in 1..N, z \notin S PROVE FALSE  OBVIOUS
<1> DEFINE T == {k \in 0..N : N - k \notin S /\ k < N}
<1>1. T \in SUBSET Nat /\ T # {}
  <2>1. N - z \in 0..N /\ N - (N - z) = z /\ N - z < N  OBVIOUS
  <2>2. QED  BY <2>1
<1>2. PICK x \in T : \A y \in T : x <= y
  <2> HIDE DEF T
  <2>1. QED  BY <1>1, LeastNumber
<1>3. x \in 0..N /\ N - x \notin S /\ N - x \in 1..N  OBVIOUS
<1>4. ASSUME NEW m \in (N - x + 1)..N PROVE m \in S
  <2>1. N - m \in 0..N /\ N - (N - m) = m /\ N - m < x /\ N - m < N  BY <1>3
  <2>2. N - m \notin T  BY <1>2, <1>3, <2>1
  <2>3. QED  BY <2>1, <2>2
<1>5. QED  BY <1>3, <1>4

\* A recursion from the last number down: each value is made from that of a later
\* number, or from none where there is no next one.
SolvesBackwards(f, N, V, next, base, step) ==
    /\ f \in [1..N -> V]
    /\ \A n \in 1..N : f[n] = IF next[n] = 0 THEN base[n] ELSE step[n][f[next[n]]]

\* It has a solution, too.
LEMMA BackwardRecursionExists ==
  ASSUME NEW N \in Nat, NEW V, NEW next \in [1..N -> 0..N], NEW base \in [1..N -> V],
         NEW step \in [1..N -> [V -> V]],
         \A n \in 1..N : next[n] = 0 \/ n < next[n]
  PROVE  \E f : SolvesBackwards(f, N, V, next, base, step)
<1> DEFINE value(f, n) == IF next[n] = 0 THEN base[n] ELSE step[n][f[next[n]]]
           Solves(f, k) == /\ f \in [(N - k + 1)..N -> V]
                           /\ \A n \in (N - k + 1)..N : f[n] = value(f, n)
           S == {k \in 0..N : \E f : Solves(f, k)}
<1>1. 0 \in S
  <2> DEFINE g == [n \in (N + 1)..N |-> base[n]]
  <2>1. Solves(g, 0)  OBVIOUS
  <2> HIDE DEF Solves
  <2>2. QED  BY <2>1
<1>2. ASSUME NEW k \in 1..N, k - 1 \in S PROVE k \in S
  <2>1. PICK f : Solves(f, k - 1)  BY <1>2
  <2> DEFINE m == N - k + 1
             g == [n \in m..N |-> IF n = m THEN value(f, m) ELSE f[n]]
  <2>2. m \in 1..N /\ N - (k - 1) + 1 = m + 1  OBVIOUS
  <2>3. /\ f \in [(m + 1)..N -> V]
        /\ \A n \in (m + 1)..N : f[n] = value(f, n)
    <3> HIDE DEF value, m
    <3>1. QED  BY <2>1, <2>2
  <2> HIDE DEF m
  <2>4. value(f, m) \in V
    <3>1. CASE next[m] = 0  BY <2>2, <3>1
    <3>2. CASE next[m] # 0
      <4>1. next[m] \in (m + 1)..N  BY <2>2, <3>2
      <4>2. f[next[m]] \in V  BY <2>3, <4>1
      <4>3. step[m] \in [V -> V]  BY <2>2
      <4>4. step[m][f[next[m]]] \in V  BY <4>2, <4>3
      <4>5. QED  BY <3>2, <4>4
    <3>3. QED  BY <3>1, <3>2
  <2>5. g \in [m..N -> V]
    <3> HIDE DEF value
    <3>1. QED  BY <2>2, <2>3, <2>4
  <2>6. ASSUME NEW n \in m..N PROVE g[n] = value(g, n)
    <3>1. n \in 1..N /\ (next[n] # 0 => next[n] \in (m + 1)..N)  BY <2>2
    <3>2. next[n] # 0 => g[next[n]] = f[next[n]]
      <4> HIDE DEF value
      <4>1. QED  BY <2>2, <3>1
    <3>3. value(g, n) = value(f, n)
      <4> HIDE DEF g
      <4>1. QED  BY <3>2
    <3>4. g[n] = value(f, n)
      <4>1. CASE n = m  BY <4>1
      <4>2. CASE n # m
        <5>1. n \in (m + 1)..N  BY <2>2, <4>2
        <5> HIDE DEF value
        <5>2. QED  BY <2>3, <4>2, <5>1
      <4>3. QED  BY <4>1, <4>2
    <3> HIDE DEF g, value
    <3>5. QED  BY <3>3, <3>4
  <2>7. Solves(g, k)
    <3> HIDE DEF g, value
    <3>1. QED  BY <2>5, <2>6 DEF m
  <2> HIDE DEF Solves, g
  <2>8. QED  BY <2>7
<1>3. 0..N \subseteq S
  <2> HIDE DEF S
  <2>1. QED  BY <1>1, <1>2, BoundedInduction
<1>4. PICK f : Solves(f, N)
  <2>1. N \in 0..N  OBVIOUS
  <2>2. N \in S  BY <1>3, <2>1
  <2> HIDE DEF Solves
  <2>3. QED  BY <2>2
<1>5. SolvesBackwards(f, N, V, next, base, step)
  <2>1. N - N + 1 = 1  OBVIOUS
  <2>2. QED  BY <1>4, <2>1 DEF SolvesBackwards
<1>6. QED  BY <1>5

-----------------------------------------------------------------------------
\* The trees of callers.
IsAST(t) == t \in Seq(Nodes) /\ t # <<>> /\ IsTree(t) /\ IsSyntax(t)

LEMMA TreeIs ==
  ASSUME NEW t, IsAST(t)
  PROVE  /\ Len(t) \in Nat /\ Len(t) >= 1 /\ DOMAIN t = 1..Len(t)
         /\ \A n \in 1..Len(t) :
               /\ t[n] \in Nodes /\ t[n].kids \in Seq(Nat) /\ Len(t[n].kids) \in Nat
               /\ DOMAIN t[n].kids = 1..Len(t[n].kids)
               /\ t[n].kids = <<>> <=> Len(t[n].kids) = 0
               /\ \A j \in 1..Len(t[n].kids) : t[n].kids[j] \in (n + 1)..Len(t)
<1>1. t \in Seq(Nodes) /\ t # <<>>  BY DEF IsAST
<1>2. Len(t) \in Nat /\ Len(t) >= 1 /\ DOMAIN t = 1..Len(t)  BY <1>1, EmptySeq
<1>3. ASSUME NEW n \in 1..Len(t)
      PROVE  /\ t[n] \in Nodes /\ t[n].kids \in Seq(Nat) /\ Len(t[n].kids) \in Nat
             /\ DOMAIN t[n].kids = 1..Len(t[n].kids)
             /\ t[n].kids = <<>> <=> Len(t[n].kids) = 0
  <2>1. t[n] \in Nodes  BY <1>1, <1>3
  <2>2. t[n].kids \in Seq(Nat)  BY <2>1 DEF Nodes
  <2>3. QED  BY <2>1, <2>2, EmptySeq
<1>4. ASSUME NEW n \in 1..Len(t), NEW j \in 1..Len(t[n].kids)
      PROVE  t[n].kids[j] \in (n + 1)..Len(t)
  BY <1>2, <1>3, <1>4 DEF IsAST, IsTree
<1>5. QED  BY <1>2, <1>3, <1>4

\* LastOf, unfolded.
LEMMA LastUnfold ==
  ASSUME NEW t, IsAST(t)
  PROVE  \A n \in 1..Len(t) :
             /\ LastOf(t)[n] \in 1..Len(t)
             /\ LastOf(t)[n] = IF t[n].kids = <<>> THEN n
                               ELSE LastOf(t)[t[n].kids[Len(t[n].kids)]]
<1> DEFINE N == Len(t)
           next == [n \in 1..N |-> IF t[n].kids = <<>> THEN 0 ELSE t[n].kids[Len(t[n].kids)]]
           base == [n \in 1..N |-> n]
           step == [n \in 1..N |-> [v \in 1..N |-> v]]
           IsLast(f) == f = [n \in DOMAIN t |->
                                IF t[n].kids = <<>> THEN n ELSE f[t[n].kids[Len(t[n].kids)]]]
<1>1. N \in Nat /\ DOMAIN t = 1..N  BY TreeIs
<1>2. \A n \in 1..N : t[n].kids # <<>> => t[n].kids[Len(t[n].kids)] \in (n + 1)..N
  <2> SUFFICES ASSUME NEW n \in 1..N, t[n].kids # <<>>
               PROVE  t[n].kids[Len(t[n].kids)] \in (n + 1)..N
    OBVIOUS
  <2>1. Len(t[n].kids) \in 1..Len(t[n].kids)  BY TreeIs
  <2>2. QED  BY <2>1, TreeIs
<1>3. next \in [1..N -> 0..N]  BY <1>1, <1>2
<1>4. \A n \in 1..N : next[n] = 0 \/ n < next[n]  BY <1>1, <1>2
<1>5. base \in [1..N -> 1..N] /\ step \in [1..N -> [1..N -> 1..N]]  OBVIOUS
<1>6. PICK f : SolvesBackwards(f, N, 1..N, next, base, step)
  <2> HIDE DEF N, next, base, step
  <2>1. QED  BY <1>1, <1>3, <1>4, <1>5, BackwardRecursionExists
<1>7. /\ f \in [1..N -> 1..N]
      /\ \A n \in 1..N : f[n] = IF next[n] = 0 THEN base[n] ELSE step[n][f[next[n]]]
  BY <1>6 DEF SolvesBackwards
<1>8. \A n \in 1..N : f[n] = IF t[n].kids = <<>> THEN n ELSE f[t[n].kids[Len(t[n].kids)]]
  <2> SUFFICES ASSUME NEW n \in 1..N
               PROVE  f[n] = IF t[n].kids = <<>> THEN n ELSE f[t[n].kids[Len(t[n].kids)]]
    OBVIOUS
  <2>1. CASE t[n].kids = <<>>  BY <1>7, <2>1
  <2>2. CASE t[n].kids # <<>>
    <3>1. next[n] = t[n].kids[Len(t[n].kids)] /\ next[n] # 0 /\ next[n] \in 1..N
      BY <1>1, <1>2, <2>2
    <3> HIDE DEF next
    <3>2. f[next[n]] \in 1..N  BY <1>7, <3>1
    <3>3. step[n][f[next[n]]] = f[next[n]]  BY <3>2
    <3>4. f[n] = step[n][f[next[n]]]  BY <1>7, <3>1
    <3>5. QED  BY <2>2, <3>1, <3>3, <3>4
  <2>3. QED  BY <2>1, <2>2
<1>9. IsLast(f)
  <2>1. f = [n \in 1..N |-> f[n]]  BY <1>7
  <2>2. QED  BY <1>1, <1>8, <2>1
<1>10. LastOf(t) = CHOOSE g : IsLast(g)  BY Zenon DEF LastOf
<1>11. IsLast(LastOf(t))
  <2> HIDE DEF IsLast
  <2>1. QED  BY <1>9, <1>10
<1> DEFINE L == LastOf(t)
<1> HIDE DEF L
<1>12. IsLast(L)  BY <1>11 DEF L
<1>13. \A n \in 1..N : L[n] = IF t[n].kids = <<>> THEN n ELSE L[t[n].kids[Len(t[n].kids)]]
  <2> SUFFICES ASSUME NEW n \in 1..N
               PROVE  L[n] = IF t[n].kids = <<>> THEN n ELSE L[t[n].kids[Len(t[n].kids)]]
    OBVIOUS
  <2> HIDE DEF IsLast
  <2>1. n \in DOMAIN t  BY <1>1
  <2>2. QED  BY <1>12, <2>1 DEF IsLast
<1>14. 1..N \subseteq {n \in 1..N : L[n] \in 1..N}
  <2> DEFINE S == {n \in 1..N : L[n] \in 1..N}
  <2>1. ASSUME NEW n \in 1..N, (n + 1)..N \subseteq S PROVE n \in S
    BY <1>1, <1>2, <1>13, <2>1
  <2> HIDE DEF S, N
  <2>2. QED  BY <1>1, <2>1, BackwardInduction DEF S
<1>15. QED  BY <1>13, <1>14 DEF L

\* A node is the last one under it or has a last child.
LEMMA LastIs ==
  ASSUME NEW t, IsAST(t), NEW n \in 1..Len(t)
  PROVE  /\ LastOf(t)[n] \in n..Len(t)
         /\ t[n].kids = <<>> => LastOf(t)[n] = n
         /\ t[n].kids # <<>> => LastOf(t)[n] = LastOf(t)[t[n].kids[Len(t[n].kids)]]
<1> DEFINE L == LastOf(t)
           N == Len(t)
<1>1. \A k \in 1..N : L[k] \in 1..N
      /\ L[k] = IF t[k].kids = <<>> THEN k ELSE L[t[k].kids[Len(t[k].kids)]]
  BY LastUnfold
<1>2. ASSUME NEW k \in 1..N PROVE t[k].kids # <<>> => t[k].kids[Len(t[k].kids)] \in (k + 1)..N
  <2>1. t[k].kids # <<>> => Len(t[k].kids) \in 1..Len(t[k].kids)  BY TreeIs
  <2>2. QED  BY <2>1, TreeIs
<1> HIDE DEF L
<1>3. 1..N \subseteq {k \in 1..N : k <= L[k]}
  <2> DEFINE S == {k \in 1..N : k <= L[k]}
  <2>1. N \in Nat  BY TreeIs
  <2>2. ASSUME NEW k \in 1..N, (k + 1)..N \subseteq S PROVE k \in S
    BY <1>1, <1>2, <2>1, <2>2
  <2> HIDE DEF S, N
  <2>3. QED  BY <2>1, <2>2, BackwardInduction DEF S
<1>4. L[n] \in n..N  BY <1>1, <1>3
<1>5. QED  BY <1>1, <1>4 DEF L

\* The children of a node, with the nodes under them, follow it one after another.
LEMMA KidsTile ==
  ASSUME NEW t, IsAST(t), NEW n \in 1..Len(t), NEW j \in 1..Len(t[n].kids)
  PROVE  /\ t[n].kids[j] \in (n + 1)..Len(t)
         /\ t[n].kids[j] = IF j = 1 THEN n + 1 ELSE LastOf(t)[t[n].kids[j - 1]] + 1
         /\ LastOf(t)[t[n].kids[j]] <= LastOf(t)[n]
<1> DEFINE L == LastOf(t)
           kids == t[n].kids
           m == Len(kids)
           S == {i \in 1..m : L[kids[i]] <= L[n]}
<1>1. m \in Nat /\ \A i \in 1..m : kids[i] \in (n + 1)..Len(t)  BY TreeIs
<1>2. \A i \in 1..m : kids[i] = IF i = 1 THEN n + 1 ELSE L[kids[i - 1]] + 1
  BY TreeIs DEF IsAST, IsTree
<1>3. L[n] = L[kids[m]] /\ L[n] \in Nat
  <2>1. kids # <<>>  BY TreeIs
  <2>2. QED  BY <2>1, LastIs
<1>4. \A i \in 1..m : L[kids[i]] \in kids[i]..Len(t)
  <2> SUFFICES ASSUME NEW i \in 1..m PROVE L[kids[i]] \in kids[i]..Len(t)  OBVIOUS
  <2>1. kids[i] \in 1..Len(t)  BY <1>1
  <2> HIDE DEF kids
  <2>2. QED  BY <2>1, LastIs
<1> HIDE DEF L, kids
<1>5. ASSUME NEW i \in 1..m, (i + 1)..m \subseteq S PROVE i \in S
  <2>1. CASE i = m  BY <1>3, <2>1
  <2>2. CASE i # m
    <3>1. i + 1 \in (i + 1)..m /\ (i + 1) # 1 /\ (i + 1) - 1 = i /\ i + 1 \in 1..m  BY <1>1, <2>2
    <3>2. kids[i + 1] = L[kids[i]] + 1  BY <1>2, <3>1
    <3>3. L[kids[i + 1]] <= L[n]  BY <1>5, <3>1
    <3>4. L[kids[i + 1]] \in kids[i + 1]..Len(t)  BY <1>4, <3>1
    <3>5. L[kids[i]] \in Nat /\ kids[i + 1] \in Nat  BY <1>1, <1>4, <3>1
    <3>6. QED  BY <1>3, <3>2, <3>3, <3>4, <3>5
  <2>3. QED  BY <2>1, <2>2
<1>6. 1..m \subseteq S
  <2> HIDE DEF S, m
  <2>1. QED  BY <1>1, <1>5, BackwardInduction
<1>7. j \in 1..m  BY DEF kids
<1>8. L[kids[j]] <= L[n]  BY <1>6, <1>7
<1>9. QED  BY <1>1, <1>2, <1>7, <1>8 DEF L, kids

\* Of the nodes under a node none reaches beyond it.
LEMMA Nesting ==
  ASSUME NEW t, IsAST(t), NEW n \in 1..Len(t), NEW a \in Under(t, n)
  PROVE  a \in 1..Len(t) /\ LastOf(t)[a] <= LastOf(t)[n]
<1> DEFINE L == LastOf(t)
           N == Len(t)
           Nested(k) == \A b \in k..L[k] : L[b] <= L[k]
           S == {k \in 1..N : Nested(k)}
<1>1. N \in Nat /\ \A k \in 1..N : L[k] \in k..N  BY TreeIs, LastIs
<1>2. ASSUME NEW k \in 1..N, (k + 1)..N \subseteq S PROVE Nested(k)
  <2> SUFFICES ASSUME NEW b \in k..L[k], b # k PROVE L[b] <= L[k]  BY <1>1
  <2> DEFINE kids == t[k].kids
             m == Len(kids)
             R == {i \in 1..m : b < kids[i]}
  <2>1. m \in Nat /\ \A i \in 1..m : kids[i] \in (k + 1)..N
    BY TreeIs
  <2>2. m >= 1 /\ L[k] = L[kids[m]]
    <3>1. kids # <<>>  BY <1>1, LastIs
    <3>2. QED  BY <2>1, <3>1, LastIs, TreeIs
  <2>3. \A i \in 1..m : kids[i] = (IF i = 1 THEN k + 1 ELSE L[kids[i - 1]] + 1)
                        /\ L[kids[i]] <= L[k]
    BY KidsTile
  <2> HIDE DEF kids, L
  <2>4. \E i \in 1..m : kids[i] <= b /\ b <= L[kids[i]]
    <3>1. CASE R = {}
      <4>1. m \in 1..m /\ b <= L[kids[m]]  BY <2>1, <2>2
      <4>2. ~(b < kids[m]) /\ kids[m] \in Nat /\ b \in Nat  BY <2>1, <3>1, <4>1
      <4>3. QED  BY <4>1, <4>2
    <3>2. CASE R # {}
      <4>1. R \in SUBSET Nat  OBVIOUS
      <4>2. PICK i \in R : \A h \in R : i <= h
        <5> HIDE DEF R
        <5>1. QED  BY <3>2, <4>1, LeastNumber
      <4>3. i \in 1..m /\ b < kids[i]  OBVIOUS
      <4>4. i # 1
        <5>1. kids[1] = k + 1 /\ 1 \in 1..m  BY <2>2, <2>1, <2>3
        <5>2. QED  BY <4>3, <5>1
      <4>5. i - 1 \in 1..m /\ i - 1 \notin R  BY <2>1, <4>2, <4>3, <4>4
      <4>6. kids[i] = L[kids[i - 1]] + 1  BY <2>3, <4>3, <4>4
      <4>7. kids[i - 1] \in 1..N  BY <2>1, <4>5
      <4>8. L[kids[i - 1]] \in Nat  BY <1>1, <4>7
      <4>9. b <= L[kids[i - 1]]  BY <1>1, <4>3, <4>6, <4>8
      <4>10. kids[i - 1] <= b  BY <1>1, <4>5, <4>7
      <4>11. QED  BY <4>5, <4>9, <4>10
    <3>3. QED  BY <3>1, <3>2
  <2>5. PICK i \in 1..m : kids[i] <= b /\ b <= L[kids[i]]  BY <2>4
  <2>6. kids[i] \in (k + 1)..N  BY <2>1
  <2>7. Nested(kids[i])  BY <1>2, <2>6
  <2>8. b \in kids[i]..L[kids[i]] /\ b \in 1..N  BY <1>1, <2>5, <2>6
  <2>9. L[b] <= L[kids[i]]  BY <2>7, <2>8
  <2>10. L[kids[i]] <= L[k]  BY <2>3
  <2>11. L[b] \in Nat /\ L[kids[i]] \in Nat /\ L[k] \in Nat  BY <1>1, <2>6, <2>8
  <2>12. QED  BY <2>9, <2>10, <2>11
<1>3. 1..N \subseteq S
  <2>1. \A k \in 1..N : (k + 1)..N \subseteq S => k \in S  BY <1>2
  <2> HIDE DEF S, N
  <2>2. QED  BY <1>1, <2>1, BackwardInduction
<1>4. a \in n..L[n]  BY DEF Under
<1>5. Nested(n)  BY <1>3
<1>6. QED  BY <1>1, <1>4, <1>5

-----------------------------------------------------------------------------
\* Trees next to each other, of which the last one reaches to e, and where the
\* first one begins; no trees begin behind e.
IsForest(t, s, e) ==
    /\ s \in Seq(1..Len(t))
    /\ \A k \in 1..(Len(s) - 1) : s[k + 1] = LastOf(t)[s[k]] + 1
    /\ s # <<>> => LastOf(t)[s[Len(s)]] = e
First(s, e) == IF s = <<>> THEN e + 1 ELSE s[1]

LEMMA EmptyForest ==
  ASSUME NEW t, NEW e \in Nat
  PROVE  IsForest(t, <<>>, e) /\ First(<<>>, e) = e + 1
BY EmptySeq DEF IsForest, First

LEMMA OneTree ==
  ASSUME NEW t, IsAST(t), NEW n \in 1..Len(t)
  PROVE  IsForest(t, <<n>>, LastOf(t)[n]) /\ First(<<n>>, LastOf(t)[n]) = n
<1>1. <<n>> \in Seq(1..Len(t)) /\ Len(<<n>>) = 1 /\ <<n>>[1] = n /\ <<n>> # <<>>  OBVIOUS
<1>2. QED  BY <1>1 DEF IsForest, First

\* The trees of a forest end where the forest does, at the latest.
LEMMA ForestEnds ==
  ASSUME NEW t, IsAST(t), NEW e \in Nat, NEW s, IsForest(t, s, e), NEW j \in 1..Len(s)
  PROVE  s[j] \in 1..Len(t) /\ s[j] <= LastOf(t)[s[j]] /\ LastOf(t)[s[j]] <= e
<1> DEFINE L == LastOf(t)
           m == Len(s)
           S == {i \in 1..m : L[s[i]] <= e}
<1>1. m \in Nat /\ (\A i \in 1..m : s[i] \in 1..Len(t)) /\ (m > 0 => s # <<>>)
      /\ Len(t) \in Nat
  BY TreeIs DEF IsForest
<1>2. \A i \in 1..m : L[s[i]] \in s[i]..Len(t)  BY <1>1, LastIs
<1>3. (\A k \in 1..(m - 1) : s[k + 1] = L[s[k]] + 1) /\ (s # <<>> => L[s[m]] = e)
  BY DEF IsForest
<1> HIDE DEF L
<1>4. ASSUME NEW i \in 1..m, (i + 1)..m \subseteq S PROVE i \in S
  <2>1. CASE i = m  BY <1>1, <1>3, <2>1
  <2>2. CASE i # m
    <3>1. i + 1 \in (i + 1)..m /\ i + 1 \in 1..m /\ i \in 1..(m - 1)  BY <1>1, <2>2
    <3>2. s[i + 1] = L[s[i]] + 1  BY <1>3, <3>1
    <3>3. L[s[i + 1]] <= e /\ L[s[i + 1]] \in s[i + 1]..Len(t)  BY <1>2, <1>4, <3>1
    <3>4. s[i + 1] \in Nat /\ L[s[i]] \in Nat /\ Len(t) \in Nat  BY <1>1, <1>2, <3>1
    <3>5. QED  BY <3>2, <3>3, <3>4
  <2>3. QED  BY <2>1, <2>2
<1>5. 1..m \subseteq S
  <2> HIDE DEF S, m
  <2>1. QED  BY <1>1, <1>4, BackwardInduction
<1>6. QED  BY <1>1, <1>2, <1>5 DEF L

\* Without its first tree a forest begins behind it.
LEMMA ForestRest ==
  ASSUME NEW t, IsAST(t), NEW e \in Nat, NEW s, IsForest(t, s, e), s # <<>>
  PROVE  /\ Head(s) = First(s, e) /\ Head(s) \in 1..Len(t)
         /\ Head(s) <= LastOf(t)[Head(s)] /\ LastOf(t)[Head(s)] <= e
         /\ IsForest(t, Tail(s), e) /\ First(Tail(s), e) = LastOf(t)[Head(s)] + 1
<1>1. s \in Seq(1..Len(t)) /\ Len(s) \in Nat \ {0}  BY EmptySeq DEF IsForest
<1>2. Head(s) = s[1] /\ 1 \in 1..Len(s)  BY <1>1
<1>3. s[1] \in 1..Len(t) /\ s[1] <= LastOf(t)[s[1]] /\ LastOf(t)[s[1]] <= e
  BY <1>2, ForestEnds
<1>4. /\ Tail(s) \in Seq(1..Len(t)) /\ Len(Tail(s)) = Len(s) - 1
      /\ \A i \in 1..Len(Tail(s)) : Tail(s)[i] = s[i + 1]
  BY <1>1, HeadTailProperties
<1> DEFINE r == Tail(s)
           L == LastOf(t)
<1>5. \A k \in 1..(Len(s) - 1) : s[k + 1] = L[s[k]] + 1  BY DEF IsForest
<1>6. L[s[Len(s)]] = e  BY DEF IsForest
<1>7. r = <<>> <=> Len(r) = 0  BY <1>4, EmptySeq
<1> HIDE DEF r, L
<1>8. r \in Seq(1..Len(t)) /\ Len(r) = Len(s) - 1 /\ \A i \in 1..Len(r) : r[i] = s[i + 1]
  BY <1>4 DEF r
<1>9. \A k \in 1..(Len(r) - 1) : r[k + 1] = L[r[k]] + 1
  <2> SUFFICES ASSUME NEW k \in 1..(Len(r) - 1) PROVE r[k + 1] = L[r[k]] + 1  OBVIOUS
  <2>1. k \in 1..Len(r) /\ k + 1 \in 1..Len(r) /\ k + 1 \in 1..(Len(s) - 1)  BY <1>1, <1>8
  <2>2. r[k] = s[k + 1] /\ r[k + 1] = s[(k + 1) + 1]  BY <1>8, <2>1
  <2>3. QED  BY <1>5, <2>1, <2>2
<1>10. r # <<>> => L[r[Len(r)]] = e
  <2>1. r # <<>> => Len(r) \in 1..Len(r) /\ Len(r) + 1 = Len(s)  BY <1>1, <1>7, <1>8
  <2>2. QED  BY <1>6, <1>8, <2>1
<1>11. IsForest(t, r, e)  BY <1>8, <1>9, <1>10 DEF IsForest, L
<1>12. First(r, e) = L[s[1]] + 1
  <2>1. CASE r = <<>>
    <3>1. Len(s) = 1  BY <1>1, <1>7, <1>8, <2>1
    <3>2. QED  BY <1>6, <2>1, <3>1 DEF First
  <2>2. CASE r # <<>>
    <3>1. 1 \in 1..Len(r) /\ 1 \in 1..(Len(s) - 1)  BY <1>1, <1>7, <1>8, <2>2
    <3>2. r[1] = s[1 + 1]  BY <1>8, <3>1
    <3>3. s[1 + 1] = L[s[1]] + 1  BY <1>5, <3>1
    <3>4. QED  BY <2>2, <3>2, <3>3 DEF First
  <2>3. QED  BY <2>1, <2>2
<1>13. First(s, e) = s[1]  BY DEF First
<1>14. QED  BY <1>2, <1>3, <1>11, <1>12, <1>13 DEF r, L

\* A forest up to where another one begins makes one forest with it.
LEMMA ForestJoin ==
  ASSUME NEW t, IsAST(t), NEW d \in Nat, NEW e \in Nat, NEW a, NEW b,
         IsForest(t, a, d), IsForest(t, b, e), First(b, e) = d + 1
  PROVE  IsForest(t, a \o b, e) /\ First(a \o b, e) = First(a, d)
<1> DEFINE L == LastOf(t)
           q == a \o b
<1>1. a \in Seq(1..Len(t)) /\ b \in Seq(1..Len(t))  BY DEF IsForest
<1>2. /\ Len(a) \in Nat /\ Len(b) \in Nat
      /\ (a = <<>> <=> Len(a) = 0) /\ (b = <<>> <=> Len(b) = 0)
  BY <1>1, EmptySeq
<1>3. /\ q \in Seq(1..Len(t)) /\ Len(q) = Len(a) + Len(b)
      /\ \A i \in 1..(Len(a) + Len(b)) : q[i] = IF i <= Len(a) THEN a[i] ELSE b[i - Len(a)]
  BY <1>1, ConcatProperties
<1>4. /\ \A k \in 1..(Len(a) - 1) : a[k + 1] = L[a[k]] + 1
      /\ \A k \in 1..(Len(b) - 1) : b[k + 1] = L[b[k]] + 1
      /\ (a # <<>> => L[a[Len(a)]] = d) /\ (b # <<>> => L[b[Len(b)]] = e)
  BY DEF IsForest
<1>5. q = <<>> <=> Len(q) = 0  BY <1>3, EmptySeq
<1>6. (b = <<>> => e = d) /\ (b # <<>> => b[1] = d + 1)  BY DEF First
<1> HIDE DEF L, q
<1>7. \A k \in 1..(Len(q) - 1) : q[k + 1] = L[q[k]] + 1
  <2> SUFFICES ASSUME NEW k \in 1..(Len(q) - 1) PROVE q[k + 1] = L[q[k]] + 1  OBVIOUS
  <2>1. CASE k < Len(a)
    <3>1. q[k] = a[k] /\ q[k + 1] = a[k + 1] /\ k \in 1..(Len(a) - 1)  BY <1>2, <1>3, <2>1
    <3>2. QED  BY <1>4, <3>1
  <2>2. CASE k = Len(a)
    <3>1. Len(a) # 0 /\ Len(b) # 0  BY <1>2, <1>3, <2>2
    <3>2. ~(k + 1 <= Len(a)) /\ k <= Len(a) /\ (k + 1) - Len(a) = 1
          /\ k \in 1..(Len(a) + Len(b)) /\ k + 1 \in 1..(Len(a) + Len(b))
      BY <1>2, <1>3, <2>2
    <3>3. q[k] = a[k] /\ q[k + 1] = b[1]  BY <1>3, <3>2
    <3>4. a # <<>> /\ b # <<>>  BY <1>2, <3>1
    <3>5. QED  BY <1>4, <1>6, <2>2, <3>3, <3>4
  <2>3. CASE k > Len(a)
    <3>1. /\ q[k] = b[k - Len(a)] /\ q[k + 1] = b[(k - Len(a)) + 1]
          /\ k - Len(a) \in 1..(Len(b) - 1)
      BY <1>2, <1>3, <2>3
    <3>2. QED  BY <1>4, <3>1
  <2>4. QED  BY <1>2, <1>3, <2>1, <2>2, <2>3
<1>8. q # <<>> => L[q[Len(q)]] = e
  <2>1. CASE b = <<>>  BY <1>2, <1>3, <1>4, <1>5, <1>6, <2>1
  <2>2. CASE b # <<>>
    <3>1. q[Len(q)] = b[Len(b)]  BY <1>2, <1>3, <2>2
    <3>2. QED  BY <1>4, <2>2, <3>1
  <2>3. QED  BY <2>1, <2>2
<1>9. IsForest(t, q, e)  BY <1>3, <1>7, <1>8 DEF IsForest, L
<1>10. First(q, e) = First(a, d)
  <2>1. CASE a = <<>>
    <3>1. First(a, d) = d + 1  BY <2>1 DEF First
    <3>2. CASE b = <<>>  BY <1>2, <1>3, <1>5, <1>6, <2>1, <3>1, <3>2 DEF First
    <3>3. CASE b # <<>>
      <4>1. q # <<>> /\ q[1] = b[1]  BY <1>2, <1>3, <1>5, <2>1, <3>3
      <4>2. QED  BY <1>6, <3>1, <3>3, <4>1 DEF First
    <3>4. QED  BY <3>2, <3>3
  <2>2. CASE a # <<>>
    <3>1. q # <<>> /\ q[1] = a[1]  BY <1>2, <1>3, <1>5, <2>2
    <3>2. QED  BY <2>2, <3>1 DEF First
  <2>3. QED  BY <2>1, <2>2
<1>11. QED  BY <1>9, <1>10 DEF q

\* The children of a node are a forest from behind it to the last node under it.
LEMMA KidsForest ==
  ASSUME NEW t, IsAST(t), NEW n \in 1..Len(t)
  PROVE  IsForest(t, t[n].kids, LastOf(t)[n]) /\ First(t[n].kids, LastOf(t)[n]) = n + 1
<1> DEFINE L == LastOf(t)
           kids == t[n].kids
<1>1. /\ kids \in Seq(Nat) /\ Len(kids) \in Nat /\ (kids = <<>> <=> Len(kids) = 0)
      /\ \A j \in 1..Len(kids) : kids[j] \in (n + 1)..Len(t)
  BY TreeIs
<1>2. \A j \in 1..Len(kids) : kids[j] = IF j = 1 THEN n + 1 ELSE L[kids[j - 1]] + 1
  BY KidsTile
<1>3. (kids = <<>> => L[n] = n) /\ (kids # <<>> => L[n] = L[kids[Len(kids)]])  BY LastIs
<1> HIDE DEF L, kids
<1>4. kids \in Seq(1..Len(t))
  <2>1. kids = [j \in 1..Len(kids) |-> kids[j]]  BY <1>1
  <2>2. \A j \in 1..Len(kids) : kids[j] \in 1..Len(t)  BY <1>1
  <2>3. QED  BY <1>1, <2>1, <2>2, IsASeq
<1>5. \A k \in 1..(Len(kids) - 1) : kids[k + 1] = L[kids[k]] + 1
  <2> SUFFICES ASSUME NEW k \in 1..(Len(kids) - 1) PROVE kids[k + 1] = L[kids[k]] + 1  OBVIOUS
  <2>1. k + 1 \in 1..Len(kids) /\ k + 1 # 1 /\ (k + 1) - 1 = k  BY <1>1
  <2>2. QED  BY <1>2, <2>1
<1>6. IsForest(t, kids, L[n])  BY <1>3, <1>4, <1>5 DEF IsForest, L
<1>7. First(kids, L[n]) = n + 1
  <2>1. CASE kids = <<>>  BY <1>3, <2>1 DEF First
  <2>2. CASE kids # <<>>
    <3>1. 1 \in 1..Len(kids)  BY <1>1, <2>2
    <3>2. QED  BY <1>2, <2>2, <3>1 DEF First
  <2>3. QED  BY <2>1, <2>2
<1>8. QED  BY <1>6, <1>7 DEF L, kids

\* With the children of its first tree in its place a forest begins behind the root.
LEMMA ForestVisit ==
  ASSUME NEW t, IsAST(t), NEW e \in Nat, NEW s, IsForest(t, s, e), s # <<>>
  PROVE  /\ IsForest(t, t[Head(s)].kids \o Tail(s), e)
         /\ First(t[Head(s)].kids \o Tail(s), e) = Head(s) + 1
<1> DEFINE n == Head(s)
<1>1. /\ n \in 1..Len(t) /\ n <= LastOf(t)[n] /\ LastOf(t)[n] <= e
      /\ IsForest(t, Tail(s), e) /\ First(Tail(s), e) = LastOf(t)[n] + 1
  BY ForestRest
<1> HIDE DEF n
<1>2. LastOf(t)[n] \in Nat  BY <1>1, LastIs, TreeIs
<1>3. IsForest(t, t[n].kids, LastOf(t)[n]) /\ First(t[n].kids, LastOf(t)[n]) = n + 1
  BY <1>1, KidsForest
<1>4. QED  BY <1>1, <1>2, <1>3, ForestJoin DEF n

-----------------------------------------------------------------------------
\* What the finder has found before a place: the last definition, if there is one.
FoundBefore(p) ==
    /\ found = 0 \/ (found \in Definitions /\ found < p)
    /\ \A d \in Definitions : d < p => d <= found

\* The finder has the rest of the tree before it.
FinderInv ==
    /\ ast \in Trees
    /\ stage = "finding" => /\ IsForest(ast, todo, Len(ast))
                            /\ FoundBefore(First(todo, Len(ast)))
    /\ FoundIsLastDefinition

LEMMA AstIs ==
  ASSUME ast \in Trees
  PROVE  /\ IsAST(ast) /\ Len(ast) \in Nat /\ DOMAIN ast = 1..Len(ast)
         /\ Definitions \subseteq 1..Len(ast)
<1>1. IsAST(ast)  BY TreesAssumption DEF IsAST
<1>2. QED  BY <1>1, TreeIs DEF Definitions

LEMMA FinderInit == Init => FinderInv
BY DEF Init, FinderInv, FoundIsLastDefinition

\* A traversal begins with the root, before which there is nothing.
LEMMA AsksStep ==
  ASSUME FinderInv, NEW name, NEW usage, NEW list, Asks(name, usage, list)
  PROVE  FinderInv'
<1> USE DEF Asks
<1>1. ast \in Trees /\ ast' = ast  BY DEF FinderInv
<1>2. IsAST(ast) /\ Len(ast) \in Nat  BY <1>1, AstIs
<1>3. 1 \in 1..Len(ast) /\ LastOf(ast)[1] = Len(ast)  BY <1>2, TreeIs DEF IsAST, IsTree
<1>4. IsForest(ast, <<1>>, Len(ast)) /\ First(<<1>>, Len(ast)) = 1  BY <1>2, <1>3, OneTree
<1>5. Definitions' \subseteq 1..Len(ast)  BY <1>1, AstIs DEF Definitions
<1>6. \A d \in Definitions' : ~(d < 1)  BY <1>2, <1>5
<1>7. FoundBefore(1)'  BY <1>6 DEF FoundBefore
<1>8. stage' = "finding" /\ todo' = <<1>> /\ symbols' = call'.before  OBVIOUS
<1>9. FoundIsLastDefinition'  BY <1>8 DEF FoundIsLastDefinition
<1>10. IsForest(ast', todo', Len(ast')) /\ First(todo', Len(ast')) = 1  BY <1>1, <1>4, <1>8
<1>11. FoundBefore(First(todo, Len(ast)))'  BY <1>7, <1>10 DEF FoundBefore
<1>12. QED  BY <1>1, <1>9, <1>10, <1>11 DEF FinderInv

\* A definition that matches is the last one so far, and there is none in it; any
\* other node is not one that is asked for.
LEMMA VisitFinderStep == ASSUME FinderInv, VisitFinder PROVE FinderInv'
<1> DEFINE N == Len(ast)
           n == Head(todo)
<1>1. /\ ast \in Trees /\ ast' = ast /\ call' = call /\ symbols' = symbols
      /\ stage = "finding" /\ stage' = "finding" /\ todo # <<>>
  BY DEF FinderInv, VisitFinder
<1>2. IsAST(ast) /\ N \in Nat /\ Definitions \subseteq 1..N /\ DOMAIN ast = 1..N  BY <1>1, AstIs
<1>3. IsForest(ast, todo, N) /\ FoundBefore(First(todo, N))  BY <1>1 DEF FinderInv
<1>4. Definitions' = Definitions  BY <1>1 DEF Definitions
<1>5. FoundIsLastDefinition'
  <2>1. symbols = call.before  BY <1>1 DEF FinderInv, FoundIsLastDefinition
  <2>2. QED  BY <1>1, <2>1 DEF FoundIsLastDefinition
<1>6. /\ n = First(todo, N) /\ n \in 1..N /\ LastOf(ast)[n] \in n..N
      /\ IsForest(ast, Tail(todo), N) /\ First(Tail(todo), N) = LastOf(ast)[n] + 1
  BY <1>1, <1>2, <1>3, ForestRest, LastIs
<1>7. /\ found = 0 \/ (found \in Definitions /\ found < n)
      /\ \A d \in Definitions : d < n => d <= found
  BY <1>3, <1>6 DEF FoundBefore
<1>8. CASE IsFunction(ast[n]) /\ Matches(n)
  <2>1. found' = n /\ todo' = Tail(todo)  BY <1>8 DEF VisitFinder
  <2>2. n \in Definitions  BY <1>2, <1>6, <1>8 DEF Definitions, Matches
  <2>3. \A m \in (n + 1)..LastOf(ast)[n] : m \notin Definitions
    <3>1. \A m \in Under(ast, n) \ {n} : ~IsFunction(ast[m])
      BY <1>2, <1>6, <1>8 DEF IsAST, IsSyntax
    <3>2. \A m \in (n + 1)..LastOf(ast)[n] : m \in Under(ast, n) \ {n}
      BY <1>6 DEF Under
    <3>3. QED  BY <3>1, <3>2 DEF Definitions
  <2>4. ASSUME NEW d \in Definitions, d < LastOf(ast)[n] + 1 PROVE d <= n
    <3>1. d \notin (n + 1)..LastOf(ast)[n] /\ d \in 1..N  BY <1>2, <2>3
    <3>2. QED  BY <1>2, <1>6, <2>4, <3>1
  <2>5. n < LastOf(ast)[n] + 1  BY <1>6
  <2>6. First(todo', N) = LastOf(ast)[n] + 1 /\ IsForest(ast, todo', N)  BY <1>6, <2>1
  <2>7. FoundBefore(First(todo, Len(ast)))'
    BY <1>1, <1>4, <2>1, <2>2, <2>4, <2>5, <2>6 DEF FoundBefore
  <2>8. QED  BY <1>1, <1>5, <2>6, <2>7 DEF FinderInv
<1>9. CASE ~(IsFunction(ast[n]) /\ Matches(n))
  <2>1. found' = found /\ todo' = ast[n].kids \o Tail(todo)  BY <1>9 DEF VisitFinder
  <2>2. n \notin Definitions  BY <1>9 DEF Definitions, Matches
  <2>3. IsForest(ast, todo', N) /\ First(todo', N) = n + 1
    BY <1>1, <1>2, <1>3, <2>1, ForestVisit
  <2>4. ASSUME NEW d \in Definitions, d < n + 1 PROVE d <= found
    <3>1. d # n /\ d \in 1..N  BY <1>2, <2>2
    <3>2. d < n  BY <1>2, <1>6, <2>4, <3>1
    <3>3. QED  BY <1>7, <3>2
  <2>5. found = 0 \/ (found \in Definitions /\ found < n + 1)
    <3> HIDE DEF n, N
    <3>1. ASSUME found \in Definitions, found < n PROVE found < n + 1
      <4>1. found \in Nat /\ n \in Nat  BY <1>2, <1>6, <3>1
      <4>2. QED  BY <3>1, <4>1
    <3>2. QED  BY <1>7, <3>1
  <2>6. FoundBefore(First(todo, Len(ast)))'
    BY <1>1, <1>4, <2>1, <2>3, <2>4, <2>5 DEF FoundBefore
  <2>7. QED  BY <1>1, <1>5, <2>3, <2>6 DEF FinderInv
<1>10. QED  BY <1>8, <1>9

\* Where the finder has nothing left it has seen the whole tree.
LEMMA FinderEnds ==
  ASSUME FinderInv, stage = "finding", todo = <<>>
  PROVE  /\ IF Definitions = {} THEN found = 0
            ELSE found \in Definitions /\ \A n \in Definitions : n <= found
         /\ found # 0 => found \in Definitions
<1>1. ast \in Trees /\ FoundBefore(First(todo, Len(ast)))  BY DEF FinderInv
<1>2. Len(ast) \in Nat /\ Definitions \subseteq 1..Len(ast)  BY <1>1, AstIs
<1>3. First(todo, Len(ast)) = Len(ast) + 1  BY DEF First
<1>4. \A d \in Definitions : d < Len(ast) + 1 /\ d # 0  BY <1>2
<1>5. /\ found = 0 \/ found \in Definitions
      /\ \A d \in Definitions : d <= found
  BY <1>1, <1>3, <1>4 DEF FoundBefore
<1>6. found = 0 => Definitions = {}
  <2> SUFFICES ASSUME found = 0, NEW d \in Definitions PROVE FALSE  OBVIOUS
  <2>1. d <= 0 /\ d \in 1..Len(ast)  BY <1>2, <1>5
  <2>2. QED  BY <1>2, <2>1
<1>7. QED  BY <1>5, <1>6

LEMMA FinderStep == FinderInv /\ [Next]_vars => FinderInv'
<1> SUFFICES ASSUME FinderInv, [Next]_vars PROVE FinderInv'  OBVIOUS
<1>1. ASSUME NEW name \in Asked, GetFunctionByName(name) \/ FindSymbolsUsage(name)
      PROVE  FinderInv'
  BY <1>1, AsksStep DEF GetFunctionByName, FindSymbolsUsage
<1>2. CASE VisitFinder  BY <1>2, VisitFinderStep
<1>3. CASE FoundFunction \/ StartTracer
  <2>1. /\ stage = "finding" /\ todo = <<>> /\ ast' = ast /\ call' = call
        /\ found' = found /\ symbols' = symbols
        /\ stage' \in {"tracing", "done", "crashed"} /\ (stage' = "crashed" => found = 0)
    BY <1>3 DEF FoundFunction, StartTracer
  <2>2. Definitions' = Definitions  BY <2>1 DEF Definitions
  <2>3. ast \in Trees /\ symbols = call.before
    BY <2>1 DEF FinderInv, FoundIsLastDefinition
  <2>4. /\ IF Definitions = {} THEN found = 0
           ELSE found \in Definitions /\ \A n \in Definitions : n <= found
        /\ found = 0 => Definitions = {}
    <3>1. 0 \notin Definitions  BY <2>3, AstIs
    <3>2. QED  BY <2>1, <3>1, FinderEnds
  <2>5. FoundIsLastDefinition'  BY <2>1, <2>2, <2>3, <2>4 DEF FoundIsLastDefinition
  <2>6. QED  BY <2>1, <2>3, <2>5 DEF FinderInv
<1>4. CASE VisitAssignment \/ VisitCall \/ VisitOther \/ TracedAll
  <2>1. /\ stage = "tracing" /\ stage' \in {"tracing", "done"}
        /\ ast' = ast /\ call' = call /\ found' = found
    BY <1>4 DEF VisitAssignment, VisitCall, VisitOther, TracedAll
  <2>2. Definitions' = Definitions  BY <2>1 DEF Definitions
  <2>3. QED  BY <2>1, <2>2 DEF FinderInv, FoundIsLastDefinition
<1>5. CASE UNCHANGED vars
  <2>1. /\ ast' = ast /\ call' = call /\ stage' = stage /\ todo' = todo /\ found' = found
        /\ symbols' = symbols
    BY <1>5 DEF vars
  <2>2. Definitions' = Definitions  BY <2>1 DEF Definitions
  <2>3. QED  BY <2>1, <2>2 DEF FinderInv, FoundIsLastDefinition, FoundBefore
<1>6. QED  BY <1>1, <1>2, <1>3, <1>4, <1>5 DEF Next

\* ShaderInfo.cpp:23-39,243: of the definitions of a name the last one is found, a
\* caller's list is as it was until there is one, and the process ends where there
\* is none.
THEOREM LastDefinitionAlwaysFound == Spec => []FoundIsLastDefinition
<1>1. FinderInv => FoundIsLastDefinition  BY DEF FinderInv
<1>2. QED  BY <1>1, FinderInit, FinderStep, PTL DEF Spec

-----------------------------------------------------------------------------
\* The left operand of an index or an assignment is the next node.
LEMMA LeftOperand ==
  ASSUME NEW t, IsAST(t), NEW n \in 1..Len(t), IsIndex(t[n]) \/ IsAssignment(t[n])
  PROVE  t[n].kids[1] = n + 1 /\ n + 1 \in 1..Len(t)
<1>1. Len(t[n].kids) = 2  BY TreeIs DEF IsAST, IsSyntax, IsIndex, IsAssignment
<1>2. 1 \in 1..Len(t[n].kids)  BY <1>1
<1>3. t[n].kids[1] \in (n + 1)..Len(t) /\ t[n].kids[1] = n + 1  BY <1>2, KidsTile
<1>4. QED  BY <1>3, TreeIs

\* The left end of an index is that of its left operand, any other node is its own.
LEMMA LeftEndIs ==
  ASSUME NEW t, IsAST(t)
  PROVE  \A n \in 1..Len(t) :
             /\ LeftEnd(t, n) \in n..Len(t) /\ ~IsIndex(t[LeftEnd(t, n)])
             /\ ~IsIndex(t[n]) => LeftEnd(t, n) = n
             /\ IsIndex(t[n]) => LeftEnd(t, n) = LeftEnd(t, n + 1)
<1> DEFINE N == Len(t)
           IsEnd(n, e) == ~IsIndex(t[e]) /\ \A m \in n..(e - 1) : IsIndex(t[m])
           S == {n \in 1..N : \E e \in n..N : IsEnd(n, e)}
<1>1. N \in Nat  BY TreeIs
<1>2. \A n \in 1..N : IsIndex(t[n]) => n + 1 \in 1..N  BY LeftOperand
<1>3. ASSUME NEW n \in 1..N, (n + 1)..N \subseteq S PROVE n \in S
  <2>1. CASE ~IsIndex(t[n])
    <3>1. IsEnd(n, n) /\ n \in n..N  BY <2>1
    <3>2. QED  BY <3>1
  <2>2. CASE IsIndex(t[n])
    <3>1. n + 1 \in S  BY <1>1, <1>2, <1>3, <2>2
    <3>2. PICK e \in (n + 1)..N : IsEnd(n + 1, e)  BY <3>1
    <3>3. \A m \in n..(e - 1) : m = n \/ m \in (n + 1)..(e - 1)  OBVIOUS
    <3>4. IsEnd(n, e) /\ e \in n..N  BY <2>2, <3>2, <3>3
    <3>5. QED  BY <3>4
  <2>3. QED  BY <2>1, <2>2
<1>4. 1..N \subseteq S
  <2> HIDE DEF S, N
  <2>1. QED  BY <1>1, <1>3, BackwardInduction
<1>5. ASSUME NEW n \in 1..N PROVE LeftEnd(t, n) \in n..N /\ IsEnd(n, LeftEnd(t, n))
  <2>1. \E e \in n..N : IsEnd(n, e)  BY <1>4
  <2>2. LeftEnd(t, n) = CHOOSE e \in n..N : IsEnd(n, e)  BY Zenon DEF LeftEnd
  <2> HIDE DEF IsEnd
  <2>3. QED  BY <2>1, <2>2
<1>6. ASSUME NEW n \in 1..N, NEW d \in n..N, NEW e \in n..N, IsEnd(n, d), IsEnd(n, e) PROVE d = e
  <2>1. ~(d < e)
    <3>1. d < e => d \in n..(e - 1)  OBVIOUS
    <3>2. QED  BY <1>6, <3>1
  <2>2. ~(e < d)
    <3>1. e < d => e \in n..(d - 1)  OBVIOUS
    <3>2. QED  BY <1>6, <3>1
  <2>3. QED  BY <2>1, <2>2
<1>7. ASSUME NEW n \in 1..N, ~IsIndex(t[n]) PROVE LeftEnd(t, n) = n
  <2>1. IsEnd(n, n) /\ n \in n..N  BY <1>7
  <2> HIDE DEF IsEnd
  <2>2. QED  BY <1>5, <1>6, <2>1
<1>8. ASSUME NEW n \in 1..N, IsIndex(t[n]) PROVE LeftEnd(t, n) = LeftEnd(t, n + 1)
  <2> DEFINE e == LeftEnd(t, n + 1)
  <2>1. n + 1 \in 1..N  BY <1>2, <1>8
  <2>2. e \in (n + 1)..N /\ IsEnd(n + 1, e)  BY <1>5, <2>1
  <2> HIDE DEF e
  <2>3. \A m \in n..(e - 1) : m = n \/ m \in (n + 1)..(e - 1)  BY <2>2
  <2>4. IsEnd(n, e) /\ e \in n..N  BY <1>1, <1>8, <2>2, <2>3
  <2> HIDE DEF IsEnd
  <2>5. QED  BY <1>5, <1>6, <2>4 DEF e
<1>9. QED  BY <1>5, <1>7, <1>8

\* The accesses in a tree, those of indices and those of calls.
AccessesIn(t) == {AccessOf(t[n]) : n \in 1..Len(t)}
                 \cup {<<"call", t[n].name, j - 1>> : n \in 1..Len(t), j \in Nat}

\* The accesses from the left end up to an index are those up to its left operand
\* and its own.
LEMMA AccessesAre ==
  ASSUME NEW t, IsAST(t), NEW n \in 1..Len(t)
  PROVE  /\ AccessesOf(t, n) \in Seq(AccessesIn(t))
         /\ ~IsIndex(t[n]) => AccessesOf(t, n) = <<>>
         /\ IsIndex(t[n]) =>
               AccessesOf(t, n) = Append(AccessesOf(t, n + 1), AccessOf(t[n]))
<1> DEFINE e == LeftEnd(t, n)
           A == AccessesIn(t)
<1>1. /\ e \in n..Len(t) /\ (~IsIndex(t[n]) => e = n)
      /\ IsIndex(t[n]) => e = LeftEnd(t, n + 1) /\ n + 1 \in 1..Len(t) /\ e \in (n + 1)..Len(t)
  BY LeftEndIs, LeftOperand
<1>2. AccessesOf(t, n) = [k \in 1..(e - n) |-> AccessOf(t[e - k])]  BY DEF AccessesOf
<1>3. IsIndex(t[n]) =>
          AccessesOf(t, n + 1) = [k \in 1..(e - (n + 1)) |-> AccessOf(t[e - k])]
  BY <1>1 DEF AccessesOf
<1> HIDE DEF e
<1>4. Len(t) \in Nat  BY TreeIs
<1>5. \A k \in 1..(e - n) : AccessOf(t[e - k]) \in A
  <2> SUFFICES ASSUME NEW k \in 1..(e - n) PROVE AccessOf(t[e - k]) \in A  OBVIOUS
  <2>1. e - k \in 1..Len(t)  BY <1>1, <1>4
  <2>2. QED  BY <2>1 DEF AccessesIn
<1> HIDE DEF A
<1>6. AccessesOf(t, n) \in Seq(A)
  <2>1. e - n \in Nat  BY <1>1, <1>4
  <2>2. QED  BY <1>2, <1>5, <2>1, IsASeq
<1>7. ASSUME ~IsIndex(t[n]) PROVE AccessesOf(t, n) = <<>>
  <2>1. e - n = 0  BY <1>1, <1>4, <1>7
  <2>2. Len(AccessesOf(t, n)) = 0  BY <1>2, <2>1
  <2>3. QED  BY <1>6, <2>2, EmptySeq
<1>8. ASSUME IsIndex(t[n])
      PROVE  AccessesOf(t, n) = Append(AccessesOf(t, n + 1), AccessOf(t[n]))
  <2> DEFINE m == e - (n + 1)
             acc(k) == AccessOf(t[e - k])
             a == [k \in 1..m |-> acc(k)]
             b == [k \in 1..(m + 1) |-> acc(k)]
  <2>1. m \in Nat /\ m + 1 = e - n /\ e - (m + 1) = n  BY <1>1, <1>4, <1>8
  <2>2. AccessesOf(t, n) = b /\ AccessesOf(t, n + 1) = a  BY <1>2, <1>3, <1>8, <2>1
  <2>3. \A k \in 1..(m + 1) : acc(k) \in A  BY <1>5, <2>1
  <2>4. acc(m + 1) = AccessOf(t[n])  BY <2>1
  <2> HIDE DEF acc, m
  <2>5. a \in Seq(A) /\ b \in Seq(A)
    <3>1. m + 1 \in Nat /\ \A k \in 1..m : k \in 1..(m + 1)  BY <2>1
    <3>2. \A k \in 1..m : acc(k) \in A  BY <2>3, <3>1
    <3>3. a \in Seq(A)  BY <2>1, <3>2, IsASeq
    <3>4. b \in Seq(A)  BY <2>3, <3>1, IsASeq
    <3>5. QED  BY <3>3, <3>4
  <2>6. Len(a) = m /\ Len(b) = m + 1  BY <2>1
  <2>7. m + 1 \in 1..(m + 1)  BY <2>1
  <2>8. acc(m + 1) \in A  BY <2>3, <2>7
  <2>9. /\ Append(a, acc(m + 1)) \in Seq(A) /\ Len(Append(a, acc(m + 1))) = m + 1
        /\ \A k \in 1..(m + 1) : Append(a, acc(m + 1))[k] = IF k <= m THEN a[k] ELSE acc(m + 1)
    <3> HIDE DEF a
    <3>1. QED  BY <2>1, <2>5, <2>6, <2>8, AppendProperties
  <2>10. \A k \in 1..(m + 1) : b[k] = Append(a, acc(m + 1))[k]
    <3> SUFFICES ASSUME NEW k \in 1..(m + 1) PROVE b[k] = Append(a, acc(m + 1))[k]  OBVIOUS
    <3>1. k <= m \/ k = m + 1  BY <2>1
    <3>2. k <= m => a[k] = acc(k)  BY <2>1
    <3>3. QED  BY <2>1, <2>9, <3>1, <3>2
  <2> HIDE DEF a, b
  <2>11. b = Append(a, acc(m + 1))  BY <2>5, <2>6, <2>9, <2>10, SeqEqual
  <2>12. QED  BY <2>2, <2>4, <2>11
<1>9. QED  BY <1>6, <1>7, <1>8 DEF A

\* findLValueBase, unfolded.
LEMMA LValueUnfold ==
  ASSUME ast \in Trees
  PROVE  \A n \in 1..Len(ast) :
             findLValueBase[n] =
                 IF ast[n].kind = "symbol" THEN [base |-> n, accesses |-> <<>>]
                 ELSE IF IsIndex(ast[n])
                 THEN [findLValueBase[ast[n].kids[1]] EXCEPT
                           !.accesses = Accessed(@, AccessOf(ast[n]))]
                 ELSE [base |-> 0, accesses |-> <<>>]
<1> DEFINE N == Len(ast)
           A == {AccessOf(ast[n]) : n \in 1..N}
           V == [base : 0..N, accesses : Seq(A)]
           symbol(n) == ast[n].kind = "symbol"
           more(n) == ~symbol(n) /\ IsIndex(ast[n])
           next == [n \in 1..N |-> IF more(n) THEN ast[n].kids[1] ELSE 0]
           base == [n \in 1..N |-> [base |-> IF symbol(n) THEN n ELSE 0, accesses |-> <<>>]]
           with(v, n) == [v EXCEPT !.accesses = Accessed(@, AccessOf(ast[n]))]
           step == [n \in 1..N |-> [v \in V |-> with(v, n)]]
           value(f, n) == IF ast[n].kind = "symbol" THEN [base |-> n, accesses |-> <<>>]
                          ELSE IF IsIndex(ast[n]) THEN with(f[ast[n].kids[1]], n)
                          ELSE [base |-> 0, accesses |-> <<>>]
           IsBase(f) == f = [n \in DOMAIN ast |-> value(f, n)]
<1>1. IsAST(ast) /\ N \in Nat /\ DOMAIN ast = 1..N  BY AstIs
<1>2. \A n \in 1..N : IsIndex(ast[n]) => ast[n].kids[1] \in (n + 1)..N
  <2> SUFFICES ASSUME NEW n \in 1..N, IsIndex(ast[n]) PROVE ast[n].kids[1] \in (n + 1)..N
    OBVIOUS
  <2>1. ast[n].kids[1] = n + 1 /\ n + 1 \in 1..N  BY <1>1, LeftOperand
  <2>2. QED  BY <1>1, <2>1
<1>3. next \in [1..N -> 0..N] /\ \A n \in 1..N : next[n] = 0 \/ n < next[n]
  BY <1>1, <1>2
<1>4. base \in [1..N -> V]
  <2>1. <<>> \in Seq(A)  BY EmptySeq
  <2> HIDE DEF A
  <2>2. QED  BY <1>1, <2>1
<1>5. \A n \in 1..N : \A v \in V : with(v, n) \in V
  <2> SUFFICES ASSUME NEW n \in 1..N, NEW v \in V PROVE with(v, n) \in V  OBVIOUS
  <2>1. AccessOf(ast[n]) \in A  OBVIOUS
  <2> HIDE DEF A
  <2>2. Append(v.accesses, AccessOf(ast[n])) \in Seq(A)  BY <2>1, AppendProperties
  <2>3. QED  BY <2>2 DEF Accessed
<1>6. step \in [1..N -> [V -> V]]
  <2> HIDE DEF with, V
  <2>1. QED  BY <1>5
<1>7. PICK f : SolvesBackwards(f, N, V, next, base, step)
  <2> HIDE DEF N, V, next, base, step
  <2>1. QED  BY <1>1, <1>3, <1>4, <1>6, BackwardRecursionExists
<1>8. /\ f \in [1..N -> V]
      /\ \A n \in 1..N : f[n] = IF next[n] = 0 THEN base[n] ELSE step[n][f[next[n]]]
  BY <1>7 DEF SolvesBackwards
<1>9. ASSUME NEW n \in 1..N PROVE f[n] = value(f, n)
  <2>1. CASE ~more(n)
    <3>1. f[n] = base[n]  BY <1>8, <2>1
    <3>2. CASE symbol(n)  BY <3>1, <3>2
    <3>3. CASE ~symbol(n)  BY <2>1, <3>1, <3>3
    <3>4. QED  BY <3>2, <3>3
  <2>2. CASE more(n)
    <3>1. next[n] = ast[n].kids[1] /\ next[n] # 0 /\ next[n] \in 1..N  BY <1>1, <1>2, <2>2
    <3> HIDE DEF next, V, with
    <3>2. f[next[n]] \in V  BY <1>8, <3>1
    <3>3. step[n][f[next[n]]] = with(f[next[n]], n)  BY <3>2
    <3>4. f[n] = with(f[ast[n].kids[1]], n)  BY <1>8, <3>1, <3>3
    <3>5. QED  BY <2>2, <3>4
  <2>3. QED  BY <2>1, <2>2
<1>10. IsBase(f)
  <2>1. f = [n \in 1..N |-> f[n]]  BY <1>8
  <2> HIDE DEF value
  <2>2. QED  BY <1>1, <1>9, <2>1
<1>11. findLValueBase = CHOOSE g : IsBase(g)  BY Zenon DEF findLValueBase
<1>12. IsBase(findLValueBase)
  <2> HIDE DEF IsBase
  <2>1. QED  BY <1>10, <1>11
<1> DEFINE B == findLValueBase
<1> HIDE DEF B
<1>13. IsBase(B)  BY <1>12 DEF B
<1>14. \A n \in 1..N : B[n] = value(B, n)
  <2> SUFFICES ASSUME NEW n \in 1..N PROVE B[n] = value(B, n)  OBVIOUS
  <2> HIDE DEF IsBase, value
  <2>1. n \in DOMAIN ast  BY <1>1
  <2>2. QED  BY <1>13, <2>1 DEF IsBase
<1>15. QED  BY <1>14 DEF B

LEMMA OneMoreAccess ==
  ASSUME NEW b, NEW accesses, NEW access, NEW w, w = [base |-> b, accesses |-> accesses]
  PROVE  [w EXCEPT !.accesses = Append(@, access)]
             = [base |-> b, accesses |-> Append(accesses, access)]
OBVIOUS

\* findLValueBase goes to the left end; what it gathers on the way are the accesses
\* from there up.
LEMMA LValueIs ==
  ASSUME ast \in Trees, NEW n \in 1..Len(ast)
  PROVE  /\ IsLValue(ast, n) => /\ findLValueBase[n].base = LeftEnd(ast, n)
                                /\ findLValueBase[n].accesses = AccessesOf(ast, n)
         /\ IsLValue(ast, n) <=> findLValueBase[n].base # 0
<1> DEFINE N == Len(ast)
           B == findLValueBase
           E(k) == LeftEnd(ast, k)
           Is(k) == IF IsLValue(ast, k)
                    THEN B[k] = [base |-> E(k), accesses |-> AccessesOf(ast, k)]
                    ELSE B[k].base = 0 /\ B[k] = [base |-> 0, accesses |-> B[k].accesses]
           S == {k \in 1..N : Is(k)}
<1>1. IsAST(ast) /\ N \in Nat  BY AstIs
<1>2. \A k \in 1..N :
          B[k] = IF ast[k].kind = "symbol" THEN [base |-> k, accesses |-> <<>>]
                 ELSE IF IsIndex(ast[k])
                 THEN [B[ast[k].kids[1]] EXCEPT !.accesses = Accessed(@, AccessOf(ast[k]))]
                 ELSE [base |-> 0, accesses |-> <<>>]
  BY LValueUnfold
<1> HIDE DEF B
<1>3. ASSUME NEW k \in 1..N, (k + 1)..N \subseteq S PROVE k \in S
  <2>1. CASE ~IsIndex(ast[k])
    <3>1. E(k) = k /\ AccessesOf(ast, k) = <<>>  BY <1>1, <2>1, LeftEndIs, AccessesAre
    <3>2. IsLValue(ast, k) <=> ast[k].kind = "symbol"  BY <3>1 DEF IsLValue
    <3>3. CASE ast[k].kind = "symbol"
      <4>1. B[k] = [base |-> k, accesses |-> <<>>]  BY <1>2, <3>3
      <4>2. QED  BY <3>1, <3>2, <3>3, <4>1
    <3>4. CASE ast[k].kind # "symbol"
      <4>1. B[k] = [base |-> 0, accesses |-> <<>>]  BY <1>2, <2>1, <3>4
      <4>2. QED  BY <3>2, <3>4, <4>1
    <3>5. QED  BY <3>3, <3>4
  <2>2. CASE IsIndex(ast[k])
    <3>1. ast[k].kids[1] = k + 1 /\ k + 1 \in 1..N /\ k + 1 \in (k + 1)..N
      BY <1>1, <2>2, LeftOperand
    <3>2. /\ E(k) = E(k + 1)
          /\ AccessesOf(ast, k) = Append(AccessesOf(ast, k + 1), AccessOf(ast[k]))
      BY <1>1, <2>2, LeftEndIs, AccessesAre
    <3>3. Is(k + 1)  BY <1>3, <3>1
    <3>4. ast[k].kind # "symbol"  BY <2>2 DEF IsIndex
    <3>5. B[k] = [B[k + 1] EXCEPT !.accesses = Append(@, AccessOf(ast[k]))]
      BY <1>2, <2>2, <3>1, <3>4 DEF Accessed
    <3>6. IsLValue(ast, k) <=> IsLValue(ast, k + 1)  BY <3>2 DEF IsLValue
    <3>7. CASE IsLValue(ast, k)
      <4> DEFINE w == B[k + 1]
                 acc == AccessesOf(ast, k + 1)
                 x == AccessOf(ast[k])
                 b == E(k + 1)
                 one == [w EXCEPT !.accesses = Append(@, x)]
      <4>1. w = [base |-> b, accesses |-> acc]  BY <3>3, <3>6, <3>7
      <4>2. B[k] = one  BY <3>5
      <4> HIDE DEF w, acc, x, b
      <4>3. one = [base |-> b, accesses |-> Append(acc, x)]  BY <4>1, OneMoreAccess
      <4> HIDE DEF one
      <4>4. B[k] = [base |-> E(k), accesses |-> AccessesOf(ast, k)]
        <5> HIDE DEF E
        <5>1. E(k) = b /\ AccessesOf(ast, k) = Append(acc, x)  BY <3>2 DEF acc, x, b
        <5>2. QED  BY <4>2, <4>3, <5>1
      <4>5. QED  BY <3>7, <4>4
    <3>8. CASE ~IsLValue(ast, k)
      <4> DEFINE w == B[k + 1]
                 x == AccessOf(ast[k])
                 one == [w EXCEPT !.accesses = Append(@, x)]
      <4>1. w = [base |-> 0, accesses |-> w.accesses]  BY <3>3, <3>6, <3>8
      <4>2. B[k] = one  BY <3>5
      <4> HIDE DEF w, x
      <4>3. one = [base |-> 0, accesses |-> Append(w.accesses, x)]  BY <4>1, OneMoreAccess
      <4> HIDE DEF one
      <4>4. B[k] = [base |-> 0, accesses |-> Append(w.accesses, x)]  BY <4>2, <4>3
      <4>5. QED  BY <3>8, <4>4
    <3>9. QED  BY <3>7, <3>8
  <2>3. QED  BY <2>1, <2>2
<1>4. 1..N \subseteq S
  <2> HIDE DEF S, N
  <2>1. QED  BY <1>1, <1>3, BackwardInduction
<1>5. Is(n)  BY <1>4
<1>6. E(n) \in n..N  BY <1>1, LeftEndIs
<1>7. E(n) # 0  BY <1>6
<1> HIDE DEF E
<1>8. QED  BY <1>5, <1>7 DEF B, E

-----------------------------------------------------------------------------
\* Joined sequences, one after another.
LEMMA JoinedUnfold ==
  ASSUME NEW S, NEW parts \in Seq(Seq(S))
  PROVE  /\ JoinedUpTo(parts)[0] = <<>>
         /\ \A n \in 1..Len(parts) :
               JoinedUpTo(parts)[n] = JoinedUpTo(parts)[n - 1] \o parts[n]
         /\ \A n \in 0..Len(parts) : JoinedUpTo(parts)[n] \in Seq(S)
<1> DEFINE N == Len(parts)
           V == Seq(S)
           step == [n \in 1..N |-> [s \in V |-> s \o parts[n]]]
           value(f, n) == IF n = 0 THEN <<>> ELSE f[n - 1] \o parts[n]
           IsUpTo(f) == f = [n \in 0..N |-> value(f, n)]
<1>1. N \in Nat /\ \A n \in 1..N : parts[n] \in V  OBVIOUS
<1>2. <<>> \in V  BY EmptySeq
<1>3. \A n \in 1..N : \A s \in V : s \o parts[n] \in V
  <2> SUFFICES ASSUME NEW n \in 1..N, NEW s \in V PROVE s \o parts[n] \in V  OBVIOUS
  <2>1. parts[n] \in Seq(S)  BY <1>1
  <2>2. QED  BY <2>1, ConcatProperties
<1>4. step \in [1..N -> [V -> V]]
  <2> HIDE DEF V
  <2>1. QED  BY <1>3
<1>5. PICK f : SolvesRecursion(f, N, V, <<>>, step)
  <2> HIDE DEF step, N, V
  <2>1. QED  BY <1>1, <1>2, <1>4, RecursionExists
<1>6. f \in [0..N -> V] /\ f[0] = <<>> /\ \A n \in 1..N : f[n] = step[n][f[n - 1]]
  BY <1>5 DEF SolvesRecursion
<1>7. ASSUME NEW n \in 0..N PROVE f[n] = value(f, n)
  <2>1. CASE n = 0  BY <1>6, <2>1
  <2>2. CASE n # 0
    <3>1. n \in 1..N /\ n - 1 \in 0..N  BY <1>1, <2>2
    <3> HIDE DEF N, V
    <3>2. f[n - 1] \in V  BY <1>6, <3>1
    <3>3. step[n][f[n - 1]] = f[n - 1] \o parts[n]  BY <3>1, <3>2
    <3> HIDE DEF step
    <3>4. f[n] = f[n - 1] \o parts[n]  BY <1>6, <3>1, <3>3
    <3>5. QED  BY <2>2, <3>4
  <2>3. QED  BY <2>1, <2>2
<1>8. IsUpTo(f)
  <2>1. f = [n \in 0..N |-> f[n]]  BY <1>6
  <2> HIDE DEF N, value
  <2>2. QED  BY <1>7, <2>1
<1>9. JoinedUpTo(parts) = CHOOSE g : IsUpTo(g)  BY Zenon DEF JoinedUpTo
<1>10. IsUpTo(JoinedUpTo(parts))
  <2> HIDE DEF IsUpTo
  <2>1. QED  BY <1>8, <1>9
<1> DEFINE J == JoinedUpTo(parts)
<1> HIDE DEF J
<1>11. IsUpTo(J)  BY <1>10 DEF J
<1>12. \A n \in 0..N : J[n] = value(J, n)
  <2> SUFFICES ASSUME NEW n \in 0..N PROVE J[n] = value(J, n)  OBVIOUS
  <2> HIDE DEF IsUpTo, value
  <2>1. QED  BY <1>11 DEF IsUpTo
<1>13. J[0] = <<>>  BY <1>1, <1>12
<1>14. \A n \in 1..N : J[n] = J[n - 1] \o parts[n]
  <2> SUFFICES ASSUME NEW n \in 1..N PROVE J[n] = J[n - 1] \o parts[n]  OBVIOUS
  <2>1. n \in 0..N /\ n # 0  BY <1>1
  <2>2. J[n] = value(J, n)  BY <1>12, <2>1
  <2>3. QED  BY <2>1, <2>2
<1>15. 0..N \subseteq {n \in 0..N : J[n] \in V}
  <2> DEFINE T == {n \in 0..N : J[n] \in V}
  <2>1. 0 \in T
    <3>1. 0 \in 0..N  BY <1>1
    <3> HIDE DEF N, V
    <3>2. J[0] \in V  BY <1>2, <1>13
    <3>3. QED  BY <3>1, <3>2
  <2>2. ASSUME NEW n \in 1..N, n - 1 \in T PROVE n \in T
    <3>1. J[n - 1] \in V /\ n \in 0..N  BY <1>1, <2>2
    <3>2. J[n - 1] \o parts[n] \in V  BY <1>3, <3>1
    <3>3. QED  BY <1>14, <3>1, <3>2
  <2> HIDE DEF T, N
  <2>3. QED  BY <1>1, <2>1, <2>2, BoundedInduction DEF T
<1>16. QED  BY <1>13, <1>14, <1>15 DEF J

\* The symbols in a tree, with accesses.
SymbolsIn(t) == [name : {t[n].name : n \in 1..Len(t)}, accesses : Seq(AccessesIn(t))]

LEMMA UseType ==
  ASSUME NEW t, IsAST(t), NEW n \in 1..Len(t), NEW before \in Seq(AccessesIn(t))
  PROVE  Use(t, n, before) \in SymbolsIn(t)
<1> DEFINE A == AccessesIn(t)
<1>1. AccessesOf(t, n) \in Seq(A)  BY AccessesAre
<1>2. LeftEnd(t, n) \in n..Len(t)  BY LeftEndIs
<1>3. LeftEnd(t, n) \in 1..Len(t)  BY <1>2, TreeIs
<1> HIDE DEF A
<1>4. before \in Seq(A)  BY DEF A
<1>5. before \o AccessesOf(t, n) \in Seq(A)  BY <1>1, <1>4, ConcatProperties
<1>6. QED  BY <1>3, <1>5 DEF Use, SymbolsIn, A

LEMMA SaysType ==
  ASSUME NEW t, IsAST(t), NEW n \in 1..Len(t)
  PROVE  Says(t, n) \in Seq(SymbolsIn(t))
<1> DEFINE S == SymbolsIn(t)
           A == AccessesIn(t)
<1>1. CASE IsTraced(t, n)
  <2>1. n + 1 \in 1..Len(t)  BY <1>1, LeftOperand DEF IsTraced
  <2>2. <<>> \in Seq(AccessesIn(t))  BY EmptySeq
  <2>3. Use(t, n + 1, <<>>) \in S  BY <2>1, <2>2, UseType
  <2> HIDE DEF S
  <2>4. <<Use(t, n + 1, <<>>)>> \in Seq(S)  BY <2>3
  <2>5. QED  BY <1>1, <2>4 DEF Says, S
<1>2. CASE ~IsTraced(t, n) /\ IsCall(t[n])
  <2> DEFINE kids == t[n].kids
             at(j) == <<<<"call", t[n].name, j - 1>>>>
             part(j) == IF IsLValue(t, kids[j]) THEN <<Use(t, kids[j], at(j))>> ELSE <<>>
             parts == [j \in 1..Len(kids) |-> part(j)]
  <2>1. Len(kids) \in Nat /\ \A j \in 1..Len(kids) : kids[j] \in 1..Len(t)  BY TreeIs
  <2>2. \A j \in 1..Len(kids) : part(j) \in Seq(S)
    <3> SUFFICES ASSUME NEW j \in 1..Len(kids) PROVE part(j) \in Seq(S)  OBVIOUS
    <3>1. <<"call", t[n].name, j - 1>> \in A
      <4>1. j - 1 \in Nat  BY <2>1
      <4>2. QED  BY <4>1 DEF AccessesIn
    <3> DEFINE a == <<"call", t[n].name, j - 1>>
    <3> HIDE DEF A, a
    <3>2. <<a>> \in Seq(A)  BY <3>1 DEF a
    <3>3. Use(t, kids[j], <<a>>) \in S
      <4> HIDE DEF kids, S
      <4>1. QED  BY <2>1, <3>2, UseType DEF A, S
    <3>4. Use(t, kids[j], at(j)) \in S  BY <3>3 DEF a
    <3> HIDE DEF S, at
    <3>5. QED  BY <3>4, EmptySeq
  <2> HIDE DEF S, kids, part
  <2>3. parts \in Seq(Seq(S)) /\ Len(parts) = Len(kids)
    <3>1. parts \in Seq(Seq(S))  BY <2>1, <2>2, IsASeq
    <3>2. QED  BY <2>1, <3>1
  <2> HIDE DEF parts
  <2>4. Len(parts) \in 0..Len(parts)  BY <2>1, <2>3
  <2>5. Joined(parts) \in Seq(S)  BY <2>3, <2>4, JoinedUnfold DEF Joined
  <2>6. Says(t, n) = Joined(parts)  BY <1>2 DEF Says, parts, part, kids
  <2>7. QED  BY <2>5, <2>6 DEF S
<1>3. CASE ~IsTraced(t, n) /\ ~IsCall(t[n])
  BY <1>3, EmptySeq DEF Says
<1>4. QED  BY <1>1, <1>2, <1>3

\* What the tracer reports of a node is what the node says.
LEMMA ReportsAsSaid ==
  ASSUME ast \in Trees, NEW n \in 1..Len(ast)
  PROVE  /\ IsAssignment(ast[n]) =>
               /\ IsTraced(ast, n) <=> findLValueBase[ast[n].kids[1]].base # 0
               /\ IsTraced(ast, n) =>
                     Says(ast, n) = <<Symbol(findLValueBase[ast[n].kids[1]].base,
                                             findLValueBase[ast[n].kids[1]].accesses)>>
         /\ IsCall(ast[n]) => ~IsTraced(ast, n) /\ Says(ast, n) = Arguments(n)
         /\ ~IsAssignment(ast[n]) => ~IsTraced(ast, n)
         /\ ~IsTraced(ast, n) /\ ~IsCall(ast[n]) => Says(ast, n) = <<>>
<1>1. IsAST(ast)  BY AstIs
<1>2. ASSUME IsAssignment(ast[n])
      PROVE  /\ IsTraced(ast, n) <=> findLValueBase[ast[n].kids[1]].base # 0
             /\ IsTraced(ast, n) =>
                   Says(ast, n) = <<Symbol(findLValueBase[ast[n].kids[1]].base,
                                           findLValueBase[ast[n].kids[1]].accesses)>>
  <2> DEFINE m == n + 1
             B == findLValueBase[m]
  <2>1. ast[n].kids[1] = m /\ m \in 1..Len(ast)  BY <1>1, <1>2, LeftOperand
  <2>2. /\ IsLValue(ast, m) => /\ B.base = LeftEnd(ast, m)
                               /\ B.accesses = AccessesOf(ast, m)
        /\ IsLValue(ast, m) <=> B.base # 0
    <3> HIDE DEF m
    <3>1. QED  BY <2>1, LValueIs
  <2>3. IsTraced(ast, n) <=> IsLValue(ast, m)  BY <1>2 DEF IsTraced
  <2>4. AccessesOf(ast, m) \in Seq(AccessesIn(ast))
    <3> HIDE DEF m
    <3>1. QED  BY <1>1, <2>1, AccessesAre
  <2>5. <<>> \o AccessesOf(ast, m) = AccessesOf(ast, m)  BY <2>4, ConcatEmptySeq
  <2>6. ASSUME IsTraced(ast, n) PROVE Says(ast, n) = <<Symbol(B.base, B.accesses)>>
    <3>1. Says(ast, n) = <<Use(ast, m, <<>>)>>  BY <2>6 DEF Says
    <3> HIDE DEF B, m
    <3>2. Use(ast, m, <<>>) = Symbol(B.base, B.accesses)
      BY <2>2, <2>3, <2>5, <2>6 DEF Use, Symbol
    <3>3. QED  BY <3>1, <3>2
  <2> HIDE DEF m
  <2>7. QED  BY <2>1, <2>2, <2>3, <2>6
<1>3. ASSUME IsCall(ast[n]) PROVE ~IsTraced(ast, n) /\ Says(ast, n) = Arguments(n)
  <2>1. ~IsTraced(ast, n)  BY <1>3 DEF IsTraced, IsCall, IsAssignment
  <2> DEFINE kids == ast[n].kids
             at(j) == <<<<"call", ast[n].name, j - 1>>>>
             part(j) == IF IsLValue(ast, kids[j]) THEN <<Use(ast, kids[j], at(j))>> ELSE <<>>
  <2>2. \A j \in 1..Len(kids) : kids[j] \in 1..Len(ast)  BY <1>1, TreeIs
  <2>3. ASSUME NEW j \in 1..Len(kids) PROVE Argument(n, j) = part(j)
    <3> DEFINE k == kids[j]
               B == findLValueBase[k]
    <3>1. k \in 1..Len(ast)  BY <2>2
    <3>2. /\ IsLValue(ast, k) => /\ B.base = LeftEnd(ast, k)
                                 /\ B.accesses = AccessesOf(ast, k)
          /\ IsLValue(ast, k) <=> B.base # 0
      <4> HIDE DEF k
      <4>1. QED  BY <3>1, LValueIs
    <3>3. Argument(n, j) = IF B.base = 0 THEN <<>>
                           ELSE <<Symbol(B.base, at(j) \o B.accesses)>>
      BY DEF Argument
    <3> HIDE DEF B, at, k
    <3>4. IsLValue(ast, k) => Symbol(B.base, at(j) \o B.accesses) = Use(ast, k, at(j))
      BY <3>2 DEF Symbol, Use
    <3>5. Argument(n, j) = IF IsLValue(ast, k) THEN <<Use(ast, k, at(j))>> ELSE <<>>
      BY <3>2, <3>3, <3>4
    <3>6. QED  BY <3>5 DEF k
  <2>4. Arguments(n) = Joined([j \in 1..Len(kids) |-> Argument(n, j)])  BY DEF Arguments
  <2>5. [j \in 1..Len(kids) |-> Argument(n, j)] = [j \in 1..Len(kids) |-> part(j)]
    <3> HIDE DEF part, kids
    <3>1. QED  BY <2>3
  <2>6. Says(ast, n) = Joined([j \in 1..Len(kids) |-> part(j)])
    BY <1>3, <2>1 DEF Says
  <2> HIDE DEF part, kids
  <2>7. QED  BY <2>1, <2>4, <2>5, <2>6
<1>4. QED  BY <1>2, <1>3 DEF IsTraced, Says

-----------------------------------------------------------------------------
\* The nodes of a function that are not in an assignment, and what they say up to
\* each node of the tree.
Kept(t, f) == Under(t, f) \ Hidden(t, f)
Said(t, f) == JoinedUpTo(SaidBy(t, Kept(t, f)))

LEMMA SaidIs ==
  ASSUME NEW t, IsAST(t), NEW f
  PROVE  /\ Said(t, f)[0] = <<>>
         /\ \A n \in 1..Len(t) :
               Said(t, f)[n] = Said(t, f)[n - 1]
                                   \o (IF n \in Kept(t, f) THEN Says(t, n) ELSE <<>>)
         /\ \A n \in 0..Len(t) : Said(t, f)[n] \in Seq(SymbolsIn(t))
         /\ Len(SaidBy(t, Kept(t, f))) = Len(t)
<1> DEFINE S == SymbolsIn(t)
           part(n) == IF n \in Kept(t, f) THEN Says(t, n) ELSE <<>>
           parts == [n \in 1..Len(t) |-> part(n)]
<1>1. Len(t) \in Nat  BY TreeIs
<1>2. \A n \in 1..Len(t) : part(n) \in Seq(S)
  <2> SUFFICES ASSUME NEW n \in 1..Len(t) PROVE part(n) \in Seq(S)  OBVIOUS
  <2>1. Says(t, n) \in Seq(S)  BY SaysType
  <2> HIDE DEF S
  <2>2. QED  BY <2>1, EmptySeq
<1>3. SaidBy(t, Kept(t, f)) = parts  BY DEF SaidBy
<1> HIDE DEF S, part
<1>4. parts \in Seq(Seq(S))  BY <1>1, <1>2, IsASeq
<1>5. Len(parts) = Len(t) /\ \A n \in 1..Len(t) : parts[n] = part(n)  BY <1>1
<1> HIDE DEF parts
<1>6. /\ JoinedUpTo(parts)[0] = <<>>
      /\ \A n \in 1..Len(parts) :
            JoinedUpTo(parts)[n] = JoinedUpTo(parts)[n - 1] \o parts[n]
      /\ \A n \in 0..Len(parts) : JoinedUpTo(parts)[n] \in Seq(S)
  BY <1>4, JoinedUnfold
<1>7. Said(t, f) = JoinedUpTo(parts)  BY <1>3 DEF Said
<1>8. QED  BY <1>3, <1>5, <1>6, <1>7 DEF S, part

\* A node that is kept adds what it says, any other one adds nothing.
LEMMA SaidStep ==
  ASSUME NEW t, IsAST(t), NEW f, NEW n \in 1..Len(t)
  PROVE  /\ n \in Kept(t, f) => Said(t, f)[n] = Said(t, f)[n - 1] \o Says(t, n)
         /\ n \notin Kept(t, f) => Said(t, f)[n] = Said(t, f)[n - 1]
<1>1. n - 1 \in 0..Len(t)  BY TreeIs
<1>2. Said(t, f)[n - 1] \in Seq(SymbolsIn(t))  BY <1>1, SaidIs
<1>3. Said(t, f)[n - 1] \o <<>> = Said(t, f)[n - 1]  BY <1>2, ConcatEmptySeq
<1>4. QED  BY <1>3, SaidIs

\* So do many of them.
LEMMA NothingSaid ==
  ASSUME NEW t, IsAST(t), NEW f, NEW d \in 0..Len(t), NEW e \in d..Len(t),
         \A n \in (d + 1)..e : n \notin Kept(t, f)
  PROVE  Said(t, f)[e] = Said(t, f)[d]
<1> DEFINE U == Said(t, f)
           N == e - d
           S == {k \in 0..N : U[d + k] = U[d]}
<1>1. Len(t) \in Nat /\ N \in Nat /\ d + 0 = d /\ d + N = e  BY TreeIs
<1>2. 0 \in S  BY <1>1
<1>3. ASSUME NEW k \in 1..N, k - 1 \in S PROVE k \in S
  <2>1. d + k \in (d + 1)..e /\ d + k \in 1..Len(t) /\ (d + k) - 1 = d + (k - 1)  BY <1>1
  <2>2. U[d + k] = U[(d + k) - 1]  BY <2>1, SaidStep
  <2>3. U[d + (k - 1)] = U[d]  BY <1>3
  <2> HIDE DEF U
  <2>4. U[d + k] = U[d]  BY <2>1, <2>2, <2>3
  <2>5. k \in 0..N  BY <1>1
  <2>6. QED  BY <2>4, <2>5
<1>4. 0..N \subseteq S
  <2> HIDE DEF S, N
  <2>1. QED  BY <1>1, <1>2, <1>3, BoundedInduction
<1>5. N \in S  BY <1>1, <1>4
<1>6. QED  BY <1>1, <1>5

\* The assignments to symbols before a place end before it.
ClosedBefore(t, f, p) ==
    \A a \in Under(t, f) : IsTraced(t, a) /\ a < p => LastOf(t)[a] < p

\* So the node at that place is in none.
LEMMA PlaceIsKept ==
  ASSUME NEW t, IsAST(t), NEW f \in 1..Len(t), NEW p \in Under(t, f), ClosedBefore(t, f, p)
  PROVE  p \in 1..Len(t) /\ p \in Kept(t, f)
<1>1. p \in 1..Len(t)  BY Nesting
<1>2. ASSUME NEW a \in Under(t, f), IsTraced(t, a), p \in Under(t, a) \ {a} PROVE FALSE
  <2>1. a \in 1..Len(t) /\ LastOf(t)[a] \in a..Len(t) /\ Len(t) \in Nat
    BY Nesting, LastIs, TreeIs
  <2>2. p \in a..LastOf(t)[a] /\ p # a  BY <1>2 DEF Under
  <2>3. a < p  BY <2>1, <2>2
  <2>4. LastOf(t)[a] < p  BY <1>2, <2>3 DEF ClosedBefore
  <2>5. QED  BY <2>1, <2>2, <2>4
<1>3. p \notin Hidden(t, f)  BY <1>2 DEF Hidden
<1>4. QED  BY <1>1, <1>3 DEF Kept

\* Behind an assignment to a symbol all are closed, and nothing in it is kept.
LEMMA BehindAssignment ==
  ASSUME NEW t, IsAST(t), NEW f \in 1..Len(t), NEW p \in Under(t, f), ClosedBefore(t, f, p),
         IsTraced(t, p)
  PROVE  /\ ClosedBefore(t, f, LastOf(t)[p] + 1)
         /\ \A n \in (p + 1)..LastOf(t)[p] : n \notin Kept(t, f)
<1>1. p \in 1..Len(t) /\ LastOf(t)[p] \in p..Len(t) /\ Len(t) \in Nat
  BY Nesting, LastIs, TreeIs
<1>2. ASSUME NEW a \in Under(t, f), IsTraced(t, a), a < LastOf(t)[p] + 1
      PROVE  LastOf(t)[a] < LastOf(t)[p] + 1
  <2>1. a \in 1..Len(t) /\ LastOf(t)[a] \in a..Len(t)  BY Nesting, LastIs
  <2>2. CASE a < p
    <3>1. LastOf(t)[a] < p  BY <1>2, <2>2 DEF ClosedBefore
    <3>2. QED  BY <1>1, <2>1, <3>1
  <2>3. CASE ~(a < p)
    <3>1. a \in Under(t, p)  BY <1>1, <1>2, <2>1, <2>3 DEF Under
    <3>2. LastOf(t)[a] <= LastOf(t)[p]  BY <1>1, <3>1, Nesting
    <3>3. QED  BY <1>1, <2>1, <3>2
  <2>4. QED  BY <2>2, <2>3
<1>3. ASSUME NEW n \in (p + 1)..LastOf(t)[p] PROVE n \notin Kept(t, f)
  <2>1. n \in Under(t, p) \ {p}  BY <1>1 DEF Under
  <2>2. n \in Hidden(t, f)  BY <2>1 DEF Hidden
  <2>3. QED  BY <2>2 DEF Kept
<1>4. QED  BY <1>2, <1>3 DEF ClosedBefore

-----------------------------------------------------------------------------
\* The list once a function is traced up to a place: what was in it before, and
\* what the nodes before the place say.
IsTracedTo(t, f, p, before, list) ==
    /\ p \in f..(LastOf(t)[f] + 1)
    /\ list = before \o Said(t, f)[p - 1]
    /\ ClosedBefore(t, f, p)

LEMMA AddSaid ==
  ASSUME NEW t, IsAST(t), NEW f \in 1..Len(t), NEW p \in Under(t, f),
         NEW before \in Seq(SymbolsIn(t)), NEW list, IsTracedTo(t, f, p, before, list)
  PROVE  /\ p \in 1..Len(t)
         /\ list \in Seq(SymbolsIn(t)) /\ list \o Says(t, p) \in Seq(SymbolsIn(t))
         /\ list \o Says(t, p) = before \o Said(t, f)[p]
<1> DEFINE S == SymbolsIn(t)
           U == Said(t, f)
<1>1. ClosedBefore(t, f, p) /\ list = before \o U[p - 1]  BY DEF IsTracedTo
<1>2. p \in 1..Len(t) /\ p \in Kept(t, f)  BY <1>1, PlaceIsKept
<1>3. p - 1 \in 0..Len(t)  BY <1>2, TreeIs
<1>4. Says(t, p) \in Seq(S) /\ U[p - 1] \in Seq(S)  BY <1>2, <1>3, SaysType, SaidIs
<1>5. U[p] = U[p - 1] \o Says(t, p)  BY <1>2, SaidStep
<1>6. before \in Seq(S)  OBVIOUS
<1> HIDE DEF S, U
<1>7. (before \o U[p - 1]) \o Says(t, p) = before \o (U[p - 1] \o Says(t, p))
  <2> DEFINE u == U[p - 1]
             v == Says(t, p)
  <2>1. u \in Seq(S) /\ v \in Seq(S)  BY <1>4
  <2> HIDE DEF u, v
  <2>2. (before \o u) \o v = before \o (u \o v)  BY <1>6, <2>1, ConcatAssociative
  <2>3. QED  BY <2>2 DEF u, v
<1>8. before \o U[p - 1] \in Seq(S)  BY <1>4, <1>6, ConcatProperties
<1>9. (before \o U[p - 1]) \o Says(t, p) \in Seq(S)  BY <1>4, <1>8, ConcatProperties
<1>10. QED  BY <1>1, <1>2, <1>5, <1>7, <1>8, <1>9 DEF S, U

\* The next node is one of the function.
LEMMA NextIsUnder ==
  ASSUME NEW t, IsAST(t), NEW f \in 1..Len(t), NEW s, s # <<>>, NEW before, NEW list,
         IsForest(t, s, LastOf(t)[f]),
         IsTracedTo(t, f, First(s, LastOf(t)[f]), before, list)
  PROVE  /\ Head(s) = First(s, LastOf(t)[f]) /\ Head(s) \in Under(t, f)
         /\ Head(s) \in 1..Len(t) /\ LastOf(t)[Head(s)] \in Head(s)..LastOf(t)[f]
         /\ LastOf(t)[f] \in 1..Len(t) /\ Len(t) \in Nat
<1> DEFINE e == LastOf(t)[f]
           p == First(s, e)
           n == Head(s)
<1>1. e \in 1..Len(t) /\ Len(t) \in Nat  BY LastIs, TreeIs
<1>2. n = p /\ n \in 1..Len(t) /\ n <= LastOf(t)[n] /\ LastOf(t)[n] <= e
  BY <1>1, ForestRest
<1>3. p \in f..(e + 1)  BY DEF IsTracedTo
<1> HIDE DEF p, n
<1>4. LastOf(t)[n] \in n..Len(t)  BY <1>2, LastIs
<1> HIDE DEF e
<1>5. n \in f..e /\ LastOf(t)[n] \in n..e  BY <1>1, <1>2, <1>3, <1>4
<1>6. QED  BY <1>1, <1>2, <1>5 DEF Under, p, n, e

\* A node that is no assignment to a symbol is reported, and visited.
LEMMA VisitNode ==
  ASSUME NEW t, IsAST(t), NEW f \in 1..Len(t), NEW s, s # <<>>,
         NEW before \in Seq(SymbolsIn(t)), NEW list,
         IsForest(t, s, LastOf(t)[f]),
         IsTracedTo(t, f, First(s, LastOf(t)[f]), before, list),
         ~IsTraced(t, Head(s))
  PROVE  LET r == t[Head(s)].kids \o Tail(s)
         IN  /\ IsForest(t, r, LastOf(t)[f])
             /\ IsTracedTo(t, f, First(r, LastOf(t)[f]), before, list \o Says(t, Head(s)))
<1> DEFINE e == LastOf(t)[f]
           n == Head(s)
           r == t[n].kids \o Tail(s)
<1>1. /\ n = First(s, e) /\ n \in Under(t, f) /\ LastOf(t)[n] \in n..e
      /\ n \in 1..Len(t) /\ e \in 1..Len(t) /\ Len(t) \in Nat
  BY NextIsUnder
<1>2. IsTracedTo(t, f, n, before, list)  BY <1>1
<1>3. IsForest(t, r, e) /\ First(r, e) = n + 1  BY <1>1, ForestVisit
<1>4. ~IsTraced(t, n)  OBVIOUS
<1> HIDE DEF n, r
<1>5. list \o Says(t, n) = before \o Said(t, f)[n]  BY <1>1, <1>2, AddSaid
<1>6. ClosedBefore(t, f, n + 1)
  <2> SUFFICES ASSUME NEW a \in Under(t, f), IsTraced(t, a), a < n + 1
               PROVE  LastOf(t)[a] < n + 1
    BY DEF ClosedBefore
  <2>1. a \in 1..Len(t) /\ LastOf(t)[a] \in a..Len(t) /\ a # n
    <3>1. a \in 1..Len(t)  BY Nesting
    <3>2. QED  BY <1>4, <3>1, LastIs
  <2>2. a < n  BY <1>1, <2>1
  <2>3. LastOf(t)[a] < n  BY <1>2, <2>2 DEF IsTracedTo, ClosedBefore
  <2>4. QED  BY <1>1, <2>1, <2>3
<1>7. n + 1 \in f..(e + 1) /\ (n + 1) - 1 = n
  <2>1. n \in f..e  BY <1>1 DEF Under
  <2> HIDE DEF e
  <2>2. QED  BY <1>1, <2>1
<1>8. IsTracedTo(t, f, n + 1, before, list \o Says(t, n))
  BY <1>5, <1>6, <1>7 DEF IsTracedTo
<1>9. QED  BY <1>3, <1>8 DEF n, r

\* An assignment to a symbol is reported, and passed with all that is in it.
LEMMA PassAssignment ==
  ASSUME NEW t, IsAST(t), NEW f \in 1..Len(t), NEW s, s # <<>>,
         NEW before \in Seq(SymbolsIn(t)), NEW list,
         IsForest(t, s, LastOf(t)[f]),
         IsTracedTo(t, f, First(s, LastOf(t)[f]), before, list),
         IsTraced(t, Head(s))
  PROVE  /\ IsForest(t, Tail(s), LastOf(t)[f])
         /\ IsTracedTo(t, f, First(Tail(s), LastOf(t)[f]), before, list \o Says(t, Head(s)))
<1> DEFINE e == LastOf(t)[f]
           n == Head(s)
           r == Tail(s)
           p == LastOf(t)[n]
<1>1. /\ n = First(s, e) /\ n \in Under(t, f) /\ p \in n..e
      /\ n \in 1..Len(t) /\ e \in 1..Len(t) /\ Len(t) \in Nat
  BY NextIsUnder
<1>2. IsTracedTo(t, f, n, before, list)  BY <1>1
<1>3. IsForest(t, r, e) /\ First(r, e) = p + 1  BY <1>1, ForestRest
<1>4. IsTraced(t, n)  OBVIOUS
<1> HIDE DEF n, r
<1>5. list \o Says(t, n) = before \o Said(t, f)[n]  BY <1>1, <1>2, AddSaid
<1>6. ClosedBefore(t, f, n)  BY <1>2 DEF IsTracedTo
<1>7. ClosedBefore(t, f, p + 1) /\ \A m \in (n + 1)..p : m \notin Kept(t, f)
  BY <1>1, <1>4, <1>6, BehindAssignment
<1>8. n \in f..e  BY <1>1 DEF Under
<1> HIDE DEF e, p
<1>9. n \in 0..Len(t) /\ p \in n..Len(t) /\ p + 1 \in f..(e + 1) /\ (p + 1) - 1 = p
  BY <1>1, <1>8
<1>10. Said(t, f)[p] = Said(t, f)[n]  BY <1>7, <1>9, NothingSaid
<1>11. IsTracedTo(t, f, p + 1, before, list \o Says(t, n))
  BY <1>5, <1>7, <1>9, <1>10 DEF IsTracedTo, e
<1>12. QED  BY <1>3, <1>11 DEF n, r, e, p

\* Where tracing begins nothing is said, where it ends everything is.
LEMMA TracingBegins ==
  ASSUME NEW t, IsAST(t), NEW f \in 1..Len(t), NEW before \in Seq(SymbolsIn(t))
  PROVE  IsTracedTo(t, f, f, before, before)
<1>1. /\ f - 1 \in 0..Len(t) /\ 0 \in 0..Len(t) /\ LastOf(t)[f] \in f..Len(t)
      /\ Len(t) \in Nat
  BY TreeIs, LastIs
<1>2. \A n \in (0 + 1)..(f - 1) : n \notin Kept(t, f)  BY DEF Kept, Under
<1>3. Said(t, f)[f - 1] = Said(t, f)[0]
  <2>1. f - 1 \in 0..Len(t) /\ 0 \in 0..Len(t)  BY <1>1
  <2>2. QED  BY <1>2, <2>1, NothingSaid
<1>4. Said(t, f)[f - 1] = <<>>  BY <1>3, SaidIs
<1>5. before \o <<>> = before  BY ConcatEmptySeq
<1>6. ClosedBefore(t, f, f)
  <2>1. \A a \in Under(t, f) : ~(a < f)  BY <1>1 DEF Under
  <2>2. QED  BY <2>1 DEF ClosedBefore
<1>7. f \in f..(LastOf(t)[f] + 1)  BY <1>1
<1>8. QED  BY <1>4, <1>5, <1>6, <1>7 DEF IsTracedTo

LEMMA TracingEnds ==
  ASSUME NEW t, IsAST(t), NEW f \in 1..Len(t), NEW before, NEW list,
         IsTracedTo(t, f, LastOf(t)[f] + 1, before, list)
  PROVE  list = before \o Joined(SaidBy(t, Under(t, f) \ Hidden(t, f)))
<1> DEFINE e == LastOf(t)[f]
<1>1. e \in f..Len(t) /\ Len(t) \in Nat  BY TreeIs, LastIs
<1>2. list = before \o Said(t, f)[(e + 1) - 1]  BY DEF IsTracedTo
<1>3. \A n \in (e + 1)..Len(t) : n \notin Kept(t, f)
  <2>1. Under(t, f) = f..e  BY DEF Under
  <2> HIDE DEF e
  <2>2. \A n \in (e + 1)..Len(t) : n \notin Under(t, f)  BY <1>1, <2>1
  <2>3. QED  BY <2>2 DEF Kept
<1> HIDE DEF e
<1>4. (e + 1) - 1 = e /\ e \in 0..Len(t) /\ Len(t) \in e..Len(t)  BY <1>1
<1>5. Said(t, f)[Len(t)] = Said(t, f)[e]  BY <1>3, <1>4, NothingSaid
<1>6. Joined(SaidBy(t, Kept(t, f))) = Said(t, f)[Len(t)]  BY SaidIs DEF Joined, Said
<1>7. QED  BY <1>2, <1>4, <1>5, <1>6 DEF Kept

-----------------------------------------------------------------------------
\* The tracer has the rest of the function before it, and has reported the part
\* of it that it has passed.
TracerInv ==
    /\ FinderInv
    /\ call.before \in Seq(SymbolsIn(ast)) /\ symbols \in Seq(SymbolsIn(ast))
    /\ stage = "tracing" =>
          /\ found \in 1..Len(ast) /\ IsForest(ast, todo, LastOf(ast)[found])
          /\ IsTracedTo(ast, found, First(todo, LastOf(ast)[found]), call.before, symbols)
    /\ SymbolsAsUsed

LEMMA TracerInit == Init => TracerInv
<1> SUFFICES ASSUME Init PROVE TracerInv  OBVIOUS
<1>1. FinderInv  BY FinderInit
<1>2. call.before = <<>> /\ symbols = <<>> /\ stage = "idle"  BY DEF Init
<1>3. <<>> \in Seq(SymbolsIn(ast))  BY EmptySeq
<1>4. QED  BY <1>1, <1>2, <1>3 DEF TracerInv, SymbolsAsUsed

\* A step of the tracer reports a node and goes on behind it, or behind all of it.
LEMMA TracerVisits ==
  ASSUME TracerInv, FinderInv', VisitAssignment \/ VisitCall \/ VisitOther
  PROVE  TracerInv'
<1> DEFINE n == Head(todo)
           L == LastOf(ast)[found]
           p == First(todo, L)
           B == findLValueBase[ast[n].kids[1]]
<1>1. /\ stage = "tracing" /\ stage' = "tracing" /\ todo # <<>>
      /\ ast' = ast /\ call' = call /\ found' = found
  BY DEF VisitAssignment, VisitCall, VisitOther
<1>2. /\ ast \in Trees /\ found \in 1..Len(ast) /\ IsForest(ast, todo, L)
      /\ IsTracedTo(ast, found, p, call.before, symbols)
      /\ call.before \in Seq(SymbolsIn(ast)) /\ symbols \in Seq(SymbolsIn(ast))
  BY <1>1 DEF TracerInv, FinderInv
<1>3. IsAST(ast)  BY <1>2, AstIs
<1>4. n = p /\ n \in Under(ast, found) /\ n \in 1..Len(ast)
  BY <1>1, <1>2, <1>3, NextIsUnder
<1>5. symbols \o Says(ast, n) \in Seq(SymbolsIn(ast))
  <2> HIDE DEF n, p
  <2>1. QED  BY <1>2, <1>3, <1>4, AddSaid
<1>6. symbols \o <<>> = symbols  BY <1>2, ConcatEmptySeq
<1>7. /\ IsAssignment(ast[n]) =>
            /\ IsTraced(ast, n) <=> B.base # 0
            /\ IsTraced(ast, n) => Says(ast, n) = <<Symbol(B.base, B.accesses)>>
      /\ IsCall(ast[n]) => ~IsTraced(ast, n) /\ Says(ast, n) = Arguments(n)
      /\ ~IsAssignment(ast[n]) => ~IsTraced(ast, n)
      /\ ~IsTraced(ast, n) /\ ~IsCall(ast[n]) => Says(ast, n) = <<>>
  <2> HIDE DEF n
  <2>1. QED  BY <1>2, <1>4, ReportsAsSaid
<1>8. /\ symbols' = symbols \o Says(ast, n)
      /\ todo' = IF IsTraced(ast, n) THEN Tail(todo) ELSE ast[n].kids \o Tail(todo)
  <2>1. CASE VisitAssignment
    <3>1. IsAssignment(ast[n]) /\ ~IsCall(ast[n])
      BY <2>1 DEF VisitAssignment, IsAssignment, IsCall
    <3>2. IF B.base # 0
          THEN symbols' = Append(symbols, Symbol(B.base, B.accesses)) /\ todo' = Tail(todo)
          ELSE symbols' = symbols /\ todo' = ast[n].kids \o Tail(todo)
      BY <2>1 DEF VisitAssignment
    <3>3. CASE IsTraced(ast, n)
      <4> DEFINE x == Symbol(B.base, B.accesses)
      <4>1. Says(ast, n) = <<x>> /\ symbols' = Append(symbols, x) /\ todo' = Tail(todo)
        BY <1>7, <3>1, <3>2, <3>3
      <4> HIDE DEF x
      <4>2. Append(symbols, x) = symbols \o <<x>>  BY <1>2
      <4>3. QED  BY <3>3, <4>1, <4>2
    <3>4. CASE ~IsTraced(ast, n)
      <4>1. Says(ast, n) = <<>> /\ symbols' = symbols /\ todo' = ast[n].kids \o Tail(todo)
        BY <1>7, <3>1, <3>2, <3>4
      <4>2. QED  BY <1>6, <3>4, <4>1
    <3>5. QED  BY <3>3, <3>4
  <2>2. CASE VisitCall  BY <1>7, <2>2 DEF VisitCall
  <2>3. CASE VisitOther
    <3>1. /\ ~IsAssignment(ast[n]) /\ ~IsCall(ast[n]) /\ symbols' = symbols
          /\ todo' = ast[n].kids \o Tail(todo)
      BY <2>3 DEF VisitOther
    <3>2. Says(ast, n) = <<>> /\ ~IsTraced(ast, n)  BY <1>7, <3>1
    <3>3. QED  BY <1>6, <3>1, <3>2
  <2>4. QED  BY <2>1, <2>2, <2>3
<1>9. /\ IsForest(ast, todo', L)
      /\ IsTracedTo(ast, found, First(todo', L), call.before, symbols')
  <2> HIDE DEF B
  <2>1. CASE IsTraced(ast, n)
    <3>1. /\ IsForest(ast, Tail(todo), L)
          /\ IsTracedTo(ast, found, First(Tail(todo), L), call.before,
                        symbols \o Says(ast, n))
      BY <1>1, <1>2, <1>3, <2>1, PassAssignment
    <3>2. QED  BY <1>8, <2>1, <3>1
  <2>2. CASE ~IsTraced(ast, n)
    <3>1. /\ IsForest(ast, ast[n].kids \o Tail(todo), L)
          /\ IsTracedTo(ast, found, First(ast[n].kids \o Tail(todo), L), call.before,
                        symbols \o Says(ast, n))
      BY <1>1, <1>2, <1>3, <2>2, VisitNode
    <3>2. QED  BY <1>8, <2>2, <3>1
  <2>3. QED  BY <2>1, <2>2
<1> HIDE DEF n, p, B
<1>10. SymbolsAsUsed'  BY <1>1 DEF SymbolsAsUsed
<1>11. symbols' \in Seq(SymbolsIn(ast))  BY <1>5, <1>8
<1>12. QED  BY <1>1, <1>2, <1>9, <1>10, <1>11 DEF TracerInv

LEMMA TracerStep == TracerInv /\ [Next]_vars => TracerInv'
<1> SUFFICES ASSUME TracerInv, [Next]_vars PROVE TracerInv'  OBVIOUS
<1>1. FinderInv /\ FinderInv'  BY FinderStep DEF TracerInv
<1>2. /\ ast \in Trees /\ call.before \in Seq(SymbolsIn(ast))
      /\ symbols \in Seq(SymbolsIn(ast))
  BY <1>1 DEF TracerInv, FinderInv
<1>3. IsAST(ast) /\ Definitions \subseteq 1..Len(ast)  BY <1>2, AstIs
<1>4. ASSUME NEW name \in Asked, GetFunctionByName(name) \/ FindSymbolsUsage(name)
      PROVE  TracerInv'
  <2>1. PICK list \in {<<>>, symbols}, usage \in BOOLEAN : Asks(name, usage, list)
    BY <1>4 DEF GetFunctionByName, FindSymbolsUsage
  <2>2. list \in Seq(SymbolsIn(ast))  BY <1>2, <2>1, EmptySeq
  <2>3. ast' = ast /\ stage' = "finding" /\ call'.before = list /\ symbols' = list
    BY <2>1 DEF Asks
  <2>4. QED  BY <1>1, <2>2, <2>3 DEF TracerInv, SymbolsAsUsed
<1>5. CASE VisitFinder \/ FoundFunction
  <2>1. /\ ast' = ast /\ call' = call /\ symbols' = symbols
        /\ stage' = "finding" \/ (stage' = "done" /\ ~call.usage)
    BY <1>5 DEF VisitFinder, FoundFunction
  <2>2. QED  BY <1>1, <1>2, <2>1 DEF TracerInv, SymbolsAsUsed
<1>6. CASE StartTracer
  <2>1. /\ ast' = ast /\ call' = call /\ symbols' = symbols /\ found' = found
        /\ stage = "finding" /\ todo = <<>>
        /\ \/ stage' = "crashed"
           \/ stage' = "tracing" /\ found # 0 /\ todo' = <<found>>
    BY <1>6 DEF StartTracer
  <2>2. CASE stage' = "crashed"
    BY <1>1, <1>2, <2>1, <2>2 DEF TracerInv, SymbolsAsUsed
  <2>3. CASE stage' = "tracing" /\ found # 0 /\ todo' = <<found>>
    <3>1. found \in 1..Len(ast)  BY <1>1, <1>3, <2>1, <2>3, FinderEnds
    <3>2. /\ IsForest(ast, <<found>>, LastOf(ast)[found])
          /\ First(<<found>>, LastOf(ast)[found]) = found
      BY <1>3, <3>1, OneTree
    <3>3. symbols = call.before  BY <1>1, <2>1 DEF FinderInv, FoundIsLastDefinition
    <3>4. IsTracedTo(ast, found, found, symbols, symbols)  BY <1>2, <1>3, <3>1, TracingBegins
    <3>5. IsTracedTo(ast, found, First(<<found>>, LastOf(ast)[found]), call.before, symbols)
      BY <3>2, <3>3, <3>4
    <3>6. SymbolsAsUsed'  BY <2>3 DEF SymbolsAsUsed
    <3>7. QED  BY <1>1, <1>2, <2>1, <2>3, <3>1, <3>2, <3>5, <3>6 DEF TracerInv
  <2>4. QED  BY <2>1, <2>2, <2>3
<1>7. CASE VisitAssignment \/ VisitCall \/ VisitOther  BY <1>1, <1>7, TracerVisits
<1>8. CASE TracedAll
  <2>1. /\ stage = "tracing" /\ todo = <<>> /\ stage' = "done"
        /\ ast' = ast /\ call' = call /\ found' = found /\ symbols' = symbols
    BY <1>8 DEF TracedAll
  <2>2. /\ found \in 1..Len(ast)
        /\ IsTracedTo(ast, found, First(todo, LastOf(ast)[found]), call.before, symbols)
    BY <2>1 DEF TracerInv
  <2>3. First(todo, LastOf(ast)[found]) = LastOf(ast)[found] + 1  BY <2>1 DEF First
  <2>4. symbols = call.before \o Joined(SaidBy(ast, Under(ast, found) \ Hidden(ast, found)))
    BY <1>3, <2>2, <2>3, TracingEnds
  <2>5. SymbolsAsUsed'  BY <2>1, <2>4 DEF SymbolsAsUsed
  <2>6. QED  BY <1>1, <1>2, <2>1, <2>5 DEF TracerInv
<1>9. CASE UNCHANGED vars
  <2>1. /\ ast' = ast /\ call' = call /\ stage' = stage /\ todo' = todo /\ found' = found
        /\ symbols' = symbols
    BY <1>9 DEF vars
  <2>2. SymbolsAsUsed'  BY <2>1 DEF TracerInv, SymbolsAsUsed
  <2>3. QED  BY <1>1, <2>1, <2>2 DEF TracerInv
<1>10. QED  BY <1>4, <1>5, <1>6, <1>7, <1>8, <1>9 DEF Next

\* ShaderInfo.cpp:92-192: FindSymbolsUsage adds to the list the assignments to symbols
\* and the arguments of calls of the one function, in the order of the source, with
\* their accesses in that order, and none from within an assignment.
THEOREM SymbolsAlwaysAsUsed == Spec => []SymbolsAsUsed
<1>1. TracerInv => SymbolsAsUsed  BY DEF TracerInv
<1>2. QED  BY <1>1, TracerInit, TracerStep, PTL DEF Spec
=============================================================================
