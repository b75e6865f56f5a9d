------------------------- MODULE TranslationProofs -------------------------
(***************************************************************************)
(* What translations leave in the vector, and that renaming and reflection *)
(* agree, for any sources, any names and any external renaming of          *)
(* duplicates.                                                             *)
(***************************************************************************)
EXTENDS Translation, FiniteSetTheorems, TLAPS

\* The vector follows the source by itself: each step keeps it, clears it, or sets
\* both.
THEOREM VectorAlwaysFollowsSource == Spec => []VectorFollowsSource
<1>1. Init => VectorFollowsSource
  BY DEF Init, VectorFollowsSource
<1>2. VectorFollowsSource /\ [Next]_vars => VectorFollowsSource'
  <2> SUFFICES ASSUME VectorFollowsSource, [Next]_vars PROVE VectorFollowsSource'
    OBVIOUS
  <2> USE DEF VectorFollowsSource
  <2>1. ASSUME NEW p \in HLSLSources,
               NEW o \in {"ok", "diagnosed", "threw", "failed", "no_program"}, HLSL2SpirV(p, o)
        PROVE  VectorFollowsSource'
    BY <2>1 DEF HLSL2SpirV
  <2>2. ASSUME NEW p, NEW o, GLSL2SpirV(p, o)
        PROVE  VectorFollowsSource'
    BY <2>2 DEF GLSL2SpirV, Compiled
  <2>3. ASSUME UNCHANGED <<spirv, asked>>
        PROVE  VectorFollowsSource'
    BY <2>3
  <2>4. CASE TakeResult
    BY <2>4 DEF TakeResult
  <2>5. QED
    BY <2>1, <2>2, <2>3, <2>4 DEF Next, vars, SpirV2GLSL, NewRename, FillingUBOInstName,
       RenameSampledImages, GetResultClean, GetResultDirty, GetResultThrows
<1>3. QED BY <1>1, <1>2, PTL DEF Spec

-----------------------------------------------------------------------------
\* Sequences of images and of buffers.
IsSeq(f) == \E S : f \in Seq(S)

LEMMA SeqIsMap ==
  ASSUME NEW f, IsSeq(f)
  PROVE  /\ Len(f) \in Nat /\ DOMAIN f = 1..Len(f)
         /\ f = [i \in 1..Len(f) |-> f[i]]
<1>1. PICK S : f \in Seq(S)  BY DEF IsSeq
<1>2. QED  BY <1>1

LEMMA MapIsSeq ==
  ASSUME NEW n \in Nat, NEW f, f = [i \in 1..n |-> f[i]]
  PROVE  IsSeq(f) /\ Len(f) = n /\ DOMAIN f = 1..n
<1> DEFINE S == {f[i] : i \in 1..n}
<1>1. f \in [1..n -> S]  OBVIOUS
<1> HIDE DEF S
<1>2. f \in Seq(S)  BY <1>1
<1>3. QED  BY <1>1, <1>2 DEF IsSeq

LEMMA SeqOfSet ==
  ASSUME NEW S, NEW n \in Nat, NEW f \in [1..n -> S]
  PROVE  f \in Seq(S) /\ Len(f) = n
  OBVIOUS

BufferNames == UBONames \cup {"nothing"}

\* A program that came from the sources by translations and renamings.
Program(p) ==
    /\ p = [images |-> p.images, separate |-> p.separate, ubos |-> p.ubos]
    /\ IsSeq(p.images) /\ Len(p.images) <= MaxImages
    /\ p.separate \in Nat
    /\ p.ubos \in Seq(BufferNames)

\* Its images can be combined.
Whole(p) == Program(p) /\ Len(p.images) + p.separate <= MaxImages

LEMMA NothingIsWhole == Whole(Nothing)
<1>1. <<>> \in Seq(STRING) /\ Len(<<>>) = 0  OBVIOUS
<1>2. <<"nothing">> \in Seq(BufferNames)  BY DEF BufferNames
<1>3. QED  BY <1>1, <1>2, NamesAssumption DEF Whole, Program, Nothing, IsSeq

LEMMA SourceIsWhole ==
  ASSUME NEW p \in Sources
  PROVE  Whole(p)
<1>1. p \in [images : Seq(STRING), separate : Nat, ubos : Seq(UBONames)]
  BY SourcesAssumption
<1>2. p.images \in Seq(STRING) /\ p.separate \in Nat /\ p.ubos \in Seq(UBONames)
      /\ p = [images |-> p.images, separate |-> p.separate, ubos |-> p.ubos]
  BY <1>1
<1>3. p.ubos \in Seq(BufferNames)  BY <1>2 DEF BufferNames
<1>4. Len(p.images) + p.separate <= MaxImages /\ Len(p.images) \in Nat
  BY <1>2, SourcesAssumption
<1>5. QED  BY <1>2, <1>3, <1>4, NamesAssumption DEF Whole, Program, IsSeq

-----------------------------------------------------------------------------
\* What combining adds.
LEMMA CombinedImages ==
  ASSUME NEW p, Program(p)
  PROVE  /\ Combined(p) = [images |-> Combined(p).images, separate |-> p.separate,
                           ubos |-> p.ubos]
         /\ IsSeq(Combined(p).images)
         /\ Len(Combined(p).images) = Len(p.images) + p.separate
         /\ \A i \in 1..Len(p.images) : Combined(p).images[i] = p.images[i]
         /\ \A i \in (Len(p.images) + 1)..(Len(p.images) + p.separate) :
               Combined(p).images[i] = Unnamed
<1> DEFINE more == [i \in 1..p.separate |-> Unnamed]
<1>1. Combined(p) = [images |-> p.images \o more, separate |-> p.separate, ubos |-> p.ubos]
  <2>1. p = [images |-> p.images, separate |-> p.separate, ubos |-> p.ubos]  BY DEF Program
  <2>2. Combined(p) = [p EXCEPT !.images = p.images \o more]  BY DEF Combined
  <2> HIDE DEF more
  <2>3. QED  BY <2>1, <2>2
<1>2. PICK S : p.images \in Seq(S)  BY DEF Program, IsSeq
<1> DEFINE All == S \cup {Unnamed}
<1>3. p.images \in Seq(All)  BY <1>2
<1>4. more \in Seq(All) /\ Len(more) = p.separate
  <2>1. more \in [1..p.separate -> All]  OBVIOUS
  <2> HIDE DEF All, more
  <2>2. QED  BY <2>1, SeqOfSet DEF Program
<1>5. \A i \in 1..p.separate : more[i] = Unnamed  OBVIOUS
<1> HIDE DEF All, more
<1>6. /\ p.images \o more \in Seq(All) /\ Len(p.images) \in Nat /\ p.separate \in Nat
      /\ Len(p.images \o more) = Len(p.images) + p.separate
      /\ \A i \in 1..Len(p.images) : (p.images \o more)[i] = p.images[i]
      /\ \A i \in (Len(p.images) + 1)..(Len(p.images) + p.separate) :
            (p.images \o more)[i] = more[i - Len(p.images)]
  BY <1>3, <1>4 DEF Program
<1>7. IsSeq(p.images \o more)  BY <1>6 DEF IsSeq
<1>8. ASSUME NEW i \in (Len(p.images) + 1)..(Len(p.images) + p.separate)
      PROVE  (p.images \o more)[i] = Unnamed
  <2>1. i - Len(p.images) \in 1..p.separate  BY <1>6
  <2>2. QED  BY <1>5, <1>6, <2>1
<1>9. QED  BY <1>1, <1>6, <1>7, <1>8

\* The name under which an image is written when it is not taken.
WrittenName(images, i) == IF images[i] = Unnamed THEN FreshName(i) ELSE images[i]

LEMMA RenderedLength ==
  ASSUME NEW images, IsSeq(images)
  PROVE  IsSeq(RenderedImages(images)) /\ Len(RenderedImages(images)) = Len(images)
<1> DEFINE r == RenderedImages(images)
<1>1. Len(images) \in Nat /\ DOMAIN images = 1..Len(images)  BY SeqIsMap
<1>2. r = [i \in 1..Len(images) |-> r[i]]  BY <1>1 DEF RenderedImages
<1> HIDE DEF r
<1>3. IsSeq(r) /\ Len(r) = Len(images)  BY <1>1, <1>2, MapIsSeq
<1>4. QED  BY <1>3 DEF r

\* The place of a suffix: how many images before have the name.
LEMMA DuplicateCount ==
  ASSUME NEW m \in Nat, NEW S, S \subseteq 1..m, S # {}
  PROVE  Cardinality(S) \in Nat \ {0}
<1>1. IsFiniteSet(1..m)
  <2>1. 1 \in Int /\ m \in Int  OBVIOUS
  <2>2. QED  BY <2>1, FS_Interval
<1>2. IsFiniteSet(S)  BY <1>1, FS_Subset
<1>3. Cardinality(S) \in Nat /\ Cardinality(S) # 0  BY <1>2, FS_CardinalityType, FS_EmptySet
<1>4. QED  BY <1>3

LEMMA RenderedName ==
  ASSUME NEW images, IsSeq(images), NEW i \in 1..Len(images)
  PROVE  \/ RenderedImages(images)[i] = WrittenName(images, i)
         \/ /\ \E j \in 1..(i - 1) : WrittenName(images, j) = WrittenName(images, i)
            /\ \E k \in Nat \ {0} :
                  RenderedImages(images)[i] = Suffixed(WrittenName(images, i), k)
<1>1. Len(images) \in Nat /\ DOMAIN images = 1..Len(images)  BY SeqIsMap
<1> DEFINE Before == {j \in 1..(i - 1) : WrittenName(images, j) = WrittenName(images, i)}
<1>2. Before = {j \in 1..(i - 1) :
                   [l \in DOMAIN images |-> WrittenName(images, l)][j]
                   = [l \in DOMAIN images |-> WrittenName(images, l)][i]}
  BY <1>1
<1>3. RenderedImages(images)[i]
      = IF Before = {} THEN WrittenName(images, i)
        ELSE Suffixed(WrittenName(images, i), Cardinality(Before))
  BY <1>1, <1>2 DEF RenderedImages, WrittenName
<1>4. CASE Before = {}  BY <1>3, <1>4
<1>5. CASE Before # {}
  <2>1. i - 1 \in Nat  BY <1>1
  <2>2. Before \subseteq 1..(i - 1)  OBVIOUS
  <2>3. \E j \in 1..(i - 1) : WrittenName(images, j) = WrittenName(images, i)  BY <1>5
  <2> HIDE DEF Before
  <2>4. Cardinality(Before) \in Nat \ {0}  BY <1>5, <2>1, <2>2, DuplicateCount
  <2>5. QED  BY <1>3, <1>5, <2>3, <2>4
<1>6. QED  BY <1>4, <1>5

\* SPIRV-Cross keeps the first names as they are when they are distinct names.
LEMMA RenderedDistinct ==
  ASSUME NEW images, IsSeq(images), NEW n \in Nat, n <= Len(images),
         \A i \in 1..n : images[i] # Unnamed,
         \A i, j \in 1..n : images[i] = images[j] => i = j
  PROVE  \A i \in 1..n : RenderedImages(images)[i] = images[i]
<1>1. Len(images) \in Nat /\ DOMAIN images = 1..Len(images)  BY SeqIsMap
<1> SUFFICES ASSUME NEW i \in 1..n PROVE RenderedImages(images)[i] = images[i]
  OBVIOUS
<1>2. i \in 1..Len(images)  BY <1>1
<1>3. \A j \in 1..i : WrittenName(images, j) = images[j]  BY DEF WrittenName
<1>4. ~\E j \in 1..(i - 1) : WrittenName(images, j) = WrittenName(images, i)
  <2> SUFFICES ASSUME NEW j \in 1..(i - 1), WrittenName(images, j) = WrittenName(images, i)
               PROVE  FALSE
    OBVIOUS
  <2>1. j \in 1..n /\ j \in 1..i /\ i \in 1..i /\ j # i  OBVIOUS
  <2>2. images[j] = images[i]  BY <1>3, <2>1
  <2>3. QED  BY <2>1, <2>2
<1>5. RenderedImages(images)[i] = WrittenName(images, i)  BY <1>2, <1>4, RenderedName
<1>6. QED  BY <1>3, <1>5

\* SPIRV-Cross writes no buffer without a name.
LEMMA RenderedBuffers ==
  ASSUME NEW p, p.ubos \in Seq(BufferNames)
  PROVE  /\ Render(p).ubos \in Seq(BufferNames)
         /\ \A i \in DOMAIN Render(p).ubos : Render(p).ubos[i] # "none_UBO"
<1> DEFINE n == Len(p.ubos)
           u == Render(p).ubos
<1>1. n \in Nat /\ DOMAIN p.ubos = 1..n /\ \A i \in 1..n : p.ubos[i] \in BufferNames
  OBVIOUS
<1>2. u = [i \in 1..n |-> IF p.ubos[i] \in {"none_UBO", "none_other"} THEN "_id" ELSE p.ubos[i]]
  BY <1>1 DEF Render
<1> HIDE DEF u, n
<1>3. \A i \in 1..n : u[i] \in BufferNames /\ u[i] # "none_UBO"
  BY <1>1, <1>2 DEF UBONames, BufferNames
<1>4. u \in [1..n -> BufferNames]  BY <1>2, <1>3
<1>5. u \in Seq(BufferNames)  BY <1>1, <1>4, SeqOfSet
<1>6. \A i \in DOMAIN u : u[i] # "none_UBO"  BY <1>2, <1>3
<1>7. QED  BY <1>5, <1>6 DEF u

LEMMA RenderIsWhole ==
  ASSUME NEW p, Program(p)
  PROVE  Whole(Render(p)) /\ Render(p).images = RenderedImages(p.images)
<1>1. Render(p) = [images |-> RenderedImages(p.images), separate |-> 0,
                   ubos |-> Render(p).ubos]
  BY DEF Render
<1>2. IsSeq(RenderedImages(p.images)) /\ Len(RenderedImages(p.images)) = Len(p.images)
  BY RenderedLength DEF Program
<1>3. Len(p.images) \in Nat /\ Len(p.images) <= MaxImages  BY SeqIsMap DEF Program
<1>4. Render(p).ubos \in Seq(BufferNames)  BY RenderedBuffers DEF Program
<1>5. QED  BY <1>1, <1>2, <1>3, <1>4, NamesAssumption DEF Whole, Program

LEMMA CombinedIsProgram ==
  ASSUME NEW p, Program(p), Len(Combined(p).images) <= MaxImages
  PROVE  Program(Combined(p))
  BY CombinedImages DEF Program

\* Naming buffers keeps how they can be named, leaves none of UBO_* without a name,
\* and leaves alone what it named.
LEMMA NamedUBOsType ==
  ASSUME NEW ubos \in Seq(BufferNames)
  PROVE  /\ NamedUBOs(ubos) \in Seq(BufferNames)
         /\ \A i \in DOMAIN NamedUBOs(ubos) : NamedUBOs(ubos)[i] # "none_UBO"
         /\ NamedUBOs(NamedUBOs(ubos)) = NamedUBOs(ubos)
<1>1. /\ Len(ubos) \in Nat /\ DOMAIN ubos = 1..Len(ubos)
      /\ \A i \in 1..Len(ubos) : ubos[i] \in BufferNames
  OBVIOUS
<1> DEFINE n == NamedUBOs(ubos)
<1>2. /\ DOMAIN n = 1..Len(ubos)
      /\ \A i \in 1..Len(ubos) : n[i] = IF ubos[i] = "none_UBO" THEN "u_block" ELSE ubos[i]
  BY <1>1 DEF NamedUBOs
<1>3. n \in [1..Len(ubos) -> BufferNames]
  <2>1. \A i \in 1..Len(ubos) : n[i] \in BufferNames  BY <1>1, <1>2 DEF UBONames, BufferNames
  <2>2. n = [i \in 1..Len(ubos) |-> n[i]]  BY <1>1 DEF NamedUBOs
  <2>3. QED  BY <2>1, <2>2
<1>4. n \in Seq(BufferNames)
  <2> HIDE DEF n
  <2>1. QED  BY <1>1, <1>3, SeqOfSet
<1>5. \A i \in 1..Len(ubos) : n[i] # "none_UBO"  BY <1>2
<1>6. NamedUBOs(n) = n
  <2>1. n = [i \in 1..Len(ubos) |-> n[i]]  BY <1>3
  <2>2. NamedUBOs(n) = [i \in 1..Len(ubos) |-> IF n[i] = "none_UBO" THEN "u_block" ELSE n[i]]
    BY <1>2 DEF NamedUBOs
  <2>3. QED  BY <1>5, <2>1, <2>2
<1>7. QED  BY <1>2, <1>4, <1>5, <1>6

-----------------------------------------------------------------------------
\* The name that a renamer now has for an image of the vector.
NewName(r, i) ==
    IF "images" \in r.steps /\ IsTemporaryName(r.of.images[i])
    THEN TextureName(i - 1) ELSE r.of.images[i]

\* A name differs from the one that was found.
Renamed(r) ==
    \/ r.compiler.ubos # r.of.ubos
    \/ \E i \in 1..Len(r.of.images) : r.compiler.images[i] # r.of.images[i]

\* A renamer has the buffers and, first, the images of the vector it was made of,
\* under the names that its steps give; images after those are combined ones of a
\* vector with separate images, and have no name; and it is dirty exactly when a name
\* differs.
IsRenamer(r) ==
    /\ r = [compiler |-> r.compiler, dirty |-> r.dirty, of |-> r.of, steps |-> r.steps]
    /\ Program(r.compiler) /\ Whole(r.of) /\ r.steps \subseteq {"ubos", "images"}
    /\ r.compiler.separate = r.of.separate
    /\ r.compiler.ubos = IF "ubos" \in r.steps THEN NamedUBOs(r.of.ubos) ELSE r.of.ubos
    /\ Len(r.of.images) <= Len(r.compiler.images)
    /\ \A i \in 1..Len(r.of.images) : r.compiler.images[i] = NewName(r, i)
    /\ \A i \in (Len(r.of.images) + 1)..Len(r.compiler.images) :
          r.compiler.images[i] = Unnamed /\ r.of.separate > 0
    /\ r.dirty = Renamed(r)

\* What GetResult answers of an unchanged vector has the vector's images first, as
\* reflection reports them when the names are distinct, and its buffers named.
IsAnswer(a) ==
    /\ Whole(a.program) /\ Whole(a.of)
    /\ (a.program # Nothing /\ ~a.overwritten) =>
          /\ Len(a.of.images) <= Len(a.program.images)
          /\ ("images" \in a.steps /\ Distinct(Reflected(a.of.images))
              /\ \A i \in 1..Len(a.of.images) : Reflected(a.of.images)[i] # Unnamed) =>
                \A i \in 1..Len(a.of.images) : a.program.images[i] = Reflected(a.of.images)[i]
          /\ \A i \in (Len(a.of.images) + 1)..Len(a.program.images) : a.of.separate > 0
          /\ "ubos" \in a.steps =>
                \A i \in DOMAIN a.program.ubos : a.program.ubos[i] # "none_UBO"

Inv ==
    /\ Whole(spirv) /\ Whole(glsl) /\ Whole(asked)
    /\ IsRenamer(renamer) /\ IsAnswer(result)

LEMMA NewRenamer ==
  ASSUME NEW p, Whole(p)
  PROVE  IsRenamer([compiler |-> p, dirty |-> FALSE, of |-> p, steps |-> {}])
<1> DEFINE r == [compiler |-> p, dirty |-> FALSE, of |-> p, steps |-> {}]
<1>1. Program(p) /\ Len(p.images) \in Nat  BY SeqIsMap DEF Whole, Program
<1>2. /\ Renamed(r) = FALSE
      /\ \A i \in 1..Len(p.images) : NewName(r, i) = p.images[i]
  BY DEF Renamed, NewName
<1>3. /\ r.compiler = p /\ r.dirty = FALSE /\ r.of = p /\ r.steps = {}
      /\ r = [compiler |-> r.compiler, dirty |-> r.dirty, of |-> r.of, steps |-> r.steps]
  OBVIOUS
<1> HIDE DEF r
<1>4. /\ Len(p.images) <= Len(p.images)
      /\ \A i \in (Len(p.images) + 1)..Len(p.images) : FALSE
  BY <1>1
<1>5. /\ r.compiler.ubos = IF "ubos" \in r.steps THEN NamedUBOs(r.of.ubos) ELSE r.of.ubos
      /\ r.steps \subseteq {"ubos", "images"} /\ r.dirty = Renamed(r)
  BY <1>2, <1>3
<1>6. IsRenamer(r)  BY <1>1, <1>2, <1>3, <1>4, <1>5 DEF IsRenamer
<1>7. QED  BY <1>6 DEF r

LEMMA InitInv == Init => Inv
<1> SUFFICES ASSUME Init PROVE Inv  OBVIOUS
<1>1. IsRenamer(renamer)  BY NewRenamer, NothingIsWhole DEF Init, NoRenamer
<1>2. IsAnswer(result)  BY NothingIsWhole DEF Init, NoResult, IsAnswer
<1>3. QED  BY <1>1, <1>2, NothingIsWhole DEF Init, Inv

\* FillingUBOInstName on a renamer.
LEMMA BuffersRenamed ==
  ASSUME NEW r, IsRenamer(r)
  PROVE  LET named == NamedUBOs(r.compiler.ubos)
         IN  IsRenamer([r EXCEPT !.compiler.ubos = named,
                                 !.dirty = @ \/ r.compiler.ubos # named,
                                 !.steps = @ \cup {"ubos"}])
<1> DEFINE named == NamedUBOs(r.compiler.ubos)
           compiler == [images |-> r.compiler.images, separate |-> r.compiler.separate,
                        ubos |-> named]
           dirty == r.dirty \/ r.compiler.ubos # named
           s == [compiler |-> compiler, dirty |-> dirty, of |-> r.of,
                 steps |-> r.steps \cup {"ubos"}]
<1>1. [r EXCEPT !.compiler.ubos = named, !.dirty = @ \/ r.compiler.ubos # named,
                !.steps = @ \cup {"ubos"}] = s
  <2>1. /\ r = [compiler |-> r.compiler, dirty |-> r.dirty, of |-> r.of, steps |-> r.steps]
        /\ r.compiler = [images |-> r.compiler.images, separate |-> r.compiler.separate,
                         ubos |-> r.compiler.ubos]
    BY DEF IsRenamer, Program
  <2> DEFINE steps == r.steps \cup {"ubos"}
             q == [compiler |-> compiler, dirty |-> r.dirty, of |-> r.of, steps |-> r.steps]
             d == [compiler |-> compiler, dirty |-> dirty, of |-> r.of, steps |-> r.steps]
  <2> HIDE DEF named, dirty, steps
  <2>2. [r.compiler EXCEPT !.ubos = named] = compiler  BY <2>1
  <2>3. [r EXCEPT !.compiler.ubos = named] = q  BY <2>1, <2>2
  <2> HIDE DEF compiler
  <2>4. [r EXCEPT !.compiler.ubos = named, !.dirty = dirty, !.steps = steps]
        = [[[r EXCEPT !.compiler.ubos = named] EXCEPT !.dirty = dirty] EXCEPT !.steps = steps]
    BY <2>1
  <2>5. [q EXCEPT !.dirty = dirty] = d  OBVIOUS
  <2>6. [d EXCEPT !.steps = steps] = s  BY DEF steps
  <2> HIDE DEF q, d, s
  <2>7. [r EXCEPT !.compiler.ubos = named, !.dirty = dirty, !.steps = steps] = s
    BY <2>3, <2>4, <2>5, <2>6
  <2>8. QED  BY <2>7 DEF dirty, steps
<1>2. /\ r.compiler.ubos \in Seq(BufferNames) /\ r.of.ubos \in Seq(BufferNames)
      /\ named \in Seq(BufferNames)
  BY NamedUBOsType DEF IsRenamer, Program, Whole
<1>3. named = NamedUBOs(r.of.ubos)  BY <1>2, NamedUBOsType DEF IsRenamer
<1>4. Program(compiler)  BY <1>2 DEF IsRenamer, Program
<1>5. \A i \in 1..Len(r.of.images) : NewName(s, i) = NewName(r, i)  BY DEF NewName
<1>6. dirty = Renamed(s)
  <2>1. r.dirty = Renamed(r)  BY DEF IsRenamer
  <2>2. r.compiler.ubos = r.of.ubos \/ r.compiler.ubos = named  BY <1>3 DEF IsRenamer
  <2>3. Renamed(s) <=> \/ named # r.of.ubos
                       \/ \E i \in 1..Len(r.of.images) : r.compiler.images[i] # r.of.images[i]
    BY DEF Renamed
  <2> HIDE DEF named
  <2>4. QED  BY <2>1, <2>2, <2>3 DEF Renamed
<1>7. IsRenamer(s)  BY <1>3, <1>4, <1>5, <1>6 DEF IsRenamer
<1>8. QED  BY <1>1, <1>7

\* RenameSampledImages on a renamer.
LEMMA ImagesRenamed ==
  ASSUME NEW r, IsRenamer(r)
  PROVE  LET named == NamedImages(r.compiler.images)
         IN  IsRenamer([r EXCEPT !.compiler.images = named,
                                 !.dirty = @ \/ r.compiler.images # named,
                                 !.steps = @ \cup {"images"}])
<1> DEFINE images == r.compiler.images
           named == NamedImages(images)
           n == Len(r.of.images)
           compiler == [images |-> named, separate |-> r.compiler.separate,
                        ubos |-> r.compiler.ubos]
           dirty == r.dirty \/ images # named
           s == [compiler |-> compiler, dirty |-> dirty, of |-> r.of,
                 steps |-> r.steps \cup {"images"}]
<1>1. [r EXCEPT !.compiler.images = named, !.dirty = @ \/ r.compiler.images # named,
                !.steps = @ \cup {"images"}] = s
  <2>1. /\ r = [compiler |-> r.compiler, dirty |-> r.dirty, of |-> r.of, steps |-> r.steps]
        /\ r.compiler = [images |-> r.compiler.images, separate |-> r.compiler.separate,
                         ubos |-> r.compiler.ubos]
    BY DEF IsRenamer, Program
  <2> DEFINE steps == r.steps \cup {"images"}
             q == [compiler |-> compiler, dirty |-> r.dirty, of |-> r.of, steps |-> r.steps]
             d == [compiler |-> compiler, dirty |-> dirty, of |-> r.of, steps |-> r.steps]
  <2> HIDE DEF named, dirty, steps
  <2>2. [r.compiler EXCEPT !.images = named] = compiler  BY <2>1
  <2>3. [r EXCEPT !.compiler.images = named] = q  BY <2>1, <2>2
  <2> HIDE DEF compiler
  <2>4. [r EXCEPT !.compiler.images = named, !.dirty = dirty, !.steps = steps]
        = [[[r EXCEPT !.compiler.images = named] EXCEPT !.dirty = dirty] EXCEPT !.steps = steps]
    BY <2>1
  <2>5. [q EXCEPT !.dirty = dirty] = d  OBVIOUS
  <2>6. [d EXCEPT !.steps = steps] = s  BY DEF steps
  <2> HIDE DEF q, d, s
  <2>7. [r EXCEPT !.compiler.images = named, !.dirty = dirty, !.steps = steps] = s
    BY <2>3, <2>4, <2>5, <2>6
  <2>8. QED  BY <2>7 DEF dirty, steps
<1>2. /\ IsSeq(images) /\ Len(images) \in Nat /\ DOMAIN images = 1..Len(images)
      /\ images = [i \in 1..Len(images) |-> images[i]]
      /\ Len(images) <= MaxImages /\ n \in Nat /\ n <= Len(images) /\ MaxImages \in Nat
  BY SeqIsMap, NamesAssumption DEF IsRenamer, Program, Whole
<1>3. /\ named = [i \in 1..Len(images) |-> named[i]]
      /\ \A i \in 1..Len(images) :
            named[i] = IF IsTemporaryName(images[i]) THEN TextureName(i - 1) ELSE images[i]
  BY <1>2 DEF NamedImages
<1>4. IsSeq(named) /\ Len(named) = Len(images)
  <2> HIDE DEF named, images
  <2>1. QED  BY <1>2, <1>3, MapIsSeq
<1>5. \A i \in 1..Len(images) : ~IsTemporaryName(TextureName(i - 1))
  BY <1>2, NamesAssumption DEF IsTemporaryName
<1>6. ~IsTemporaryName(Unnamed)  BY NamesAssumption DEF IsTemporaryName
<1>7. /\ \A i \in 1..n : i \in 1..Len(images) /\ images[i] = NewName(r, i)
      /\ \A i \in (n + 1)..Len(images) :
            i \in 1..Len(images) /\ images[i] = Unnamed /\ r.of.separate > 0
  BY <1>2 DEF IsRenamer
<1>7a. \A i \in 1..n : named[i] = NewName(s, i)
  <2> HIDE DEF named, images
  <2>1. QED  BY <1>3, <1>5, <1>7 DEF NewName
<1>8. \A i \in (n + 1)..Len(images) : named[i] = Unnamed /\ images[i] = Unnamed
  <2> HIDE DEF named, images
  <2>1. QED  BY <1>3, <1>6, <1>7
<1>9. dirty = Renamed(s)
  <2>1. r.dirty = Renamed(r)  BY DEF IsRenamer
  <2>2. Renamed(s) <=> \/ r.compiler.ubos # r.of.ubos
                       \/ \E i \in 1..n : named[i] # r.of.images[i]
    BY DEF Renamed
  <2>3. ASSUME NEW i \in 1..n, images[i] # r.of.images[i]
        PROVE  named[i] # r.of.images[i]
    <3> HIDE DEF named, images
    <3>1. QED  BY <1>3, <1>5, <1>7, <2>3 DEF NewName
  <2>4. ASSUME images # named  PROVE \E i \in 1..n : named[i] # r.of.images[i]
    <3>1. PICK i \in 1..Len(images) : images[i] # named[i]  BY <1>2, <1>3, <2>4
    <3>2. i \in 1..n  BY <1>2, <1>8, <3>1
    <3>3. IsTemporaryName(images[i]) /\ named[i] = TextureName(i - 1)  BY <1>3, <3>1
    <3>4. images[i] = r.of.images[i]
      <4> HIDE DEF named, images
      <4>1. QED  BY <1>5, <1>7, <3>1, <3>2, <3>3 DEF NewName
    <3>5. QED  BY <3>1, <3>2, <3>4
  <2>5. ASSUME images = named
        PROVE  Renamed(r) <=> Renamed(s)
    BY <2>2, <2>5 DEF Renamed
  <2>6. Renamed(r) => Renamed(s)
    <3>1. SUFFICES ASSUME NEW i \in 1..n, images[i] # r.of.images[i]  PROVE Renamed(s)
      BY <2>2 DEF Renamed
    <3>2. named[i] # r.of.images[i]  BY <2>3, <3>1
    <3>3. QED  BY <2>2, <3>2
  <2>7. Renamed(r) \in BOOLEAN /\ Renamed(s) \in BOOLEAN  BY DEF Renamed
  <2> HIDE DEF s, named, images
  <2>8. CASE images = named
    <3>1. Renamed(r) = Renamed(s)  BY <2>5, <2>7, <2>8
    <3>2. dirty = Renamed(r)  BY <2>1, <2>7, <2>8
    <3>3. QED  BY <3>1, <3>2
  <2>9. CASE images # named
    <3>1. Renamed(s)  BY <2>2, <2>4, <2>9
    <3>2. dirty = TRUE /\ Renamed(s) = TRUE  BY <2>7, <2>9, <3>1
    <3>3. QED  BY <3>2
  <2>10. QED  BY <2>8, <2>9
<1>10. Program(compiler)  BY <1>2, <1>4 DEF IsRenamer, Program
<1>11. IsRenamer(s)
  <2> HIDE DEF named
  <2>1. QED  BY <1>2, <1>4, <1>7, <1>7a, <1>8, <1>9, <1>10 DEF IsRenamer
<1>12. QED  BY <1>1, <1>11

\* Combining on a renamer.
LEMMA RenamerCombined ==
  ASSUME NEW r, IsRenamer(r), Len(Combined(r.compiler).images) <= MaxImages
  PROVE  IsRenamer([r EXCEPT !.compiler = Combined(@)])
<1> DEFINE c == Combined(r.compiler)
           s == [compiler |-> c, dirty |-> r.dirty, of |-> r.of, steps |-> r.steps]
<1>1. [r EXCEPT !.compiler = Combined(@)] = s  BY DEF IsRenamer
<1>2. Program(r.compiler)  BY DEF IsRenamer
<1>3. Program(c)  BY <1>2, CombinedIsProgram
<1>4. /\ c.separate = r.compiler.separate /\ c.ubos = r.compiler.ubos
      /\ Len(c.images) = Len(r.compiler.images) + r.compiler.separate
      /\ \A i \in 1..Len(r.compiler.images) : c.images[i] = r.compiler.images[i]
      /\ \A i \in (Len(r.compiler.images) + 1)..(Len(r.compiler.images) + r.compiler.separate) :
            c.images[i] = Unnamed
  <2>1. c = [images |-> c.images, separate |-> r.compiler.separate, ubos |-> r.compiler.ubos]
    BY <1>2, CombinedImages
  <2>2. c.separate = r.compiler.separate /\ c.ubos = r.compiler.ubos
    <3> HIDE DEF c
    <3>1. QED  BY <2>1
  <2>3. QED  BY <1>2, <2>2, CombinedImages
<1>5. /\ Len(r.compiler.images) \in Nat /\ r.compiler.separate \in Nat
      /\ Len(r.of.images) \in Nat /\ Len(r.of.images) <= Len(r.compiler.images)
  BY <1>2, SeqIsMap DEF IsRenamer, Program, Whole
<1> HIDE DEF c
<1>6. \A i \in 1..Len(r.of.images) :
         c.images[i] = r.compiler.images[i] /\ NewName(s, i) = NewName(r, i)
  BY <1>4, <1>5 DEF NewName
<1>7. ASSUME NEW i \in (Len(r.of.images) + 1)..Len(c.images)
      PROVE  c.images[i] = Unnamed /\ r.of.separate > 0
  <2>1. CASE i \in 1..Len(r.compiler.images)
    <3>1. i \in (Len(r.of.images) + 1)..Len(r.compiler.images)  BY <1>5, <2>1
    <3>2. QED  BY <1>4, <2>1, <3>1 DEF IsRenamer
  <2>2. CASE i \notin 1..Len(r.compiler.images)
    <3>1. i \in (Len(r.compiler.images) + 1)..(Len(r.compiler.images) + r.compiler.separate)
      BY <1>4, <1>5, <2>2
    <3>2. r.compiler.separate > 0  BY <1>5, <3>1
    <3>3. QED  BY <1>4, <3>1, <3>2 DEF IsRenamer
  <2>3. QED  BY <2>1, <2>2
<1>8. Renamed(s) = Renamed(r)  BY <1>4, <1>6 DEF Renamed
<1>9. Len(r.of.images) <= Len(c.images)  BY <1>4, <1>5
<1>10. /\ s.compiler = c /\ s.dirty = r.dirty /\ s.of = r.of /\ s.steps = r.steps
       /\ s = [compiler |-> s.compiler, dirty |-> s.dirty, of |-> s.of, steps |-> s.steps]
  OBVIOUS
<1> HIDE DEF s
<1>11. IsRenamer(s)  BY <1>3, <1>4, <1>6, <1>7, <1>8, <1>9, <1>10 DEF IsRenamer
<1>12. QED  BY <1>1, <1>11

\* The names reported are those that the renamer gives.
LEMMA ReportedNames ==
  ASSUME NEW r, IsRenamer(r)
  PROVE  /\ DOMAIN Reflected(r.of.images) = 1..Len(r.of.images)
         /\ "images" \in r.steps =>
               \A i \in 1..Len(r.of.images) : r.compiler.images[i] = Reflected(r.of.images)[i]
<1>1. DOMAIN r.of.images = 1..Len(r.of.images)  BY SeqIsMap DEF IsRenamer, Whole, Program
<1>2. QED  BY <1>1 DEF IsRenamer, NewName, Reflected

\* What a clean renamer answers.
LEMMA CleanAnswers ==
  ASSUME Inv, GetResultClean
  PROVE  IsAnswer(result')
<1> DEFINE r == renamer
<1>1. /\ IsRenamer(r) /\ Whole(spirv) /\ ~r.dirty
      /\ result' = [program |-> spirv, of |-> r.of, steps |-> r.steps,
                    overwritten |-> spirv # r.of]
  BY DEF Inv, GetResultClean, Answered
<1>2. Whole(r.of) /\ Len(r.of.images) \in Nat
  BY <1>1, SeqIsMap DEF IsRenamer, Whole, Program
<1>3. /\ r.compiler.ubos = r.of.ubos
      /\ \A i \in 1..Len(r.of.images) : r.compiler.images[i] = r.of.images[i]
  BY <1>1 DEF IsRenamer, Renamed
<1>4. "ubos" \in r.steps => \A i \in DOMAIN r.of.ubos : r.of.ubos[i] # "none_UBO"
  BY <1>1, <1>2, <1>3, NamedUBOsType DEF IsRenamer, Whole, Program
<1>5. "images" \in r.steps =>
         \A i \in 1..Len(r.of.images) : r.of.images[i] = Reflected(r.of.images)[i]
  BY <1>1, <1>3, ReportedNames
<1>6. /\ result'.program = spirv /\ result'.of = r.of /\ result'.steps = r.steps
      /\ result'.overwritten = (spirv # r.of)
  BY <1>1
<1> HIDE DEF r
<1>7. CASE spirv # r.of  BY <1>1, <1>2, <1>6, <1>7 DEF IsAnswer
<1>8. CASE spirv = r.of  BY <1>1, <1>2, <1>4, <1>5, <1>6, <1>8 DEF IsAnswer
<1>9. QED  BY <1>7, <1>8

\* What a dirty renamer answers.
LEMMA DirtyAnswers ==
  ASSUME Inv, NEW o, GetResultDirty(o)
  PROVE  IsRenamer(renamer') /\ IsAnswer(result')
<1> DEFINE r == renamer'
           p == Render(r.compiler)
<1>1. /\ r = [renamer EXCEPT !.compiler = Combined(@)]
      /\ Len(Combined(renamer.compiler).images) <= MaxImages
      /\ result' = [program |-> Compiled(Render(r.compiler), o), of |-> renamer.of,
                    steps |-> renamer.steps, overwritten |-> spirv # renamer.of]
  BY DEF Inv, IsRenamer, GetResultDirty, Written, Answered
<1>2. IsRenamer(r) /\ r.of = renamer.of /\ r.steps = renamer.steps
  BY <1>1, RenamerCombined DEF Inv, IsRenamer
<1>3. /\ Whole(p) /\ p.images = RenderedImages(r.compiler.images)
      /\ Program(r.compiler) /\ Whole(r.of)
  BY <1>2, RenderIsWhole DEF IsRenamer
<1>4. /\ Len(r.of.images) \in Nat /\ IsSeq(r.compiler.images)
      /\ Len(r.of.images) <= Len(r.compiler.images)
      /\ Len(p.images) = Len(r.compiler.images)
  BY <1>2, <1>3, SeqIsMap, RenderedLength DEF IsRenamer, Program, Whole
<1>5. \A i \in DOMAIN p.ubos : p.ubos[i] # "none_UBO"
  BY <1>3, RenderedBuffers DEF Program
<1>6. ASSUME "images" \in r.steps, Distinct(Reflected(r.of.images)),
             \A i \in 1..Len(r.of.images) : Reflected(r.of.images)[i] # Unnamed
      PROVE  \A i \in 1..Len(r.of.images) : p.images[i] = Reflected(r.of.images)[i]
  <2>1. /\ DOMAIN Reflected(r.of.images) = 1..Len(r.of.images)
        /\ \A i \in 1..Len(r.of.images) : r.compiler.images[i] = Reflected(r.of.images)[i]
    BY <1>2, <1>6, ReportedNames
  <2>2. \A i, j \in 1..Len(r.of.images) : r.compiler.images[i] = r.compiler.images[j] => i = j
    BY <1>6, <2>1 DEF Distinct
  <2>3. \A i \in 1..Len(r.of.images) :
           RenderedImages(r.compiler.images)[i] = r.compiler.images[i]
    <3> DEFINE images == r.compiler.images
               n == Len(r.of.images)
    <3>1. /\ IsSeq(images) /\ n \in Nat /\ n <= Len(images)
          /\ \A i \in 1..n : images[i] # Unnamed
          /\ \A i, j \in 1..n : images[i] = images[j] => i = j
      BY <1>4, <1>6, <2>1, <2>2
    <3> HIDE DEF images, n
    <3>2. \A i \in 1..n : RenderedImages(images)[i] = images[i]  BY <3>1, RenderedDistinct
    <3>3. QED  BY <3>2 DEF images, n
  <2>4. QED  BY <1>3, <2>1, <2>3
<1>7. \A i \in (Len(r.of.images) + 1)..Len(p.images) : r.of.separate > 0
  BY <1>2, <1>4 DEF IsRenamer
<1>8. result'.program \in {p, Nothing}  BY <1>1 DEF Compiled
<1> HIDE DEF p, r
<1>9. /\ result'.of = r.of /\ result'.steps = r.steps
      /\ Whole(result'.program) /\ Whole(result'.of)
      /\ result'.program # Nothing => result'.program = p
  BY <1>1, <1>2, <1>3, <1>8, NothingIsWhole
<1>10. IsAnswer(result')
  BY <1>4, <1>5, <1>6, <1>7, <1>9 DEF IsAnswer
<1>11. QED  BY <1>2, <1>10 DEF r

\* The translators write programs into the vector and the string.
LEMMA TranslatorsInv ==
  ASSUME Inv, Whole(spirv'), Whole(glsl'), Whole(asked'), UNCHANGED <<renamer, result>>
  PROVE  Inv'
  BY DEF Inv

LEMMA NextInv == Inv /\ [Next]_vars => Inv'
<1> SUFFICES ASSUME Inv, [Next]_vars PROVE Inv'
  OBVIOUS
<1>0. /\ Whole(spirv) /\ Whole(glsl) /\ Whole(asked) /\ Whole(result.program) /\ Whole(Nothing)
      /\ IsRenamer(renamer) /\ IsAnswer(result)
  BY NothingIsWhole DEF Inv, IsAnswer
<1>1. ASSUME NEW p \in HLSLSources,
             NEW o \in {"ok", "diagnosed", "threw", "failed", "no_program"}, HLSL2SpirV(p, o)
      PROVE  Inv'
  BY <1>0, <1>1, SourceIsWhole, TranslatorsInv DEF HLSL2SpirV, Sources
<1>2. ASSUME NEW p \in GLSLSources \cup {glsl}, NEW o, GLSL2SpirV(p, o)
      PROVE  Inv'
  BY <1>0, <1>2, SourceIsWhole, TranslatorsInv DEF GLSL2SpirV, Compiled, Sources
<1>3. CASE SpirV2GLSL
  <2>1. Program(spirv) /\ Len(Combined(spirv).images) <= MaxImages
    BY <1>0, CombinedImages DEF Whole
  <2>2. Whole(Render(Combined(spirv)))  BY <2>1, CombinedIsProgram, RenderIsWhole
  <2>3. QED  BY <1>0, <1>3, <2>2, TranslatorsInv DEF SpirV2GLSL
<1>4. CASE NewRename
  BY <1>0, <1>4, NewRenamer DEF NewRename, Inv
<1>5. CASE FillingUBOInstName
  BY <1>0, <1>5, BuffersRenamed DEF FillingUBOInstName, Inv
<1>6. CASE RenameSampledImages
  BY <1>0, <1>6, ImagesRenamed DEF RenameSampledImages, Inv
<1>7. CASE GetResultClean
  BY <1>0, <1>7, CleanAnswers DEF GetResultClean, Inv
<1>8. ASSUME NEW o \in {"ok", "failed"}, GetResultDirty(o)
      PROVE  Inv'
  BY <1>0, <1>8, DirtyAnswers DEF GetResultDirty, Inv
<1>9. CASE GetResultThrows
  <2>1. /\ renamer' = [renamer EXCEPT !.compiler = Combined(@)]
        /\ Len(Combined(renamer.compiler).images) <= MaxImages
    BY <1>0, <1>9 DEF GetResultThrows, Written, IsRenamer
  <2>2. IsRenamer(renamer')  BY <1>0, <2>1, RenamerCombined
  <2>3. QED  BY <1>0, <1>9, <2>2 DEF GetResultThrows, Inv
<1>10. CASE TakeResult
  BY <1>0, <1>10, TranslatorsInv DEF TakeResult
<1>11. CASE UNCHANGED vars
  BY <1>0, <1>11, TranslatorsInv DEF vars
<1>12. QED
  BY <1>1, <1>2, <1>3, <1>4, <1>5, <1>6, <1>7, <1>8, <1>9, <1>10, <1>11 DEF Next

\* Renaming and reflection name images alike, whatever the renamer did before,
\* whether or not its names went through GLSL, and however many separate images are
\* combined on the way.
THEOREM RenamedAlwaysAsReflected == Spec => []RenamedAsReflected
<1>1. Inv => RenamedAsReflected
  <2> SUFFICES ASSUME Inv PROVE RenamedAsReflected  OBVIOUS
  <2>1. /\ IsAnswer(result) /\ DOMAIN result.of.images = 1..Len(result.of.images)
        /\ DOMAIN result.program.images = 1..Len(result.program.images)
        /\ Len(result.of.images) \in Nat /\ Len(result.program.images) \in Nat
    BY SeqIsMap DEF Inv, IsAnswer, Whole, Program
  <2>2. DOMAIN Reflected(result.of.images) = 1..Len(result.of.images)
    BY <2>1 DEF Reflected
  <2>3. QED  BY <2>1, <2>2 DEF RenamedAsReflected, IsAnswer
<1>2. QED BY InitInv, NextInv, <1>1, PTL DEF Spec

\* A renamer's names of what it found are another program exactly when one differs.
LEMMA FoundDiffers ==
  ASSUME NEW r, IsRenamer(r)
  PROVE  Renamed(r)
         = ([r.compiler EXCEPT !.images = SubSeq(@, 1, Len(r.of.images))] # r.of)
<1> DEFINE n == Len(r.of.images)
           first == SubSeq(r.compiler.images, 1, n)
<1>1. /\ n \in Nat /\ r.of.images = [i \in 1..n |-> r.of.images[i]]
      /\ n <= Len(r.compiler.images) /\ Len(r.compiler.images) \in Nat
      /\ r.compiler.separate = r.of.separate
  BY SeqIsMap DEF IsRenamer, Whole, Program
<1>2. PICK S : r.compiler.images \in Seq(S)  BY DEF IsRenamer, Program, IsSeq
<1>3. /\ first \in Seq(S) /\ Len(first) = n
      /\ \A i \in 1..n : first[i] = r.compiler.images[i]
  BY <1>1, <1>2
<1>4. [r.compiler EXCEPT !.images = SubSeq(@, 1, n)]
      = [images |-> first, separate |-> r.compiler.separate, ubos |-> r.compiler.ubos]
  BY DEF IsRenamer, Program
<1>5. r.of = [images |-> r.of.images, separate |-> r.of.separate, ubos |-> r.of.ubos]
  BY DEF IsRenamer, Whole, Program
<1>6. first = [i \in 1..n |-> first[i]]  BY <1>3
<1> HIDE DEF first, n
<1>7. first = r.of.images <=> \A i \in 1..n : r.compiler.images[i] = r.of.images[i]
  BY <1>1, <1>3, <1>6
<1>8. [images |-> first, separate |-> r.compiler.separate, ubos |-> r.compiler.ubos] = r.of
      <=> first = r.of.images /\ r.compiler.ubos = r.of.ubos
  BY <1>1, <1>5
<1>9. QED  BY <1>4, <1>7, <1>8 DEF Renamed, n

LEMMA ProgramType ==
  ASSUME NEW p, Program(p)
  PROVE  IsProgram(p)
<1>1. DOMAIN p = {"images", "separate", "ubos"}  BY DEF Program
<1>2. QED  BY <1>1, SeqIsMap DEF Program, IsProgram, BufferNames

\* The type invariant: whatever the order of the calls, a renamer is dirty exactly
\* when a name differs from those it found, so that a clean one may answer with the
\* vector.
THEOREM TypeCorrect == Spec => []TypeOK
<1>1. Inv => TypeOK
  <2> SUFFICES ASSUME Inv PROVE TypeOK  OBVIOUS
  <2>1. /\ IsProgram(spirv) /\ IsProgram(glsl) /\ IsProgram(asked)
        /\ IsProgram(result.program) /\ IsProgram(renamer.compiler)
    BY ProgramType DEF Inv, IsAnswer, IsRenamer, Whole
  <2>2. renamer.dirty = (Found # renamer.of)
    <3>1. IsRenamer(renamer)  BY DEF Inv
    <3>2. renamer.dirty = Renamed(renamer)  BY <3>1 DEF IsRenamer
    <3>3. Renamed(renamer) = (Found # renamer.of)  BY <3>1, FoundDiffers DEF Found
    <3>4. QED  BY <3>2, <3>3
  <2>3. QED  BY <2>1, <2>2 DEF TypeOK, Inv, IsRenamer
<1>2. QED  BY InitInv, NextInv, <1>1, PTL DEF Spec

-----------------------------------------------------------------------------
\* Names that are not temporary and stay so: the sources' images have such names,
\* temporary ones or none, the names given to sampled images are such names, and
\* spirv-cross's suffix makes such names of them (it makes temporary names, as _1_2,
\* of temporary ones, and of "_", which is no such name).
NamesKept(Names) ==
    /\ Names \cap (Temporary \cup {Unnamed}) = {}
    /\ \A p \in Sources : \A i \in DOMAIN p.images :
          p.images[i] \in Names \cup Temporary \cup {Unnamed}
    /\ \A i \in 1..MaxImages : TextureName(i - 1) \in Names
    /\ \A n \in Names, k \in Nat \ {0} : Suffixed(n, k) \in Names
    /\ \A n \in Temporary, k \in Nat \ {0} : Suffixed(n, k) \in Names \cup Temporary

\* The images of a program have names of a set.
ImagesIn(p, Names) == \A i \in DOMAIN p.images : p.images[i] \in Names

AnyName(Names) == Names \cup Temporary \cup {Unnamed}

\* An image that GetResult answers has one of the names, unless the vector had it
\* without a name or it was combined.
AnswerNamed(a, Names) ==
    (a.program # Nothing /\ ~a.overwritten /\ "images" \in a.steps) =>
        \A i \in 1..Len(a.of.images) :
            a.of.images[i] # Unnamed => a.program.images[i] \in Names

\* Every image has such a name, a temporary one or none.
Named(Names) ==
    /\ ImagesIn(spirv, AnyName(Names)) /\ ImagesIn(glsl, AnyName(Names))
    /\ ImagesIn(result.program, AnyName(Names))
    /\ ImagesIn(renamer.of, AnyName(Names))
    /\ AnswerNamed(result, Names)

LEMMA WrittenNames ==
  ASSUME NEW Names, NamesKept(Names), NEW images, IsSeq(images), Len(images) <= MaxImages,
         NEW i \in 1..Len(images)
  PROVE  /\ images[i] \in Names => RenderedImages(images)[i] \in Names
         /\ images[i] \in AnyName(Names) => RenderedImages(images)[i] \in AnyName(Names)
<1>1. i \in 1..MaxImages  BY SeqIsMap, NamesAssumption
<1>2. FreshName(i) \in Temporary  BY <1>1, NamesAssumption
<1>3. images[i] \in Names => WrittenName(images, i) \in Names
  BY DEF WrittenName, NamesKept
<1>4. images[i] \in AnyName(Names) => WrittenName(images, i) \in Names \cup Temporary
  BY <1>2 DEF WrittenName, AnyName
<1>5. QED  BY <1>3, <1>4, RenderedName DEF NamesKept, AnyName

LEMMA RenderedNames ==
  ASSUME NEW Names, NamesKept(Names), NEW p, Program(p), ImagesIn(p, AnyName(Names)),
         Len(Combined(p).images) <= MaxImages
  PROVE  ImagesIn(Render(Combined(p)), AnyName(Names))
<1> DEFINE c == Combined(p)
<1>1. Program(c)  BY CombinedIsProgram
<1>2. /\ IsSeq(c.images) /\ Len(c.images) = Len(p.images) + p.separate
      /\ \A i \in 1..Len(p.images) : c.images[i] = p.images[i]
      /\ \A i \in (Len(p.images) + 1)..(Len(p.images) + p.separate) : c.images[i] = Unnamed
  BY CombinedImages
<1>3. Len(p.images) \in Nat /\ DOMAIN p.images = 1..Len(p.images) /\ p.separate \in Nat
  BY SeqIsMap DEF Program
<1>4. \A i \in 1..Len(c.images) : c.images[i] \in AnyName(Names)
  <2> SUFFICES ASSUME NEW i \in 1..Len(c.images) PROVE c.images[i] \in AnyName(Names)
    OBVIOUS
  <2>1. CASE i \in 1..Len(p.images)  BY <1>2, <1>3, <2>1 DEF ImagesIn
  <2>2. CASE i \notin 1..Len(p.images)
    <3>1. i \in (Len(p.images) + 1)..(Len(p.images) + p.separate)  BY <1>2, <1>3, <2>2
    <3>2. QED  BY <1>2, <3>1 DEF AnyName
  <2>3. QED  BY <2>1, <2>2
<1>5. Render(c).images = RenderedImages(c.images)  BY <1>1, RenderIsWhole
<1> HIDE DEF c
<1>6. DOMAIN RenderedImages(c.images) = 1..Len(c.images)
  BY <1>2, RenderedLength, SeqIsMap
<1>7. Len(c.images) <= MaxImages  BY <1>1 DEF Program
<1>8. \A i \in 1..Len(c.images) : RenderedImages(c.images)[i] \in AnyName(Names)
  BY <1>2, <1>4, <1>7, WrittenNames
<1>9. ImagesIn(Render(c), AnyName(Names))  BY <1>5, <1>6, <1>8 DEF ImagesIn
<1>10. QED  BY <1>9 DEF c

LEMMA NothingNamed ==
  ASSUME NEW Names
  PROVE  ImagesIn(Nothing, Names)
  BY DEF ImagesIn, Nothing

LEMMA NamedInitially ==
  ASSUME NEW Names, Init
  PROVE  Named(Names)
<1>1. /\ spirv = Nothing /\ glsl = Nothing /\ result.program = Nothing
      /\ renamer.of = Nothing
  BY DEF Init, NoResult, NoRenamer
<1>2. QED  BY <1>1, NothingNamed DEF Named, AnswerNamed

\* A renamer's names are such names, where the vector had any.
LEMMA RenamerNames ==
  ASSUME NEW Names, NamesKept(Names), NEW r, IsRenamer(r), ImagesIn(r.of, AnyName(Names))
  PROVE  /\ ImagesIn(r.compiler, AnyName(Names))
         /\ "images" \in r.steps => \A i \in 1..Len(r.of.images) :
               r.of.images[i] # Unnamed => r.compiler.images[i] \in Names
<1>1. /\ Len(r.of.images) \in Nat /\ DOMAIN r.of.images = 1..Len(r.of.images)
      /\ Len(r.compiler.images) \in Nat
      /\ DOMAIN r.compiler.images = 1..Len(r.compiler.images)
      /\ Len(r.of.images) <= Len(r.compiler.images) /\ Len(r.compiler.images) <= MaxImages
  BY SeqIsMap DEF IsRenamer, Whole, Program
<1>2. \A i \in 1..Len(r.of.images) : TextureName(i - 1) \in Names
  BY <1>1, NamesAssumption DEF NamesKept
<1>3. \A i \in 1..Len(r.of.images) :
         r.of.images[i] \in AnyName(Names) /\ r.compiler.images[i] = NewName(r, i)
  BY <1>1 DEF ImagesIn, IsRenamer
<1>4. \A i \in 1..Len(r.of.images) : r.compiler.images[i] \in AnyName(Names)
  BY <1>2, <1>3 DEF NewName, AnyName
<1>5. \A i \in (Len(r.of.images) + 1)..Len(r.compiler.images) :
         r.compiler.images[i] \in AnyName(Names)
  BY DEF IsRenamer, AnyName
<1>6. ImagesIn(r.compiler, AnyName(Names))
  <2> SUFFICES ASSUME NEW i \in 1..Len(r.compiler.images)
               PROVE  r.compiler.images[i] \in AnyName(Names)
    BY <1>1 DEF ImagesIn
  <2>1. i \in 1..Len(r.of.images) \/ i \in (Len(r.of.images) + 1)..Len(r.compiler.images)
    BY <1>1
  <2>2. QED  BY <1>4, <1>5, <2>1
<1>7. QED  BY <1>2, <1>3, <1>6 DEF NewName, AnyName, IsTemporaryName

\* What GetResult answers has the names that the renamer gave.
LEMMA DirtyNamed ==
  ASSUME NEW Names, NamesKept(Names), Inv, Named(Names), NEW o, GetResultDirty(o)
  PROVE  Named(Names)'
<1> DEFINE r == renamer'
           p == Render(r.compiler)
<1>1. /\ r = [renamer EXCEPT !.compiler = Combined(@)]
      /\ Len(Combined(renamer.compiler).images) <= MaxImages
      /\ result' = [program |-> Compiled(p, o), of |-> renamer.of,
                    steps |-> renamer.steps, overwritten |-> spirv # renamer.of]
      /\ UNCHANGED <<spirv, glsl>>
  BY DEF Inv, IsRenamer, GetResultDirty, Written, Answered
<1>2. /\ IsRenamer(r) /\ r.of = renamer.of /\ r.steps = renamer.steps
      /\ r.compiler = Combined(renamer.compiler)
  BY <1>1, DirtyAnswers DEF Inv, IsRenamer
<1>3. ImagesIn(renamer.compiler, AnyName(Names)) /\ Program(renamer.compiler)
  BY RenamerNames DEF Inv, Named, IsRenamer
<1>4. ImagesIn(p, AnyName(Names))  BY <1>1, <1>2, <1>3, RenderedNames
<1>5. /\ Program(r.compiler) /\ p.images = RenderedImages(r.compiler.images)
      /\ Len(r.of.images) <= Len(r.compiler.images)
      /\ Len(r.of.images) \in Nat /\ Len(r.compiler.images) \in Nat
  BY <1>2, RenderIsWhole, SeqIsMap DEF IsRenamer, Whole, Program
<1>6. ASSUME "images" \in r.steps, NEW i \in 1..Len(r.of.images), r.of.images[i] # Unnamed
      PROVE  p.images[i] \in Names
  <2>1. r.compiler.images[i] \in Names  BY <1>2, <1>6, RenamerNames DEF Named
  <2>2. i \in 1..Len(r.compiler.images)  BY <1>5
  <2>3. QED  BY <1>5, <2>1, <2>2, WrittenNames DEF Program
<1>7. result'.program \in {p, Nothing} /\ result'.of = r.of /\ result'.steps = r.steps
  BY <1>1, <1>2 DEF Compiled
<1> HIDE DEF p, r
<1>8. AnswerNamed(result', Names)  BY <1>6, <1>7 DEF AnswerNamed
<1>9. ImagesIn(result'.program, AnyName(Names))  BY <1>4, <1>7, NothingNamed
<1>10. ImagesIn(renamer'.of, AnyName(Names))  BY <1>2 DEF r, Named
<1>11. QED  BY <1>1, <1>8, <1>9, <1>10 DEF Named

LEMMA CleanNamed ==
  ASSUME NEW Names, NamesKept(Names), Inv, Named(Names), GetResultClean
  PROVE  Named(Names)'
<1>1. /\ IsRenamer(renamer) /\ ~renamer.dirty
      /\ result' = [program |-> spirv, of |-> renamer.of, steps |-> renamer.steps,
                    overwritten |-> spirv # renamer.of]
      /\ UNCHANGED <<spirv, glsl, renamer>>
  BY DEF Inv, GetResultClean, Answered
<1>2. \A i \in 1..Len(renamer.of.images) : renamer.compiler.images[i] = renamer.of.images[i]
  BY <1>1 DEF IsRenamer, Renamed
<1>3. AnswerNamed(result', Names)
  BY <1>1, <1>2, RenamerNames DEF AnswerNamed, Named
<1>4. QED  BY <1>1, <1>3 DEF Named

\* The translators and the renamer's steps leave the answer alone.
LEMMA OthersNamed ==
  ASSUME NEW Names, Named(Names), UNCHANGED result, ImagesIn(spirv', AnyName(Names)),
         ImagesIn(glsl', AnyName(Names)), ImagesIn(renamer'.of, AnyName(Names))
  PROVE  Named(Names)'
  BY DEF Named

LEMMA NamedStep ==
  ASSUME NEW Names, NamesKept(Names), Inv, Named(Names), [Next]_vars
  PROVE  Named(Names)'
<1> DEFINE All == AnyName(Names)
<1>0. /\ ImagesIn(spirv, All) /\ ImagesIn(glsl, All) /\ ImagesIn(result.program, All)
      /\ ImagesIn(Nothing, All) /\ ImagesIn(renamer.of, All)
      /\ \A p \in Sources : ImagesIn(p, All)
      /\ IsRenamer(renamer) /\ Whole(spirv)
  <2>1. \A p \in Sources : ImagesIn(p, All)  BY DEF NamesKept, ImagesIn, AnyName
  <2>2. QED  BY <2>1, NothingNamed DEF Named, Inv
<1> HIDE DEF All
<1>1. ASSUME NEW p \in HLSLSources,
             NEW o \in {"ok", "diagnosed", "threw", "failed", "no_program"}, HLSL2SpirV(p, o)
      PROVE  Named(Names)'
  BY <1>0, <1>1, OthersNamed DEF HLSL2SpirV, Sources, All
<1>2. ASSUME NEW p \in GLSLSources \cup {glsl}, NEW o, GLSL2SpirV(p, o)
      PROVE  Named(Names)'
  BY <1>0, <1>2, OthersNamed DEF GLSL2SpirV, Compiled, Sources, All
<1>3. CASE SpirV2GLSL
  <2>1. Program(spirv) /\ Len(Combined(spirv).images) <= MaxImages
    BY <1>0, CombinedImages DEF Whole
  <2>2. ImagesIn(Render(Combined(spirv)), All)  BY <1>0, <2>1, RenderedNames DEF All
  <2>3. QED  BY <1>0, <1>3, <2>2, OthersNamed DEF SpirV2GLSL, All
<1>4. CASE NewRename
  BY <1>0, <1>4, OthersNamed DEF NewRename, All
<1>5. CASE FillingUBOInstName \/ RenameSampledImages \/ GetResultThrows
  <2>1. renamer'.of = renamer.of /\ UNCHANGED <<spirv, glsl, result>>
    BY <1>0, <1>5 DEF FillingUBOInstName, RenameSampledImages, GetResultThrows, Written, IsRenamer
  <2>2. QED  BY <1>0, <2>1, OthersNamed DEF All
<1>6. CASE GetResultClean
  BY <1>6, CleanNamed
<1>7. ASSUME NEW o \in {"ok", "failed"}, GetResultDirty(o)
      PROVE  Named(Names)'
  BY <1>7, DirtyNamed
<1>8. CASE TakeResult
  BY <1>0, <1>8, OthersNamed DEF TakeResult, All
<1>9. CASE UNCHANGED vars
  BY <1>0, <1>9, OthersNamed DEF vars, All
<1>10. QED  BY <1>1, <1>2, <1>3, <1>4, <1>5, <1>6, <1>7, <1>8, <1>9 DEF Next

\* For any sources whose images have names that a suffix does not make temporary:
\* what the steps of a renamer named stays named in its result, whatever was called
\* before, between and after, and whether or not the names went through GLSL; the
\* temporary names there are those of images without a name and of combined ones.
THEOREM RenamingAlwaysReachesResult ==
  ASSUME NEW Names, NamesKept(Names)
  PROVE  Spec => []RenamingReachesResult
<1> DEFINE J == Inv /\ Named(Names)
<1>1. Init => J  BY InitInv, NamedInitially
<1>2. J /\ [Next]_vars => J'  BY NextInv, NamedStep
<1>3. J => RenamingReachesResult
  <2> SUFFICES ASSUME J PROVE RenamingReachesResult  OBVIOUS
  <2>1. /\ IsAnswer(result) /\ AnswerNamed(result, Names)
        /\ DOMAIN result.of.images = 1..Len(result.of.images)
        /\ DOMAIN result.program.images = 1..Len(result.program.images)
        /\ Len(result.of.images) \in Nat /\ Len(result.program.images) \in Nat
    BY SeqIsMap DEF Inv, IsAnswer, Whole, Program, Named
  <2>2. ASSUME result.program # Nothing, ~result.overwritten, "images" \in result.steps,
               NEW i \in DOMAIN result.program.images,
               IsTemporaryName(result.program.images[i])
        PROVE  IF i \in DOMAIN result.of.images THEN result.of.images[i] = Unnamed
               ELSE result.of.separate > 0
    <3>1. CASE i \in 1..Len(result.of.images)
      BY <2>1, <2>2, <3>1 DEF AnswerNamed, NamesKept, IsTemporaryName
    <3>2. CASE i \notin 1..Len(result.of.images)
      <4>1. i \in (Len(result.of.images) + 1)..Len(result.program.images)  BY <2>1, <3>2
      <4>2. QED  BY <2>1, <2>2, <3>2, <4>1 DEF IsAnswer
    <3>3. QED  BY <2>1, <3>1, <3>2
  <2>3. QED  BY <2>1, <2>2 DEF RenamingReachesResult, IsAnswer
<1>4. QED  BY <1>1, <1>2, <1>3, PTL DEF Spec
=============================================================================
