---------------------------- MODULE Translation ----------------------------
(***************************************************************************)
(* One caller's pass through ShaderTrans, ShaderRename and the part of     *)
(* ShaderReflection that names sampled images: a SPIR-V vector and a GLSL  *)
(* string that the translators write, and a renamer made over the vector.  *)
(*                                                                         *)
(* A program is what renaming and reflection see of it: the names of its   *)
(* sampled images, in declaration order; how many pairs of a separate      *)
(* image and a sampler it samples, which are not among the sampled images  *)
(* until SPIRV-Cross combines them; and how its uniform buffers are named. *)
(* The translators keep that; what they do to names is in Render.          *)
(***************************************************************************)
EXTENDS Integers, Sequences, FiniteSets

CONSTANTS
    HLSLSources,        \* the programs that callers have as source text: DXC makes
    GLSLSources,        \* separate images and samplers of HLSL's textures
    MaxImages,          \* bound: images that a program has when they are combined
    Temporary,          \* image names for which IsTemporaryName holds: "_", digits
    TextureName(_),     \* "texture" + std::to_string(idx)
    FreshName(_),       \* external: spirv-cross's "_<id>" for an image without a name
    Suffixed(_, _)      \* external: spirv-cross's name for the n-th duplicate

\* How a uniform buffer is named: by the source; not at all, its block being
\* UBO_* or not; after its block, by FillingUBOInstName; or by spirv-cross.
UBONames == {"source", "none_UBO", "none_other", "u_block", "_id"}

Sources == HLSLSources \cup GLSLSources

Unnamed == ""       \* what get_name answers of an image that nothing names

ASSUME SourcesAssumption == \A p \in Sources :
    /\ p \in [images : Seq(STRING), separate : Nat, ubos : Seq(UBONames)]
    /\ Len(p.images) + p.separate <= MaxImages

ASSUME NamesAssumption ==
    /\ MaxImages \in Nat
    /\ Unnamed \notin Temporary
    /\ \A i \in 1..MaxImages : TextureName(i - 1) \notin Temporary \cup {Unnamed}
    /\ \A i \in 1..MaxImages : FreshName(i) \in Temporary

\* An empty vector or string.
Nothing == [images |-> <<>>, separate |-> 0, ubos |-> <<"nothing">>]

VARIABLES
    spirv,          \* the caller's vector, an output of the translators
    glsl,           \* the caller's string, the output of SpirV2GLSL
    renamer,        \* ShaderRename over spirv: its m_compiler, m_dirty; "of" is a
                    \* history: what spirv was when m_compiler was made from it
    result,         \* what GetResult returned last, and for which renamer; "overwritten":
                    \* the vector was no longer what the renamer was made over
    asked           \* history: the source of the last translation that said how it ended

vars == <<spirv, glsl, renamer, result, asked>>

NoRenamer == [compiler |-> Nothing, dirty |-> FALSE, of |-> Nothing, steps |-> {}]
NoResult  == [program |-> Nothing, of |-> Nothing, steps |-> {}, overwritten |-> FALSE]

-----------------------------------------------------------------------------
IsTemporaryName(n) == n \in Temporary

\* External: build_combined_image_samplers adds a sampled image, without a name,
\* for each pair that is sampled; called again, it adds them again.
Combined(p) ==
    [p EXCEPT !.images = @ \o [i \in 1..p.separate |-> Unnamed]]

\* External: the names under which spirv-cross writes images to GLSL: "_<id>" for
\* one without a name, and a suffix for a name that is taken.
RenderedImages(images) ==
    LET written == [i \in DOMAIN images |->
                       IF images[i] = Unnamed THEN FreshName(i) ELSE images[i]]
        Before(i) == {j \in 1..(i - 1) : written[j] = written[i]}
    IN  [i \in DOMAIN images |->
            IF Before(i) = {} THEN written[i]
            ELSE Suffixed(written[i], Cardinality(Before(i)))]

\* External: what compile() writes.  Separate images and samplers are left out of
\* GLSL, and a buffer without an instance name is given one.
Render(p) ==
    [images |-> RenderedImages(p.images), separate |-> 0,
     ubos |-> [i \in DOMAIN p.ubos |->
        IF p.ubos[i] \in {"none_UBO", "none_other"} THEN "_id" ELSE p.ubos[i]]]

\* Mutant: only the images that are renamed are counted.
ReflectedCountingRenamed(images) ==
    [i \in DOMAIN images |->
        IF IsTemporaryName(images[i])
        THEN TextureName(Cardinality({j \in 1..(i - 1) : IsTemporaryName(images[j])}))
        ELSE images[i]]

\* GetUniforms: the names under which it reports the sampled images.
Reflected(images) ==
    [i \in DOMAIN images |->
        IF IsTemporaryName(images[i]) THEN TextureName(i - 1) ELSE images[i]]

\* RenameSampledImages: the names it gives to the sampled images.
NamedImages(images) ==
    [i \in DOMAIN images |->
        IF IsTemporaryName(images[i]) THEN TextureName(i - 1) ELSE images[i]]

\* FillingUBOInstName: buffers without a name are named after a UBO_* block.
NamedUBOs(ubos) ==
    [i \in DOMAIN ubos |-> IF ubos[i] = "none_UBO" THEN "u_block" ELSE ubos[i]]

-----------------------------------------------------------------------------
Init ==
    /\ spirv = Nothing /\ glsl = Nothing /\ asked = Nothing
    /\ renamer = NoRenamer /\ result = NoResult

\* What HLSL2SpirV leaves in the vector: without a diagnostic, a failure leaves
\* what was there, and so does a call of DXC that throws.
HLSL2SpirV(src, outcome) ==
    /\ spirv' = CASE outcome = "ok"        -> src
                  [] outcome = "diagnosed" -> Nothing
                  [] outcome \in {"threw", "failed", "no_program"} -> spirv
    /\ asked' = IF outcome \in {"ok", "diagnosed"} THEN src ELSE asked
    /\ UNCHANGED <<glsl, renamer, result>>

\* Mutant: a failure leaves the vector as it was.
CompiledOrKept(src, outcome) == IF outcome = "ok" THEN src ELSE spirv

\* What a source that is not empty is compiled to: a failure, in preprocessing or
\* parsing or, unless no_link is given, in linking or mapIO, leaves nothing.
Compiled(src, outcome) == IF outcome = "ok" THEN src ELSE Nothing

\* An empty source returns before the vector is cleared: a stuttering step.
GLSL2SpirV(src, outcome) ==
    /\ src # Nothing
    /\ spirv' = Compiled(src, outcome)
    /\ asked' = src
    /\ UNCHANGED <<glsl, renamer, result>>

\* A vector that is empty, or that spirv-cross rejects, leaves the string alone: a
\* stuttering step.
SpirV2GLSL ==
    /\ spirv # Nothing
    /\ glsl' = Render(Combined(spirv))
    /\ UNCHANGED <<spirv, renamer, result, asked>>

\* ShaderRename parses the vector now, and refers to it until it is destroyed.
NewRename ==
    /\ spirv # Nothing
    /\ renamer' = [compiler |-> spirv, dirty |-> FALSE, of |-> spirv, steps |-> {}]
    /\ UNCHANGED <<spirv, glsl, result, asked>>

\* Mutant: a renamed buffer does not make the renamer dirty.
FillingUBOInstNameClean ==
    /\ renamer # NoRenamer
    /\ renamer' = [renamer EXCEPT !.compiler.ubos = NamedUBOs(@), !.steps = @ \cup {"ubos"}]
    /\ UNCHANGED <<spirv, glsl, result, asked>>

FillingUBOInstName ==
    /\ renamer # NoRenamer
    /\ LET named == NamedUBOs(renamer.compiler.ubos)
       IN  renamer' = [renamer EXCEPT !.compiler.ubos = named,
                                     !.dirty = @ \/ renamer.compiler.ubos # named,
                                     !.steps = @ \cup {"ubos"}]
    /\ UNCHANGED <<spirv, glsl, result, asked>>

RenameSampledImages ==
    /\ renamer # NoRenamer
    /\ LET named == NamedImages(renamer.compiler.images)
       IN  renamer' = [renamer EXCEPT !.compiler.images = named,
                                     !.dirty = @ \/ renamer.compiler.images # named,
                                     !.steps = @ \cup {"images"}]
    /\ UNCHANGED <<spirv, glsl, result, asked>>

\* What a dirty renamer has when it writes GLSL: combining changes m_compiler.
Written == [renamer EXCEPT !.compiler = Combined(@)]

\* What GetResult answers, with the caller's vector of then.
Answered(program) ==
    [program |-> program, of |-> renamer.of, steps |-> renamer.steps,
     overwritten |-> spirv # renamer.of]

\* A clean renamer returns the vector as it is now.
GetResultClean ==
    /\ renamer # NoRenamer /\ ~renamer.dirty
    /\ result' = Answered(spirv)
    /\ UNCHANGED <<spirv, glsl, renamer, asked>>

\* Mutant: the images are combined and written before their new names are set.
GetResultDirtyUnnamed(outcome) ==
    /\ renamer.dirty /\ Len(Written.compiler.images) <= MaxImages
    /\ renamer' = Written
    /\ result' = Answered(Compiled(Render(Combined(renamer.of)), outcome))
    /\ UNCHANGED <<spirv, glsl, asked>>

\* A dirty one combines, writes GLSL and compiles it, linking, into a vector of its
\* own.
GetResultDirty(outcome) ==
    /\ renamer.dirty /\ Len(Written.compiler.images) <= MaxImages
    /\ renamer' = Written
    /\ result' = Answered(Compiled(Render(Written.compiler), outcome))
    /\ UNCHANGED <<spirv, glsl, asked>>

\* spirv-cross cannot write the module: the exception leaves GetResult, and the
\* images stay combined.
GetResultThrows ==
    /\ renamer.dirty /\ Len(Written.compiler.images) <= MaxImages
    /\ renamer' = Written
    /\ UNCHANGED <<spirv, glsl, result, asked>>

\* The caller takes the result for its vector, as LinkSpvtools does.
TakeResult ==
    /\ result # NoResult
    /\ spirv' = result.program /\ asked' = result.program
    /\ UNCHANGED <<glsl, renamer, result>>

Next ==
    \/ \E p \in HLSLSources :
          \E o \in {"ok", "diagnosed", "threw", "failed", "no_program"} : HLSL2SpirV(p, o)
    \/ \E p \in GLSLSources \cup {glsl}, o \in {"ok", "failed"} : GLSL2SpirV(p, o)
    \/ SpirV2GLSL
    \/ NewRename \/ FillingUBOInstName \/ RenameSampledImages
    \/ GetResultClean
    \/ \E o \in {"ok", "failed"} : GetResultDirty(o)
    \/ GetResultThrows
    \/ TakeResult

Spec == Init /\ [][Next]_vars

-----------------------------------------------------------------------------
Distinct(names) == \A i, j \in DOMAIN names : names[i] = names[j] => i = j

IsProgram(p) == /\ DOMAIN p = {"images", "separate", "ubos"}
                /\ DOMAIN p.images = 1..Len(p.images) /\ Len(p.images) <= MaxImages
                /\ p.separate \in Nat
                /\ p.ubos \in Seq(UBONames \cup {"nothing"})

\* The names that a renamer now has for what it found in the vector.
Found == [renamer.compiler EXCEPT !.images = SubSeq(@, 1, Len(renamer.of.images))]

\* Type invariant; a renamer is dirty exactly when a name differs from those it
\* found, however often it combined images meanwhile.
TypeOK ==
    /\ IsProgram(spirv) /\ IsProgram(glsl) /\ IsProgram(asked) /\ IsProgram(result.program)
    /\ IsProgram(renamer.compiler) /\ renamer.dirty = (Found # renamer.of)
    /\ renamer.steps \subseteq {"ubos", "images"}

\* ShaderTrans.cpp:189,221: a translation into SPIR-V that says how it ended
\* never leaves another source's program in the vector: the vector is empty or
\* holds the program of the source that was asked for last.
VectorFollowsSource == spirv \in {Nothing, asked}

\* ShaderRename.cpp:56 and ShaderReflection.cpp:467: GetUniforms on the module
\* before the renaming names its images as the renamed module does, when the names
\* it reports are distinct and not empty and the vector was not overwritten
\* meanwhile.  What line 69 combines comes after them, each time it is called.
RenamedAsReflected ==
    LET reported == Reflected(result.of.images)
    IN  (/\ result.program # Nothing
         /\ "images" \in result.steps /\ ~result.overwritten
         /\ Distinct(reported) /\ \A i \in DOMAIN reported : reported[i] # Unnamed)
        => /\ DOMAIN reported \subseteq DOMAIN result.program.images
           /\ \A i \in DOMAIN reported : result.program.images[i] = reported[i]

\* ShaderRename.cpp:63-75: what the steps of a renamer named stays named, in the
\* result, through the GLSL that it is written to and compiled from: no UBO_* buffer
\* is without a name, and a temporary name is one of an image that had no name to
\* look at, having none of its own or being combined, of a separate one, by line 69.
RenamingReachesResult ==
    (result.program # Nothing /\ ~result.overwritten) =>
        /\ "images" \in result.steps =>
              \A i \in DOMAIN result.program.images : IsTemporaryName(result.program.images[i])
                 => IF i \in DOMAIN result.of.images THEN result.of.images[i] = Unnamed
                    ELSE result.of.separate > 0
        /\ "ubos" \in result.steps =>
              \A i \in DOMAIN result.program.ubos : result.program.ubos[i] # "none_UBO"
=============================================================================
