# Verification of shadertrans

TLA+ models, TLC runs and machine-checked proofs for the library under `src/`:
translation between HLSL, GLSL and SPIR-V, and construction of shaders out of SPIR-V
modules. The library is single-threaded and keeps everything in memory. What is hard in
it is not concurrency but *protocol*: long sequences of legal calls over caches that one
call empties and other calls fill, early returns that skip half of an update, objects
borrowed from the caller, and process-wide resources counted by hand.

## 1. Inventory

| Component | State it keeps | Operations that change it | Used by / uses |
|---|---|---|---|
| `ShaderBuilder` | `m_modules`, `m_main`, caches of inputs, outputs and uniforms, exported names | `AddInput`, `AddOutput`, `AddUniform`, `AddModule`, `ReplaceFunc`, `AddLinkDecl`, `Link`, `ConnectCSMain` | compiles library code with `ShaderTrans`, renames the linked module with `ShaderRename` |
| `SpirvGenTwo` | none of its own: appends to the blocks and variables of a spvgentwo function | `AddBlock`, `If`, `Kill`, `Return`, `ReturnValue`, `VariableFloat` to `VariableFloat4`, `AddVariable`, `FuncCall`, some thirty operations | called by the users of `ShaderBuilder` between `AddInput` and `Link` |
| `ShaderTrans` | the caller's output vector or string | `HLSL2SpirV`, `GLSL2SpirV`, `SpirV2GLSL` | DXC through `CompilerDX`, glslang through `GLSLangAdapter`, SPIRV-Cross |
| `ShaderRename` | a reference to the caller's vector, a SPIRV-Cross compiler made from it, `m_dirty` | `FillingUBOInstName`, `RenameSampledImages`, `GetResult` | `LinkSpvtools`; calls `GLSL2SpirV` |
| `ShaderReflection` | none | `GetUniforms`, `GetFunction` (read only) | reads the vectors that `spirv::Parser` reads; must name images as `ShaderRename` does |
| `GLSLangAdapter` | singleton, `m_inited` | `Init` | `GLSL2SpirV`, `ParseHLSL` |
| `ShaderValidator` | lazily built `m_glsl` | `Validate`, destruction | glslang directly, DXC |
| `ShaderParser` | none; allocates `TShader`s | `ParseHLSL` | glslang |
| `CompilerDX` | singleton: library handle, factory, two objects, `m_linkerSupport` | constructor, `CreateLinker`, `Destroy`, `Terminate`, destructor | `HLSL2SpirV`, `Validate` |
| `spirv::Parser`, `spirv_IR` | functions, structs and uniforms of a module, six counters of the scan | `Parse` | `spirv::Linker` |
| `spirv::Linker` | parsed modules | `AddModule`, `Link` | spirv-tools |
| `ShaderPreprocess` | none; text to text | includes, entry points | `ShaderBuilder::AddModule` |
| `ShaderInfo` | the state of two tree traversals | `GetFunctionByName`, `FindSymbolsUsage` | the trees of `ShaderParser` |
| `SpirvTools`, `ConfigGLSL.h`, `ShaderStage.h`, `CMakeLists.txt` | none | none | |

How they interact: plain calls in one thread. State is shared in four places: the vector
that `ShaderRename` borrows; the uniform cache, which is common to all modules of a
builder; glslang's per-process tables, shared by the adapter and every validator; and the
DXC singleton. Behaviours that are hard, and what correct means for them:

- *Builder.* `Link` empties the caches but keeps `m_main` and everything emitted. Between
  two Links: one variable per input or output name, one name per uniform, one export
  decoration per name; a name registered stays what it was.
- *Function blocks.* `If` decides by looking at what arms contain when it is called. A
  block must not go on after its terminator, arms join their own merge block, and a
  variable is set to the value that it was made for.
- *Translation and renaming.* A failure must not leave another source's program in the
  output; renaming and reflection must agree; what is renamed must reach the result,
  although `GetResult` adds the samplers that SPIRV-Cross combines after the renaming.
- *Process-wide state.* glslang's tables live as long as there is anything that needs
  them; DXC's objects are never used, or released, after their code was unmapped.
- *Readers of SPIR-V.* `spirv::Parser` keeps functions and structs by name, not by id, in
  maps that outlive the scan; `ShaderReflection` reads the same words with two other
  libraries. What they keep must be what the program declares, whatever was parsed before,
  and they must tell the same.
- *Text and trees.* Include expansion recurses without a memory of what it expanded, and
  must end; `PrepareGLSL` inserts directives by searching, and must not bring them out of
  order. The tracer must report every use once and in order, although some nodes hide
  what is under them and others do not.

`PROJECT.json` lists the hazards line by line with the properties that cover them.

## 2. Modules

| Module | Models | State and actions |
|---|---|---|
| `NameTable` | abstract: what a name cache promises | `table`, `issued`; `Bind`, `IssueElsewhere`, `DropAll`. Its other names begin with `Table`, so that the theorems on it can stand in one module with those on the builder |
| `ShaderBuilder` | `ShaderBuilder.cpp` | one variable per field, one action per method; `insts` are the variables created so far and a handle is an index into it; `decls` the linkage decorations; `links` counts the Links and stamps variables and decorations with their epoch; `callee` is what the calls of a function in its own module call since `ReplaceFunc` |
| `ShaderBuilderProofs` | | theorems on both of the above |
| `SpirvGenTwo` | the emitting half of `SpirvGenTwo.cpp` | `blocks` (sequences of instructions), `variables` (of the function, with their types), `ifs` (history of the Ifs), one action per function or family of functions with one guard. An instruction keeps what the properties look at: the blocks it names, and of a store by `AddVariable` the variable and the value |
| `Translation` | `ShaderTrans`, `ShaderRename`, image names of `ShaderReflection` | `spirv`, `glsl` (outputs), `renamer`, `result`, and `asked`, the source of the last translation that reported. A source is a program of HLSL, whose images and samplers are separate, or of GLSL, which may have both; `Combined` is what `build_combined_image_samplers` makes of the separate ones, `Render` what SPIRV-Cross writes |
| `GlslangProcess` | `GLSLangAdapter`, `ShaderValidator`, `ShaderParser` | `inited`, glslang's count `users`, the validators, the `TShader`s held and leaked |
| `GlslangProcessProofs`, `SpirvGenTwoProofs`, `TranslationProofs`, `CompilerDXProofs`, `SpirvParserProofs`, `ShaderPreprocessProofs`, `ShaderInfoProofs` | | theorems, of `FunctionReaders` in `SpirvParserProofs` |
| `CompilerDX` | `CompilerDX.cpp` | the members as present or not, the loader's count `loads`, linkers held, objects detached |
| `SpirvParser` | `spirv_Parser.cpp`, `spirv_IR.h` | `ir`, `i`, the tables of `Parse` and the `module` it fills; one action per opcode with a case, `Parse` to begin a scan. Parameters: the instructions, the programs, the names and how a function's name is trimmed. The second half of the module reads the same program as a whole (`Declared`, `MembersOf`, `VariablesAt`, `DeclaredUniforms`): what the first half is checked against |
| `FunctionReaders` | `GetFunction` and the two type conversions of `ShaderReflection.cpp` | extends `SpirvParser`: the code that trims a function's name here (`FunctionName`) is not the parser's (`Trimmed`); operators over its `ir` for what spvgentwo tells of a function, and over its `module` for what the parser kept |
| `ShaderReflection` | `GetUniforms` of `ShaderReflection.cpp` | extends `FunctionReaders`: functions over `ir`, by how deep types are followed (never deeper than the program is long). A list of variables is flat, each entry before its children and with its level; a name is the sequence of its steps. A resource is classed by its storage and by the decoration of its type without dimensions (`TypeOf`), so that storage buffers come in both kinds, `StorageBuffer` and `Uniform` with `BufferBlock`. `WaysAt`, the ways into a type by members and indices, is what the lists are checked against (`Covers`) |
| `ShaderPreprocess` | `ShaderPreprocess.cpp` | `stack`, the activations of `LoadWithInclude`; a step per line, per file opened or skipped and per return. A line is what the code looks for in it: a directive, at its start or after blanks, or a comment that mentions `#include` (`comment`) or `#version` (`remark`). `Expanded` is the expansion of all files as a recursive function of how many can be opened, `FileText` that of one |
| `ShaderInfo` | `ShaderInfo.cpp` | `todo`, the nodes a traversal has before it; a step per node for the finder, then for the tracer. a tree numbers its nodes in the order of the source, so that the nodes under one are an interval (`Under`). `Says`, `Hidden` and `SaidBy` describe the same uses by these numbers, without a traversal |
| `MCShaderBuilder`, `MCTranslation`, `MCShaderReflection`, `MCShaderPreprocess`, `MCShaderInfo` | | values of constants for TLC: programs, files, trees |

Conventions. A call that returns early without changing state (a cached input, an unknown
type, an empty GLSL source, an export already declared, an operation on null) is a
stuttering step; its condition is the negation of the action's guard. Definitions marked
*Mutant* are plausible bugs of the definition that follows; no specification uses them.

What is abstracted. Names are members of a small set with the code's way of adding a
number (`Suffix`, `TextureName`), so that a requested name can equal a generated one.
Types are the strings that the code compares. A SPIR-V value is known by its type; values
of vectors of integers, which `create_type` does not know, come from functions of compiled
libraries. A program is, for renaming, the names of its sampled images, how many pairs of a
separate image and a sampler it samples, and how its uniform buffers are named. The
operations of `SpirvGenTwo` are families by their guard, with two operands for two or more.
Compilers, spvgentwo, SPIRV-Cross and spirv-tools are external and appear as what the code
relies on: an outcome chosen nondeterministically, or an operator marked external. Thus
spvgentwo declares a function's variables ahead of its instructions, SPIRV-Cross writes an
image without a name as `_<id>`, and combines separate images again when it is asked again.

What callers are assumed to do. *SpirvGenTwo*: append only to blocks they have not ended,
and use each block as the arm or merge of one If. The code itself chooses the block in
`AddVariable` and `FuncCall` (always FunctionEntry) and that is not assumed away:
`TerminatorsAreLast` says what can follow a terminator there. *CompilerDX*: release
linkers before `Destroy` or exit, and leave an instance alone after shutting it down.
*GlslangProcess*: delete a `TShader` at most once. *SpirvParser*: programs are laid out as
compilers write them, because the code reads names and types where it meets them, and
would read a program laid out otherwise otherwise. `ProgramsAssumption` says how, in four
parts: no id has two names or two types (`DeclaredOnce`); names come before what has them
and types before what mentions them (`DeclaredFirst`); members that are named exist, and
vectors are of scalars (`WellTyped`); functions do not overlap and each has an end
(`FunctionsEnd`). `OthersAssumption` of *FunctionReaders* adds that an array, an image or
void shares its id with no other type, and `ArraysAssumption` of *ShaderReflection* that an
array has an element type and a length.
*ShaderPreprocess*: nothing writes the files while they are read. *ShaderInfo*: the trees
are glslang's (`TreesAssumption`): binary nodes have two operands, and no function is
defined inside of another, which neither GLSL nor HLSL allows.

## 3. Runs

Deadlock is checked except where the model ends by reaching its bounds
(`MaxInsts`, `MaxLinks`, `MaxCalls`, `MaxAttempts`), or where the process ends (`Exit`,
and a trace of a function nobody defined).

Fairness. Two components have loops of their own: the scan of `Parse` and the expansion
of includes. Their specifications state weak fairness of one step of the loop (`Scan`,
`Step`), because a loop in a running thread goes on; no call is ever owed. `ScanEnds` and
`CallsReturn` rest on it. The other components do one update per call: nothing in them
waits, retries or is scheduled, and they claim safety only.

| Run | Question | Bounds and why they are enough |
|---|---|---|
| `name_table` | `OneNamePerHolder` of the abstract table | 3 names, 4 holders: a fourth holder after the table is full and dropped |
| `builder_variables` | `UniformsQueryable`, `InterfaceMatchesCaches`, `UniformNamesDistinct`, `CachesAreNameTables` | names `x`, `x1`, so that `x` with suffix 1 collides with a request; 4 variables (three clashing uniforms and one of another kind); one named after the request (`int`), one interface type, one that only uniforms have; one Link with calls before and after it; a library besides main |
| `builder_linkage` | `ExportsMatchDecorations`, `RegistryNamesDistinct`, `FirstRegistrationWins` | two libraries, two codes, compiled or not; 2 decorations, so that a name can be declared twice, on functions of two modules, two names, calls redirected between the functions, one Link |
| `function_blocks` | `TerminatorsAreLast`, `ArmsJoinOwnMerge`, `VariablesAreSet` | 5 blocks: a nested If or two in sequence, with merge blocks given or made; 2 other calls: one in each arm, an exit and what follows it, or two variables; values of a scalar, a vector of integers and a type that `AddVariable` has no variable for |
| `empty_arm` | `UnexitedArmsAreJoined`, expected to fail | as above, 1 call |
| `translation` | `VectorFollowsSource`, `RenamedAsReflected`, `RenamingReachesResult` | 2 programs of GLSL and one of HLSL: images with temporary names before and after named ones, or without any name, a generated name that is taken, separate images, buffers of all kinds; at most 3 images when they are combined, so that HLSL's are combined twice; unbounded length, the state space is finite |
| `glslang_process` | `UsersBalanced`, `ProcessOutlivesClients`, `AdapterPinsProcess` | 3 validators, 3 TShaders |
| `compiler_dx` | `AllOrNothing`, `CodeStaysMapped` | 6 failed constructions, 5 linkers |
| `spirv_readers` | `FunctionsAsDeclared`, `StructsAsDeclared`, `UniformsAsDeclared`, `FunctionReadersAgree`, `LeavesAreThePaths`, `ScanEnds` | 1,057 programs, each parsed into the Module of any other: two structs, one in the other, directly or by an array, named in full, in part, alike or not; a buffer, two images and a private variable; blocks, storage buffers of both kinds and undecorated structs, alone, in arrays and in arrays of arrays, beside arrays of images; two functions of one name, two or none, with lines and locals in each order. Two of a kind are what it takes for one to replace the other |
| `includes` | `ExpansionIsFlattening`, `PreparedInOrder`, `CallsReturn` | two files of up to two lines, each present or not, in all combinations: self-inclusion, cycles of two, diamonds; sources that mention directives in comments; two open files, so that a chain of three is cut |
| `symbol_usage` | `FoundIsLastDefinition`, `SymbolsAsUsed` | 102 trees of two functions of one name or two; chains of up to three indices, calls in arguments, in indices and in assignments; a list carried from call to call |
| `right_sides` | `AssignmentsAreTraced`, expected to fail | as above |

`TypeOK` of each module (`TableTypeOK` of `NameTable`) is checked by a run of it;
`ShaderInfo`'s two properties say of its fields all that its type would. For
`UniformNamesDistinct`, `bool` and `int` are left out: the code names these uniforms after the
request even when it is taken (`ShaderBuilder.cpp:136-139`), and only the cache keeps them
apart. `RenamedAsReflected` has premises that the code does not secure: the names that
reflection reports are distinct (a generated `texture0` may be another image's name) and not
empty, and the vector was not overwritten between the construction of the renamer and
`GetResult`. It speaks of the first images of the result. After them come those that
`GetResult` combined of separate images and samplers (`ShaderRename.cpp:69`), which the renamer
never saw and which SPIRV-Cross writes under names like `_<id>`: **for a module from HLSL, a
dirty renamer's result does have temporary names.** `RenamingReachesResult` says where: only at
combined images, and at images that had no name in the vector. `VectorFollowsSource` does not
cover an HLSL translation that fails without a diagnostic or throws: then the vector keeps what
it held, and so does `asked`.

`VariablesAreSet` has an exception. `AddVariable` chooses the variable's type by the number of
a vector's components alone (`SpirvGenTwo.cpp:295-310`), so a vector of integers is stored into
a variable of floats; the property says that the components are as many.

The properties of the builder that compare caches with what was emitted
(`InterfaceMatchesCaches`, `UniformNamesDistinct`, `ExportsMatchDecorations`) speak of one
epoch, from a Link to the next. After a Link the code declares the same name again, and
decorates an export again, in modules that still have the first; the models do so too, and
no property forbids it, as no document does. `PROJECT.json` lists these as hazards without a
property.

`empty_arm` shows a difference between a comment and the code. `SpirvGenTwo.cpp:251` says
of the branches to the merge block "check if user didnt exit controlflow via kill or
similar". The code leaves out not only arms that were exited but also arms without
instructions: such an arm stays without a terminator after `If`, and is not joined later.

`right_sides` shows another. `ShaderInfo.cpp:188` says of the subtree of an assignment "we
just traced it with findLValueBase()"; the code traced one chain of the left side, and a
call on the right side, or in an index on the left, is never reported. `SymbolsAsUsed`
says what is reported.

Premises of the readers' properties, each a case where the code keeps less than the program
declares. `StructsAsDeclared` leaves out structs of one name, and structs whose last member is
nameless while others are named (`spirv_Parser.cpp:123` then keeps members up to the last named
one). `UniformsAsDeclared` leaves out programs with a nameless function, whose locals count as
globals (line 175), and those in which a nameless uniform that is no block meets a struct
without a name: the uniform's `type_name` is empty, so that the members of that struct are
taken for its own (lines 182-187). `FunctionsAsDeclared` describes functions that share a name:
the arguments and locals of all are in one entry. `FunctionReadersAgree` leaves out such
functions, and types that one of the readers does not know (`Known`): the parser takes arrays,
images and pointers to pointers for void, and spvgentwo's conversion has no case for vectors of
`bool`, which the parser's takes for `bool`. `LeavesAreThePaths` leaves out arrays of arrays
and arrays in elements of arrays of structs, of which the code reports a part. It also leaves
out a nameless buffer with a nameless member: the member's name is then the empty text, and
what is in it is reported as if it were not in a member (lines 172-174). Members of one struct,
and the ways into different resources, are taken to have different names; otherwise leaves
could share a name. `PreparedInOrder` leaves out sources whose first mention of an include is
in a comment: there the insertion breaks the comment, and what follows it on its line becomes a
directive. That a version comes first it claims of sources that begin with one or do not
mention `#version` at all: the code searches the whole text (`ShaderPreprocess.cpp:14`), so a
source that has the word in a comment only is given no version. `ScanEnds` leaves out programs
with a word count of zero: Parse does not return from them.

## 4. Proofs

Checked by TLAPS for all values of the constants that satisfy the modules' assumptions.

*ShaderBuilder* (`ShaderBuilderProofs`). Assumptions: the bounds are naturals,
`MaxInsts > 0`; suffixes of one name differ; `Home` maps functions to modules.
`CacheInv` is the inductive invariant of the caches: `TypeOK`, that each cache holds
exactly the current variables of its kind, that no handle is cached under two keys, and
that a uniform is cached under its own name unless it is a bool or int. The last two are
needed because `UniformsQueryable` speaks of names only: without them a step could not be
shown to leave the other uniforms' names alone. The step of `AddUniform` needs the search
for a free suffix to succeed: `FreeSuffix` is the pigeonhole argument that there are more
suffixes than variables, and `AvailableNameIsFree` draws the conclusion; `LeastNumber`
turns it into the *first* free one. From `CacheInv` follow `TypeCorrect`,
`UniformsAlwaysQueryable`, `InterfaceAlwaysCached` and `UniformNamesAlwaysDistinct`.
`CachesRefineNameTable` shows that every step of the builder is, for each cache, a `Bind`,
an `IssueElsewhere`, a `DropAll` or a stutter. `LinkageInv` is the invariant of registry
and decorations; `RegistrationIsFinal` is a step property.

*NameTable* (also in `ShaderBuilderProofs`): `TableTypeCorrect` and `NamesRecoverable`, each
the other's strengthening: what is bound was issued, hence what is about to be issued is not bound.

*SpirvGenTwo* (`SpirvGenTwoProofs`), for any number of blocks and calls and any types:
`TypeCorrect`, `TerminatorsAlwaysLast`, `ArmsAlwaysJoinOwnMerge`, `VariablesAlwaysSet`. Every
step adds to the end of each block nothing, one permitted instruction, or the header of an If
(`Grown`, `Step`). The order in a block and the targets of its branches are properties of one
block at a time (`Content`), and `GrowthContent` shows that growth preserves them; `Headed`
adds to `ArmsJoinOwnMerge` that the branch of a header is there to be read, which the step
needs. What is added sets no variable (`Plain`) but in `AddVariable`: `SetsKept` shows that
plain growth and more variables disturb no store, `VariableTypes` which types `AddVariable`
chooses, and `AddVariableStep` that the new store is the last and for the new variable. The
caller's discipline enters in one place: an If's header goes to a block nobody ended.

*Translation* (`TranslationProofs`), for any sources and any external renaming of
duplicates: `VectorAlwaysFollowsSource`, inductive by itself, and
`RenamedAlwaysAsReflected`. The invariant of the latter (`Inv`) relates the renamer to the
program it was made of (`IsRenamer`): its first images have that program's names, or the names
that `RenameSampledImages` gives, and what follows them was combined and has no name, while
the buffers are those it found or their new names. It rests on renaming being idempotent,
because the given names are not temporary and combined images have none, on combining adding
at the end only (`RenamerCombined`), and on SPIRV-Cross keeping names that no earlier image
has: a combined image comes later and so cannot take one (`RenderedDistinct`). `TypeCorrect` is
from the same invariant: a renamer is dirty exactly when a name differs from those it found
(`FoundDiffers`). `RenamingAlwaysReachesResult` has one hypothesis, `NamesKept(Names)`: the
sources' images have names of a set `Names`, temporary ones or none; names that the renamer
gives are in `Names`; what the external compiler makes of a duplicate name of `Names` is in it
again, and of a temporary name is in it or temporary. `Named(Names)` is its invariant: the
images of a result after the renaming have names of `Names`, but those that had none and the
combined ones (`AnswerNamed`).

*GlslangProcess* (`GlslangProcessProofs`), for any finite set of validators:
`TypeCorrect`, `UsersAlwaysBalanced`, `ProcessAlwaysOutlivesClients`,
`AdapterAlwaysPinsProcess`. The invariant adds to `UsersBalanced` that a `TShader` exists
only after the adapter's Init; cardinalities come from the library's theorems on finite
sets.

*CompilerDX* (`CompilerDXProofs`), for any number of failed constructions and linkers:
`TypeCorrect`, `AlwaysAllOrNothing`, `CodeAlwaysMapped`. The strengthening `Loaded` counts
the loader's references: one more than the failed constructions left behind as long as the
instance, or what Terminate let go, is alive, and no linker without one of them.

*SpirvParser* (`SpirvParserProofs`), for any instructions, programs and names that the
assumptions allow, in any order of calls. The properties speak of the end of the scan, so
each invariant says what is read *before the i-th instruction*; at the end that is all.
`TypeInv` (`TypeCorrect`) adds to `TypeOK` the shape of the Module and the types of the
parser's tables. `TablesInv` says that the tables have the names, pointers and types of the
instructions before `i`; since those come first, `NamedIsDeclared` concludes that the parser
makes of a variable what the program declares. On it rest:

- `StructsAlwaysAsDeclared`, from `StructsInv`: before its instruction, a struct that is
  orderly has the members that `OpMemberName` made, up to the last one named; that
  instruction then types exactly these. No other struct of the name can come between.
- `FunctionsAlwaysAsDeclared`, from `FunctionsInv`: `PlaceRead` says which function the scan
  is in and what the last line was, `FunctionsRead` what is filed under each name, of which
  one part holds of all functions of the name and one of a function that is alone. It needs
  that a position is in one function at most (`OneFunction`, from `FunctionsEnd`).
- `UniformsAlwaysAsDeclared`, from both: a nameless buffer adds the members of its struct,
  which was declared before it, and a function's locals are told from globals by its name.
- `FunctionReadersAlwaysAgree`, of `FunctionReaders`, from `ReadersInv`: what is filed of
  functions *without* a name, too (`NamelessRead`), and that the two conversions say the same
  of every type that both know (`TypesAgree`).

- `LeavesAlwaysThePaths`, of `ShaderReflection`. It says nothing of the scan, only of the
  program, hence `ReadersInv` gives it all it needs: that `ir` is a program. `Covers` relates a
  list to the names of its leaves, each once, and the proof is a calculus of it: a leaf covers
  its name (`LeafCovers`), lists whose names are apart cover the union when they are joined
  (`ConcatCovers`, `JoinedCovers`), and a parent covers what its children do (`ParentCovers`).
  Names are apart because they go on with different steps (`NamesApart`): of distinct members,
  or of distinct elements. `NestedStructsCover` is the induction over the depth, with
  `StructCovers` as its step; a resource is of one kind (`KindsApart`), which puts the four
  lists of `GetUniforms` together.

The recursive functions that gather variables in order are unfolded by `VariablesUnfold`,
`UniformsUnfold` and `ParametersUnfold`, those over types by `ShapeIs`, `WaysUnfold`,
`FollowedUnfold` and `UniformListsUnfold`. They rest on `RecursionExists`: a recursion over the
first numbers has a solution. Induction over them is `BoundedInduction`, from the least
exception.

*ShaderPreprocess* (`ShaderPreprocessProofs`), for any files, texts and number of files that
can be open: `TypeCorrect` and `IncludesFlattened`, both from `ReadingInv`, which is
`TypesOK` with `StackReads`: the top of the stack has
read the expansion of its lines so far, and each activation below it that of all but the
include it waits for, in a file that the one above reads. How far an expansion goes depends
on how many files are open already; that what the stack leaves is enough is an induction
downwards from its end. `ResultIsExpansion` carries the answer past the call.
`PreparedTextsInOrder` is from `ResultIsPrepared`: the version is put before everything else
or not at all, and leaves the first mention of an include what it was (`SameFirstMention`);
the extension is put at that mention, and lemmas on splicing compare the places.

*ShaderInfo* (`ShaderInfoProofs`), for any trees that satisfy the assumption, any names and
any calls in any order. What is proved of a traversal rests on what `todo` is: a *forest*
(`IsForest`), trees that follow each other without a gap up to the last node that the
traversal will reach, so that its first tree (`First`) is the place in the source, and
everything before that place was visited or passed over. Visiting a node, and passing over
what is under it, leave a forest (`ForestVisit`, `ForestRest`).

- `LastDefinitionAlwaysFound`, from `FinderInv`: what was found is the last definition before
  the place (`FoundBefore`). The finder passes over the body of a definition that matches;
  no definition is lost in it, because definitions do not nest.
- `SymbolsAlwaysAsUsed`, from `TracerInv`: the list is what it was and what the nodes before
  the place say (`IsTracedTo`), and every assignment before it that hides something is closed,
  that is, all under it is before the place too (`ClosedBefore`). Hence the next node is not
  hidden by an earlier one (`PlaceIsKept`), and the whole subtree of an assignment to a
  symbol, and nothing else, is skipped (`PassAssignment`).

The code walks the left side of an operand and collects accesses from outside to inside, the
property describes them by the numbers of the nodes; `LValueIs` shows that the two are the
same for each node, hence `ReportsAsSaid`. `Nesting` says of two nodes that one is under the
other or their trees are apart. Functions on a tree are defined from later nodes to earlier
ones: `BackwardRecursionExists` says that such a recursion has a solution, and
`BackwardInduction`, from the greatest exception, is the induction over it.

Model-checked only: the two liveness properties, `ScanEnds` and `CallsReturn`. They need
fairness and ENABLED, which are out of the prover's reach. Every invariant and every step
property of the runs that pass is a theorem. Induction over data is out of reach as well;
so what is recursive here is a function of a number, up to a bound that the program or
the limit of open files gives, and its proofs are inductions over that number.
The two runs that are expected to fail state nothing to prove.

## 5. Not modelled

`spirv::Linker` parses into a fresh Module and hands copies of the words to spirv-tools,
whose status and result it drops: nothing it does can be observed. Of `ShaderPreprocess`,
`RemoveIncludes` has a caller only under `UNIQUE_INCLUDE_MODULE`, `PrepareHLSL` and
`StringReplace` rewrite wording. Of `ShaderInfo`, `GetFunctionParameters` copies fields of
nodes. Of `ShaderTrans`, `ScIncludeHandler` and the options of compilers. Of
`ShaderBuilder`, the code under `UNIQUE_INCLUDE_MODULE` is not compiled,
`LinkSpvgentwo` has no caller, and `ConnectCSMain` is `Link` followed by text surgery. Of
`SpirvGenTwo`, constants and queries change no block. That no operation emits a null operand,
and that Link gives main's variables ids, is in the model and no property: each would repeat
one guard or one call. Variables that are added to a library after its ids were given have
none when the library is written, and `ReturnValue` does not check its operand; the models do
the same, and no document says otherwise. Tables (`Type2GLSLang`,
`ShaderProfileName`, `ConfigGLSL.h`), logging, and the disassembler have no behaviour that
a property could be about. In a library whose code did not compile, `AddModule` erases
from an empty list (`ShaderBuilder.cpp:267`); this is undefined behaviour below the
model's level, and the model takes the outcome in which the module is registered.

## 6. Plan

Done: `NameTable`, `ShaderBuilder`, `SpirvGenTwo`, `Translation`, `GlslangProcess`,
`CompilerDX`, `SpirvParser`, `FunctionReaders`, `ShaderReflection`, `ShaderPreprocess`,
`ShaderInfo`; theorems about all of them. Left:
`SpirvGenTwo::QueryFunction` and the access to parameters, composed with `SpirvParser`.
