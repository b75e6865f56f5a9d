--------------------------- MODULE ShaderBuilder ---------------------------
(***************************************************************************)
(* shadertrans::ShaderBuilder: the registry of library modules, the main   *)
(* module under construction, the three name caches, the set of exported   *)
(* names, and Link, which writes every module out and forgets the caches   *)
(* but neither the variables nor the decorations already emitted.          *)
(*                                                                         *)
(* A call that returns without changing anything (a cached input, a type   *)
(* the builder does not know, an export already declared, a module already *)
(* registered, an HLSL compiler that throws) is a stuttering step: its     *)
(* condition is the negation of a guard below.                             *)
(***************************************************************************)
EXTENDS Integers, Sequences, FiniteSets

CONSTANTS
    Names,          \* the names callers ask for
    Suffix(_, _),   \* name + std::to_string(i)
    Types,          \* the type strings callers pass
    ModuleNames, Codes,       \* names and source texts given to AddModule
    Funcs,          \* the functions callers declare or replace
    Home,           \* Funcs -> the module a function lives in
    Main,           \* the module name that stands for m_main in Home
    LinkNames,      \* the names given to AddLinkDecl
    MaxInsts, MaxDecls, MaxLinks      \* bounds of the exploration

ASSUME BoundsAssumption ==
    MaxInsts \in Nat \ {0} /\ MaxDecls \in Nat /\ MaxLinks \in Nat

ASSUME HomeAssumption ==
    Main \notin ModuleNames /\ Home \in [Funcs -> ModuleNames \cup {Main}]

\* Decimal suffixes of one name differ.
ASSUME SuffixAssumption ==
    \A n \in Names : \A i, j \in 1..MaxInsts : Suffix(n, i) = Suffix(n, j) => i = j

VARIABLES
    modules,        \* m_modules: registered libraries, in order, main excluded
    insts,          \* variables created so far; a handle is an index of insts
    ided,           \* the handles that have a SPIR-V result id
    callee,         \* what the calls of a function in its own module call now
    inputs, outputs, uniforms,        \* m_input_cache, m_output_cache, m_uniform_cache
    exported,       \* m_added_export_link_decl
    decls,          \* the linkage decorations emitted so far
    links           \* history: how many times Link ran

caches == <<inputs, outputs, uniforms>>
vars == <<modules, insts, ided, callee, caches, exported, decls, links>>

-----------------------------------------------------------------------------
InterfaceTypes == {"bool", "int", "float", "vec2", "vec3", "vec4"}
UniformTypes == InterfaceTypes \cup {"texture", "cubemap"}

\* AddUniform names these after the request, the others after the free name.
RequestNamedTypes == {"bool", "int"}

MainModule == 0     \* a module is MainModule or an index of modules
Handles == DOMAIN insts
NextHandle == Len(insts) + 1

\* OpNames and cache keys: a requested name, or one with a suffix.
AllNames == Names \cup {Suffix(n, i) : n \in Names, i \in 1..MaxInsts}

EmptyMap == [n \in {} |-> n]

\* std::map::insert: an entry that exists is left as it is.
MapInsert(map, k, v) ==
    [x \in DOMAIN map \cup {k} |-> IF x \in DOMAIN map THEN map[x] ELSE v]

NewInst(m, kind, name, type) ==
    /\ Len(insts) < MaxInsts
    /\ insts' = Append(insts, [module |-> m, kind |-> kind, name |-> name,
                               type |-> type, epoch |-> links])

\* Module::assignIDs of module m.
AssignIDs(m) == ided' = ided \cup {h \in Handles : insts[h].module = m}

\* Mutant: a module whose code did not compile is looked up in vain.
RegisteredAndCompiled(n) == \E i \in DOMAIN modules : modules[i].name = n /\ modules[i].ok

Registered(n) == \E i \in DOMAIN modules : modules[i].name = n

\* FindModule, for a name that is registered: the first match.
FindModule(n) == CHOOSE i \in DOMAIN modules :
    modules[i].name = n /\ \A j \in 1..(i - 1) : modules[j].name # n

\* The module objects a caller can hold.
ModuleRefs == {MainModule} \cup DOMAIN modules

\* A library function exists once its module is registered and was compiled.
Exists(f) ==
    \/ Home[f] = Main
    \/ Registered(Home[f]) /\ modules[FindModule(Home[f])].ok

OwnerOf(f) == IF Home[f] = Main THEN MainModule ELSE FindModule(Home[f])

-----------------------------------------------------------------------------
Init ==
    /\ modules = <<>> /\ insts = <<>> /\ ided = {} /\ callee = [f \in Funcs |-> f]
    /\ inputs = EmptyMap /\ outputs = EmptyMap /\ uniforms = EmptyMap
    /\ exported = {} /\ decls = <<>> /\ links = 0

\* Mutant: the cache entry is made even when no variable was created.
AddInputCachesNull(name, type) ==
    /\ name \notin DOMAIN inputs
    /\ \/ type \in InterfaceTypes /\ NewInst(MainModule, "input", name, type)
       \/ type \notin InterfaceTypes /\ UNCHANGED insts
    /\ inputs' = MapInsert(inputs, name, NextHandle)
    /\ UNCHANGED <<modules, ided, callee, outputs, uniforms, exported, decls, links>>

AddInput(name, type) ==
    /\ name \notin DOMAIN inputs
    /\ type \in InterfaceTypes
    /\ NewInst(MainModule, "input", name, type)
    /\ inputs' = MapInsert(inputs, name, NextHandle)
    /\ UNCHANGED <<modules, ided, callee, outputs, uniforms, exported, decls, links>>

AddOutput(name, type) ==
    /\ name \notin DOMAIN outputs
    /\ type \in InterfaceTypes
    /\ NewInst(MainModule, "output", name, type)
    /\ outputs' = MapInsert(outputs, name, NextHandle)
    /\ UNCHANGED <<modules, ided, callee, inputs, uniforms, exported, decls, links>>

\* Mutant: the requested name is used although it is taken.
NameEvenIfTaken(name) == name

\* GetAvaliableUnifName: the name, else the first of name1, name2, ... that is
\* free. MaxInsts suffixes are enough: fewer names are taken.
GetAvaliableUnifName(name) ==
    IF name \notin DOMAIN uniforms THEN name
    ELSE Suffix(name, CHOOSE i \in 1..MaxInsts :
            /\ Suffix(name, i) \notin DOMAIN uniforms
            /\ \A j \in 1..(i - 1) : Suffix(name, j) \in DOMAIN uniforms)

\* Mutant: every type is named after the request, as bool and int are.
OpNameIsRequest(name, type) == name

\* The OpName a uniform is created with.
UniformOpName(name, type) ==
    IF type \in RequestNamedTypes THEN name ELSE GetAvaliableUnifName(name)

\* Mutant: m_uniform_cache[name] = ret.
AddUniformOverwrites(m, name, type) ==
    /\ type \in UniformTypes
    /\ NewInst(m, "uniform", UniformOpName(name, type), type)
    /\ uniforms' = [k \in DOMAIN uniforms \cup {name} |->
                      IF k = name THEN NextHandle ELSE uniforms[k]]
    /\ UNCHANGED <<modules, ided, callee, inputs, outputs, exported, decls, links>>

AddUniform(m, name, type) ==
    /\ type \in UniformTypes
    /\ NewInst(m, "uniform", UniformOpName(name, type), type)
    /\ uniforms' = MapInsert(uniforms, GetAvaliableUnifName(name), NextHandle)
    /\ UNCHANGED <<modules, ided, callee, inputs, outputs, exported, decls, links>>

\* The keys under which QueryUniformName finds a handle.
QueryUniformName(h) == {k \in DOMAIN uniforms : uniforms[k] = h}

\* Mutant: a module that did not compile is made anew.
AddModuleRetries(name, code) ==
    /\ ~RegisteredAndCompiled(name)
    /\ \E ok \in BOOLEAN :
          modules' = IF Registered(name)
                     THEN [modules EXCEPT ![FindModule(name)] =
                              [name |-> name, code |-> code, ok |-> ok]]
                     ELSE Append(modules, [name |-> name, code |-> code, ok |-> ok])
    /\ UNCHANGED <<insts, ided, callee, caches, exported, decls, links>>

\* AddModule registers the module whether or not its code compiled.
AddModule(name, code) ==
    /\ ~Registered(name)
    /\ \E ok \in BOOLEAN :
          modules' = Append(modules, [name |-> name, code |-> code, ok |-> ok])
    /\ UNCHANGED <<insts, ided, callee, caches, exported, decls, links>>

\* Module::replace, of the module of from: what called from calls to.  Calls in other
\* modules that were given from as a replacement keep it.
Replace(from, to) ==
    callee' = [f \in Funcs |->
                  IF Home[f] = Home[from] /\ callee[f] = from THEN to ELSE callee[f]]

\* ReplaceFunc gives ids to the module of the function that is replaced.
ReplaceFunc(from, to) ==
    /\ Exists(from) /\ Exists(to)
    /\ Replace(from, to)
    /\ AssignIDs(OwnerOf(from))
    /\ UNCHANGED <<modules, insts, caches, exported, decls, links>>

Decorate(func, name, kind) ==
    /\ Len(decls) < MaxDecls
    /\ decls' = Append(decls, [func |-> func, name |-> name, kind |-> kind,
                               epoch |-> links])

\* Mutant: imports are remembered with the exports.
AddLinkDeclRemembersAll(func, name, is_export) ==
    /\ Exists(func)
    /\ ~(is_export /\ name \in exported)
    /\ Decorate(func, name, IF is_export THEN "export" ELSE "import")
    /\ exported' = exported \cup {name}
    /\ UNCHANGED <<modules, insts, ided, callee, caches, links>>

AddLinkDecl(func, name, is_export) ==
    /\ Exists(func)
    /\ ~(is_export /\ name \in exported)
    /\ Decorate(func, name, IF is_export THEN "export" ELSE "import")
    /\ exported' = IF is_export THEN exported \cup {name} ELSE exported
    /\ UNCHANGED <<modules, insts, ided, callee, caches, links>>

\* Mutant: the output cache survives.
ResetStateKeepsOutputs ==
    /\ exported' = {}
    /\ inputs' = EmptyMap /\ uniforms' = EmptyMap /\ UNCHANGED outputs

ResetState ==
    /\ exported' = {}
    /\ inputs' = EmptyMap /\ outputs' = EmptyMap /\ uniforms' = EmptyMap

\* LinkSpvtools resets the builder first, then writes every library and main, and
\* links and renames what was written: modules, variables and decorations stay.
LinkSpvtools ==
    /\ ResetState
    /\ UNCHANGED <<modules, insts, callee, decls>>

\* Link gives ids to main's variables and leaves the rest to LinkSpvtools.
Link ==
    /\ links < MaxLinks
    /\ AssignIDs(MainModule)
    /\ LinkSpvtools
    /\ links' = links + 1

Next ==
    \/ \E n \in Names, t \in Types :
          \/ AddInput(n, t)
          \/ AddOutput(n, t)
          \/ \E m \in ModuleRefs : AddUniform(m, n, t)
    \/ \E n \in ModuleNames, c \in Codes : AddModule(n, c)
    \/ \E f, g \in Funcs : ReplaceFunc(f, g)
    \/ \E f \in Funcs, n \in LinkNames, e \in BOOLEAN : AddLinkDecl(f, n, e)
    \/ Link

Spec == Init /\ [][Next]_vars

-----------------------------------------------------------------------------
InstRecords == [module : Nat, kind : {"input", "output", "uniform"},
                name : AllNames, type : Types, epoch : 0..MaxLinks]

DeclRecords == [func : Funcs, name : LinkNames, kind : {"export", "import"},
                epoch : 0..MaxLinks]

\* A cache: keys that are names, entries that are live instructions.
IsCache(c) == DOMAIN c \subseteq AllNames /\ c \in [DOMAIN c -> Handles]

\* Type invariant of the builder (ShaderBuilder.h); no cache holds a null pointer.
TypeOK ==
    /\ modules \in Seq([name : ModuleNames, code : Codes, ok : BOOLEAN])
    /\ insts \in Seq(InstRecords) /\ Len(insts) <= MaxInsts
    /\ \A h \in Handles : insts[h].epoch <= links
    /\ ided \subseteq Handles /\ callee \in [Funcs -> Funcs]
    /\ IsCache(inputs) /\ IsCache(outputs) /\ IsCache(uniforms)
    /\ exported \subseteq LinkNames
    /\ decls \in Seq(DeclRecords)
    /\ links \in 0..MaxLinks

\* The handles of one kind created since the last Link.
Current(kind) == {h \in Handles : insts[h].kind = kind /\ insts[h].epoch = links}

\* Every uniform created since the last Link, in whichever module, answers to
\* exactly one name in QueryUniformName, its OpName unless it is a bool or an
\* int; an older one answers to none.
UniformsQueryable ==
    \A h \in Handles :
        IF h \in Current("uniform")
        THEN \E k \in AllNames :
                /\ QueryUniformName(h) = {k}
                /\ insts[h].name = k \/ insts[h].type \in RequestNamedTypes
        ELSE QueryUniformName(h) = {}

\* The names of a cache are those of the current variables of its kind: main
\* never declares two inputs, or two outputs, of one name between two Links.
CachedByName(cache, kind) ==
    /\ \A n \in DOMAIN cache : /\ cache[n] \in Current(kind)
                              /\ insts[cache[n]].name = n
                              /\ insts[cache[n]].module = MainModule
    /\ \A h \in Current(kind) : \E n \in DOMAIN cache : cache[n] = h

InterfaceMatchesCaches == CachedByName(inputs, "input") /\ CachedByName(outputs, "output")

\* Uniforms that are not bool or int have OpNames of their own, over all the
\* modules that one Link puts together: the shared cache is what makes it so.
\* Two such uniforms may share a name only if a Link came between them.
UniformNamesDistinct ==
    \A g, h \in Handles :
        (/\ insts[g].kind = "uniform" /\ insts[g].type \notin RequestNamedTypes
         /\ insts[h].kind = "uniform" /\ insts[h].type \notin RequestNamedTypes
         /\ insts[g].epoch = insts[h].epoch /\ insts[g].name = insts[h].name)
        => g = h

IsExport(d) == decls[d].kind = "export"

\* The set of exported names is the set of export decorations emitted since the
\* last Link, one each; older decorations are still in their modules, so a
\* name has at most one export decoration per Link.
ExportsMatchDecorations ==
    /\ exported = {decls[d].name : d \in {e \in DOMAIN decls :
                                            IsExport(e) /\ decls[e].epoch = links}}
    /\ \A d, e \in DOMAIN decls :
          (/\ IsExport(d) /\ IsExport(e)
           /\ decls[d].name = decls[e].name /\ decls[d].epoch = decls[e].epoch)
          => d = e

\* One module per name, compiled or not.
RegistryNamesDistinct ==
    \A i, j \in DOMAIN modules : modules[i].name = modules[j].name => i = j

\* What AddModule returns for a name never changes: neither other code nor
\* a second attempt replaces a module that failed to compile.
FirstRegistrationWins ==
    [][\A n \in ModuleNames : Registered(n) =>
          Registered(n)' /\ modules'[FindModule(n)'] = modules[FindModule(n)]]_vars

\* Each cache keeps the promise of NameTable.
Inputs   == INSTANCE NameTable WITH Keys <- AllNames, Holders <- 1..MaxInsts,
                                    table <- inputs, issued <- DOMAIN insts
Outputs  == INSTANCE NameTable WITH Keys <- AllNames, Holders <- 1..MaxInsts,
                                    table <- outputs, issued <- DOMAIN insts
Uniforms == INSTANCE NameTable WITH Keys <- AllNames, Holders <- 1..MaxInsts,
                                    table <- uniforms, issued <- DOMAIN insts

\* All three caches refine NameTable: no variable is handed out under two names
\* of a cache, and only Link takes a name back.
CachesAreNameTables == Inputs!TableSpec /\ Outputs!TableSpec /\ Uniforms!TableSpec
=============================================================================
