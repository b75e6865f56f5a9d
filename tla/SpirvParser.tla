---------------------------- MODULE SpirvParser ----------------------------
(***************************************************************************)
(* spirv::Parser::Parse as a scan: one step per instruction of a SPIR-V    *)
(* module, over the parser's own tables (names, pointers, types, the       *)
(* function being read, the last OpLine) and the spirv::Module it fills.   *)
(* A Module may be filled again; spirv::Linker fills a fresh one each time.*)
(*                                                                         *)
(* An instruction is a record of its opcode and the operands the parser    *)
(* reads.  ZeroWords stands for an instruction whose word count is zero,   *)
(* Other for the opcodes the parser has no case for.                       *)
(***************************************************************************)
EXTENDS Integers, Sequences, FiniteSets

CONSTANTS
    Instructions,   \* the instructions of the programs
    Programs,       \* the sequences of instructions that Parse is given
    Names,          \* the strings in them; what has no name has the name ""
    AfterDot(_),    \* external: of a string, what is after the first '.', or all of it
    BeforeParen(_)  \* external: of a string, what is before the first '(', or all of it

Scalars  == {"Bool", "Int", "Float"}
Counters == {"arithmetic", "bit", "logical", "texture", "derivative", "control_flow"}

TypeOps == Scalars \cup {"TypeVector", "TypeMatrix", "TypeStruct", "TypePointer"}
OfAType == {"TypePointer", "TypeVector", "TypeMatrix",
            "Variable", "Function", "FunctionParameter"}
WithAnId == TypeOps \cup OfAType \cup {"Name", "MemberName"}

\* The operands that the parser reads.
IsInstruction(inst) ==
    /\ inst.op \in WithAnId => inst.id \in Nat
    /\ inst.op \in OfAType => inst.type \in Nat
    /\ inst.op \in {"Name", "MemberName"} => inst.name \in Names
    /\ inst.op = "MemberName" => inst.index \in Nat
    /\ inst.op = "Line" => inst.line \in Nat
    /\ inst.op \in {"TypeVector", "TypeMatrix"} => inst.count \in Nat
    /\ inst.op = "TypeStruct" => inst.members \in Seq(Nat)

Positions(p, op) == {k \in DOMAIN p : p[k].op = op}

\* The types that an instruction mentions.
Mentions(inst, id) ==
    \/ inst.op \in OfAType /\ inst.type = id
    \/ inst.op = "TypeStruct" /\ \E m \in DOMAIN inst.members : inst.members[m] = id

\* No id has two names or two types, and no member two names.
DeclaredOnce(p) ==
    /\ \A k, l \in Positions(p, "Name") : p[k].id = p[l].id => k = l
    /\ \A k, l \in Positions(p, "MemberName") :
            p[k].id = p[l].id /\ p[k].index = p[l].index => k = l
    /\ \A k, l \in DOMAIN p :
            p[k].op \in TypeOps /\ p[l].op \in TypeOps /\ p[k].id = p[l].id => k = l

\* Names come before all that can have one, a struct's own before its members',
\* and types before what mentions them.
DeclaredFirst(p) ==
    /\ \A k \in DOMAIN p : p[k].op \in {"Name", "MemberName"} =>
            \A l \in DOMAIN p : p[l].op \in TypeOps \cup OfAType => k < l
    /\ \A k \in Positions(p, "Name"), l \in Positions(p, "MemberName") :
            p[k].id = p[l].id => k < l
    /\ \A k \in DOMAIN p : p[k].op \in TypeOps =>
            \A l \in DOMAIN p : Mentions(p[l], p[k].id) => k < l

\* The members that are named exist, vectors are of scalars.
WellTyped(p) ==
    /\ \A k \in Positions(p, "MemberName") : \E s \in Positions(p, "TypeStruct") :
            p[s].id = p[k].id /\ p[k].index < Len(p[s].members)
    /\ \A k \in Positions(p, "TypeVector") : \E l \in DOMAIN p :
            p[l].op \in Scalars /\ p[l].id = p[k].type

\* Functions do not overlap; each has an end, and each end and parameter a function.
FunctionsEnd(p) ==
    /\ \A f \in Positions(p, "Function") : \E e \in Positions(p, "FunctionEnd") :
            f < e /\ \A g \in Positions(p, "Function") : ~(f < g /\ g < e)
    /\ \A k \in Positions(p, "FunctionEnd") \cup Positions(p, "FunctionParameter") :
            \E f \in Positions(p, "Function") :
                f < k /\ \A e \in Positions(p, "FunctionEnd") : ~(f < e /\ e < k)

ASSUME NamesAssumption ==
    /\ "" \in Names
    /\ \A name \in Names : AfterDot(name) \in Names /\ BeforeParen(name) \in Names
ASSUME InstructionsAssumption == \A inst \in Instructions : IsInstruction(inst)

\* Programs are laid out as compilers write them.
ASSUME ProgramsAssumption ==
    \A p \in Programs : /\ p \in Seq(Instructions)
                        /\ DeclaredOnce(p) /\ DeclaredFirst(p)
                        /\ WellTyped(p) /\ FunctionsEnd(p)

VARIABLES
    ir,             \* the vector being parsed
    i,              \* the instruction that is next
    curFunc, lastOpLine,
    names, pointers, types,
    module          \* the spirv::Module

tables == <<curFunc, lastOpLine, names, pointers, types>>
vars == <<ir, i, tables, module>>

-----------------------------------------------------------------------------
Empty == <<>>       \* the map without entries

\* External: map[key] = value.
Put(map, key, value) ==
    [k \in DOMAIN map \cup {key} |-> IF k = key THEN value ELSE map[k]]

\* External: map[key], which makes the entry when there is none.
At(map, key, default) == IF key \in DOMAIN map THEN map[key] ELSE default

NewVariable == [name |-> "", type |-> "Unknown", base |-> "Unknown",
                comp_count |-> 1, type_name |-> ""]

\* A Function that operator[] makes is zeroed.
NewFunction == [index |-> 0, line_start |-> 0, line_end |-> 0,
                arguments |-> <<>>, locals |-> <<>>, ret_type |-> NewVariable]

NoType == [type |-> "Void", of |-> 0, comp |-> "Void", count |-> 0]

NameOf(id) == At(names, id, "")

\* fetchType: pointers are followed once, an id without a type is Void, and what
\* the type does not say keeps its value.
FetchType(var, id) ==
    LET info == At(types, At(pointers, id, id), NoType)
    IN  [var EXCEPT
            !.type = info.type,
            !.base = IF info.type = "Vector" THEN info.comp ELSE info.type,
            !.comp_count = IF info.type \in {"Vector", "Matrix"} THEN info.count ELSE @,
            !.type_name = IF info.type = "Struct" THEN NameOf(info.of) ELSE @]

Named(name, id) == FetchType([NewVariable EXCEPT !.name = name], id)

\* Mutant: the uniforms of the module that was there before stay.
ClearedButUniforms(m) ==
    [functions |-> Empty, user_types |-> Empty, uniforms |-> m.uniforms,
     globals |-> <<>>, barrier_used |-> FALSE, local_size |-> <<1, 1, 1>>,
     counts |-> [c \in Counters |-> 0]]

\* What Parse makes of a Module before it scans.
Cleared(m) ==
    [functions |-> Empty, user_types |-> Empty, uniforms |-> <<>>,
     globals |-> <<>>, barrier_used |-> FALSE, local_size |-> <<1, 1, 1>>,
     counts |-> [c \in Counters |-> 0]]

-----------------------------------------------------------------------------
Init ==
    /\ ir = <<>> /\ i = 1
    /\ curFunc = "" /\ lastOpLine = -1
    /\ names = Empty /\ pointers = Empty /\ types = Empty
    /\ module = Cleared([uniforms |-> <<>>])

Done == i > Len(ir)

Parse(program) ==
    /\ Done
    /\ ir' = program /\ i' = 1
    /\ curFunc' = "" /\ lastOpLine' = -1
    /\ names' = Empty /\ pointers' = Empty /\ types' = Empty
    /\ module' = Cleared(module)

\* Mutant: opcodes without a case are not stepped over.
StepOverKnown(inst) == IF inst.op \in {"ZeroWords", "Other"} THEN 0 ELSE 1

\* i = iStart + wordCount + 1: with a word count of zero the subtraction at
\* line 92 and this addition cancel, and the scan stays where it is.
StepOver(inst) == IF inst.op = "ZeroWords" THEN 0 ELSE 1

\* The instruction that is next has the opcode; the scan moves on.
Reads(op) == ~Done /\ ir[i].op = op /\ i' = i + StepOver(ir[i]) /\ UNCHANGED ir

OpName ==
    /\ Reads("Name")
    /\ names' = Put(names, ir[i].id, ir[i].name)
    /\ UNCHANGED <<curFunc, lastOpLine, pointers, types, module>>

\* Mutant: every OpLine moves the start of the function.
OpLineRestarts ==
    /\ Reads("Line")
    /\ lastOpLine' = ir[i].line
    /\ module' = IF curFunc # ""
                 THEN [module EXCEPT !.functions[curFunc].line_start = ir[i].line]
                 ELSE module
    /\ UNCHANGED <<curFunc, names, pointers, types>>

OpLine ==
    /\ Reads("Line")
    /\ lastOpLine' = ir[i].line
    /\ module' = IF curFunc # "" /\ module.functions[curFunc].line_start = -1
                 THEN [module EXCEPT !.functions[curFunc].line_start = ir[i].line]
                 ELSE module
    /\ UNCHANGED <<curFunc, names, pointers, types>>

\* Mutant: a struct that is known by name keeps the types it has.
StructMembersOnce(name, operands) ==
    IF name \in DOMAIN module.user_types THEN module.user_types[name]
    ELSE [j \in DOMAIN operands |-> FetchType(NewVariable, operands[j])]

\* The members of a struct: one per operand; but those that OpMemberName made, or
\* that another struct of the name left, get their types and none is added.
StructMembers(name, operands) ==
    IF name \in DOMAIN module.user_types
    THEN [j \in DOMAIN module.user_types[name] |->
            IF j \in DOMAIN operands
            THEN FetchType(module.user_types[name][j], operands[j])
            ELSE module.user_types[name][j]]
    ELSE [j \in DOMAIN operands |-> FetchType(NewVariable, operands[j])]

OpTypeStruct ==
    /\ Reads("TypeStruct")
    /\ LET name == NameOf(ir[i].id)
       IN  module' = [module EXCEPT !.user_types =
                Put(@, name, StructMembers(name, ir[i].members))]
    /\ types' = Put(types, ir[i].id, [NoType EXCEPT !.type = "Struct", !.of = ir[i].id])
    /\ UNCHANGED <<curFunc, lastOpLine, names, pointers>>

\* The member is made, with those before it, when the struct does not have it.
OpMemberName ==
    /\ Reads("MemberName")
    /\ LET owner == NameOf(ir[i].id)
           known == At(module.user_types, owner, <<>>)
           at    == ir[i].index + 1
           room  == IF at > Len(known) THEN at ELSE Len(known)
           mems  == [j \in 1..room |-> IF j \in DOMAIN known THEN known[j] ELSE NewVariable]
       IN  module' = [module EXCEPT !.user_types =
                Put(@, owner, [mems EXCEPT ![at].name = ir[i].name])]
    /\ UNCHANGED tables

\* What a function is filed under: the qualification and the parameters are cut off.
Trimmed(name) == BeforeParen(AfterDot(name))

\* Mutant: the function is not filed before its first parameter or line.
OpFunctionUnfiled ==
    /\ Reads("Function")
    /\ curFunc' = Trimmed(NameOf(ir[i].id))
    /\ UNCHANGED <<lastOpLine, names, pointers, types, module>>

OpFunction ==
    /\ Reads("Function")
    /\ LET name == Trimmed(NameOf(ir[i].id))
           func == At(module.functions, name, NewFunction)
       IN  /\ curFunc' = name
           /\ module' = [module EXCEPT !.functions = Put(@, name,
                [func EXCEPT !.ret_type = FetchType(@, ir[i].type), !.line_start = -1,
                             !.index = Cardinality(DOMAIN module.functions \cup {name}) - 1])]
    /\ UNCHANGED <<lastOpLine, names, pointers, types>>

OpFunctionEnd ==
    /\ Reads("FunctionEnd")
    /\ module' = [module EXCEPT !.functions[curFunc].line_end = lastOpLine]
    /\ lastOpLine' = -1 /\ curFunc' = ""
    /\ UNCHANGED <<names, pointers, types>>

\* A uniform without a name is its members.
UniformsOf(uni) ==
    IF uni.name # "" THEN <<uni>> ELSE At(module.user_types, uni.type_name, <<>>)

\* The storage class is looked at outside of functions only: a function without
\* a name does not count as one.
OpVariable ==
    /\ Reads("Variable")
    /\ LET var == Named(NameOf(ir[i].id), ir[i].type)
       IN  module' =
            CASE curFunc # "" -> [module EXCEPT !.functions[curFunc].locals = Append(@, var)]
              [] curFunc = "" /\ ir[i].storage = "Uniform" ->
                    [module EXCEPT !.uniforms = @ \o UniformsOf(var)]
              [] curFunc = "" /\ ir[i].storage # "Uniform" /\ var.name # "" ->
                    [module EXCEPT !.globals = Append(@, var)]
              [] OTHER -> module
    /\ UNCHANGED tables

OpFunctionParameter ==
    /\ Reads("FunctionParameter")
    /\ module' = [module EXCEPT !.functions[curFunc].arguments =
                    Append(@, Named(NameOf(ir[i].id), ir[i].type))]
    /\ UNCHANGED tables

OpTypePointer ==
    /\ Reads("TypePointer")
    /\ pointers' = Put(pointers, ir[i].id, ir[i].type)
    /\ UNCHANGED <<curFunc, lastOpLine, names, types, module>>

OpTypeScalar ==
    /\ \E s \in Scalars : /\ Reads(s)
                          /\ types' = Put(types, ir[i].id, [NoType EXCEPT !.type = s])
    /\ UNCHANGED <<curFunc, lastOpLine, names, pointers, module>>

OpTypeVector ==
    /\ Reads("TypeVector")
    /\ types' = Put(types, ir[i].id,
            [type |-> "Vector", of |-> 0, count |-> ir[i].count,
             comp |-> At(types, ir[i].type, NoType).type])
    /\ UNCHANGED <<curFunc, lastOpLine, names, pointers, module>>

\* A matrix counts its columns and has the components of their vectors.
OpTypeMatrix ==
    /\ Reads("TypeMatrix")
    /\ types' = Put(types, ir[i].id,
            [type |-> "Matrix", of |-> 0, count |-> ir[i].count,
             comp |-> At(types, ir[i].type, NoType).comp])
    /\ UNCHANGED <<curFunc, lastOpLine, names, pointers, module>>

OpExecutionMode ==
    /\ Reads("LocalSize")
    /\ module' = [module EXCEPT !.local_size = ir[i].size]
    /\ UNCHANGED tables

OpBarrier ==
    /\ Reads("Barrier")
    /\ module' = [module EXCEPT !.barrier_used = TRUE]
    /\ UNCHANGED tables

\* The instructions that are only counted, by family.
Count ==
    /\ \E c \in Counters : Reads(c) /\ module' = [module EXCEPT !.counts[c] = @ + 1]
    /\ UNCHANGED tables

Skip ==
    /\ Reads("Other") \/ Reads("ZeroWords")
    /\ UNCHANGED <<tables, module>>

Scan ==
    \/ OpName \/ OpLine \/ OpTypeStruct \/ OpMemberName
    \/ OpFunction \/ OpFunctionEnd \/ OpVariable \/ OpFunctionParameter
    \/ OpTypePointer \/ OpTypeScalar \/ OpTypeVector \/ OpTypeMatrix
    \/ OpExecutionMode \/ OpBarrier \/ Count \/ Skip

Next == Scan \/ \E p \in Programs : Parse(p)

\* The loop of Parse goes on by itself; nobody has to call Parse again.
Spec == Init /\ [][Next]_vars /\ WF_vars(Scan)

-----------------------------------------------------------------------------
(* What a program declares, read as a whole: every name is known whatever   *)
(* comes first, and a type is what its own instruction says.                *)

\* The name a program gives to an id, a type's instruction, the type behind a pointer.
DeclaredName(p, id) ==
    LET at == {k \in Positions(p, "Name") : p[k].id = id}
    IN  IF at = {} THEN "" ELSE p[CHOOSE k \in at : TRUE].name
TypeAt(p, id) == CHOOSE k \in DOMAIN p : p[k].op \in TypeOps /\ p[k].id = id
IsDeclared(p, id) == \E k \in DOMAIN p : p[k].op \in TypeOps /\ p[k].id = id
IsPointer(p, id) == IsDeclared(p, id) /\ p[TypeAt(p, id)].op = "TypePointer"
Pointee(p, id) == IF IsPointer(p, id) THEN p[TypeAt(p, id)].type ELSE id

\* A variable of the declared type; what the parser has no case for, and what is
\* behind two pointers, is Void.
Declared(p, name, id) ==
    IF ~IsDeclared(p, Pointee(p, id)) \/ IsPointer(p, Pointee(p, id))
    THEN [NewVariable EXCEPT !.name = name, !.type = "Void", !.base = "Void"]
    ELSE LET t == p[TypeAt(p, Pointee(p, id))] IN
         [NewVariable EXCEPT
            !.name = name,
            !.type = CASE t.op = "TypeStruct" -> "Struct"
                       [] t.op = "TypeVector" -> "Vector"
                       [] t.op = "TypeMatrix" -> "Matrix"
                       [] OTHER -> t.op,
            !.base = CASE t.op = "TypeStruct" -> "Struct"
                       [] t.op = "TypeVector" -> p[TypeAt(p, t.type)].op
                       [] t.op = "TypeMatrix" -> "Matrix"
                       [] OTHER -> t.op,
            !.comp_count = IF t.op \in {"TypeVector", "TypeMatrix"} THEN t.count ELSE 1,
            !.type_name = IF t.op = "TypeStruct" THEN DeclaredName(p, t.id) ELSE ""]

\* The end of the function that starts at f, and the name the parser files it under.
EndOf(p, f) == CHOOSE e \in Positions(p, "FunctionEnd") :
                  e > f /\ \A g \in Positions(p, "FunctionEnd") : g > f => e <= g
KeyOf(p, f) == Trimmed(DeclaredName(p, p[f].id))
InFunction(p, k) == \E f \in Positions(p, "Function") : f < k /\ k < EndOf(p, f)

\* What the instruction at a position declares; and what those of the first
\* instructions declare that are at a set of positions, in order, by how many
\* instructions there are.
DeclaredAt(p, k) == Declared(p, DeclaredName(p, p[k].id), p[k].type)
VariablesAt(p, at) ==
    LET upTo[n \in 0..Len(p)] ==
            IF n = 0 THEN <<>>
            ELSE IF n \in at THEN Append(upTo[n - 1], DeclaredAt(p, n)) ELSE upTo[n - 1]
    IN  upTo

\* The name that OpMemberName gives to the m-th member of a struct; its members.
MemberNames(p, id) == {k \in Positions(p, "MemberName") : p[k].id = id}
DeclaredMember(p, id, m) ==
    LET at == {k \in MemberNames(p, id) : p[k].index = m - 1}
    IN  IF at = {} THEN "" ELSE p[CHOOSE k \in at : TRUE].name
MembersOf(p, s) ==
    [m \in DOMAIN p[s].members |->
        Declared(p, DeclaredMember(p, p[s].id, m), p[s].members[m])]

\* No other struct has the name, and if members are named then the last one is.
Orderly(p, s) ==
    /\ \A t \in Positions(p, "TypeStruct") \ {s} :
          DeclaredName(p, p[t].id) # DeclaredName(p, p[s].id)
    /\ MemberNames(p, p[s].id) # {} =>
          \E k \in MemberNames(p, p[s].id) : p[k].index = Len(p[s].members) - 1

\* The variables outside of functions, by their storage class; those with a name.
Outside(p) == {k \in Positions(p, "Variable") : ~InFunction(p, k)}
UniformsAt(p) == {k \in Outside(p) : p[k].storage = "Uniform"}
NamedAt(p) == {k \in Outside(p) : DeclaredName(p, p[k].id) # ""}

\* The struct that a variable is of.
IsBlock(p, k, s) == s \in Positions(p, "TypeStruct") /\ p[s].id = Pointee(p, p[k].type)

\* The uniforms that an instruction adds, and those of the first instructions: a
\* buffer without a name is its members.
UniformsFrom(p, k) ==
    CASE k \in UniformsAt(p) \cap NamedAt(p) -> <<DeclaredAt(p, k)>>
      [] k \in UniformsAt(p) \ NamedAt(p) /\ (\E s \in DOMAIN p : IsBlock(p, k, s)) ->
            MembersOf(p, CHOOSE s \in DOMAIN p : IsBlock(p, k, s))
      [] OTHER -> <<>>
DeclaredUniforms(p) ==
    LET upTo[n \in 0..Len(p)] ==
            IF n = 0 THEN <<>> ELSE upTo[n - 1] \o UniformsFrom(p, n)
    IN  upTo

NoZeroWords == Positions(ir, "ZeroWords") = {}

-----------------------------------------------------------------------------
TypeNames == Scalars \cup {"Void", "Vector", "Matrix", "Struct", "Unknown"}
Variables == [name : Names, type : TypeNames, base : TypeNames,
              comp_count : Nat, type_name : Names]
Functions == [index : Nat, line_start : Nat \cup {-1}, line_end : Nat \cup {-1},
              arguments : Seq(Variables), locals : Seq(Variables), ret_type : Variables]

\* Type invariant; the function being read is in the map unless it has no name.
TypeOK ==
    /\ i \in 1..(Len(ir) + 1)
    /\ curFunc # "" => curFunc \in DOMAIN module.functions
    /\ lastOpLine \in Nat \cup {-1}
    /\ \A f \in DOMAIN module.functions : module.functions[f] \in Functions
    /\ \A s \in DOMAIN module.user_types : module.user_types[s] \in Seq(Variables)
    /\ module.uniforms \in Seq(Variables) /\ module.globals \in Seq(Variables)
    /\ module.counts \in [Counters -> Nat]

\* spirv_Parser.cpp:146-211: when the scan is over, a function's arguments and
\* locals are, in order, those of all functions filed under its name; and when
\* it is alone under it, its return type, its place among the names and the lines
\* it spans are its own, whatever was before and after it.
FunctionsAsDeclared ==
    Done => LET heads == Positions(ir, "Function")
                In(at) == VariablesAt(ir, at)[Len(ir)]
            IN
    /\ DOMAIN module.functions = {KeyOf(ir, f) : f \in heads}
    /\ \A f \in {g \in heads : KeyOf(ir, g) # ""} :
        LET same == {g \in heads : KeyOf(ir, g) = KeyOf(ir, f)}
            body == UNION {(g + 1)..(EndOf(ir, g) - 1) : g \in same}
            lines == body \cap Positions(ir, "Line")
            read == module.functions[KeyOf(ir, f)]
        IN
        /\ read.arguments = In(body \cap Positions(ir, "FunctionParameter"))
        /\ read.locals = In(body \cap Positions(ir, "Variable"))
        /\ same = {f} =>
            /\ read.ret_type = Declared(ir, "", ir[f].type)
            /\ read.index = Cardinality({KeyOf(ir, g) : g \in {h \in heads : h < f}})
            /\ \A l \in lines :
                 /\ (\A m \in lines : l <= m) => read.line_start = ir[l].line
                 /\ (\A m \in lines : m <= l) => read.line_end = ir[l].line

\* spirv_Parser.cpp:109-145: a struct whose names are orderly has the members it
\* declares, with the names that were given to them before it was declared.
StructsAsDeclared ==
    Done => \A s \in Positions(ir, "TypeStruct") :
        Orderly(ir, s) => module.user_types[DeclaredName(ir, ir[s].id)] = MembersOf(ir, s)

\* spirv_Parser.cpp:169-196: the uniforms are those declared outside of functions,
\* in order, and those of a buffer without a name are its members; the globals
\* are the other variables there that have a name.  Without a name and a block, a
\* uniform is taken for the struct that has no name, if there is one.
UniformsAsDeclared ==
    (/\ Done
     /\ \A s \in Positions(ir, "TypeStruct") : Orderly(ir, s)
     /\ \A f \in Positions(ir, "Function") : KeyOf(ir, f) # ""
     /\ \/ \A k \in UniformsAt(ir) \ NamedAt(ir) : \E s \in DOMAIN ir : IsBlock(ir, k, s)
        \/ \A s \in Positions(ir, "TypeStruct") : DeclaredName(ir, ir[s].id) # "")
    => /\ module.uniforms = DeclaredUniforms(ir)[Len(ir)]
       /\ module.globals = VariablesAt(ir, NamedAt(ir) \ UniformsAt(ir))[Len(ir)]

\* spirv_Parser.cpp:88-92,368: the scan of a program in which no instruction has
\* a word count of zero comes to its end.
ScanEnds == NoZeroWords ~> Done
=============================================================================
