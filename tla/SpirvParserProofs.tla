------------------------- MODULE SpirvParserProofs -------------------------
(***************************************************************************)
(* Theorems about SpirvParser, FunctionReaders and ShaderReflection: what  *)
(* Parse keeps of a module is what the module declares, and what           *)
(* GetFunction and GetUniforms tell of it is what it declares as well, for *)
(* any programs that are laid out as compilers write them, whatever        *)
(* was parsed before.                                                      *)
(***************************************************************************)
EXTENDS ShaderReflection, SequenceTheorems, FiniteSetTheorems, WellFoundedInduction, TLAPS

\* A program that Parse may be given, or the empty one before the first call.
IsProgram(p) ==
    /\ p \in Seq(Instructions)
    /\ DeclaredOnce(p) /\ DeclaredFirst(p) /\ WellTyped(p) /\ FunctionsEnd(p)

LEMMA ProgramsArePrograms ==
  /\ IsProgram(<<>>)
  /\ \A p \in Programs : IsProgram(p)
<1>1. <<>> \in Seq(Instructions) /\ DOMAIN <<>> = {}  OBVIOUS
<1>2. \A op : Positions(<<>>, op) = {}  BY <1>1 DEF Positions
<1>3. IsProgram(<<>>)
  BY <1>1, <1>2 DEF IsProgram, DeclaredOnce, DeclaredFirst, WellTyped, FunctionsEnd
<1>4. QED  BY <1>3, ProgramsAssumption DEF IsProgram

-----------------------------------------------------------------------------
TypeInfos == [type : TypeNames, of : Nat, comp : TypeNames, count : Nat]

\* A module has its fields, and a function's number can be counted.
Shape ==
    /\ module = [functions |-> module.functions, user_types |-> module.user_types,
                 uniforms |-> module.uniforms, globals |-> module.globals,
                 barrier_used |-> module.barrier_used, local_size |-> module.local_size,
                 counts |-> module.counts]
    /\ IsFiniteSet(DOMAIN module.functions)

TablesOK ==
    /\ \A id \in DOMAIN names : names[id] \in Names
    /\ \A id \in DOMAIN types : types[id] \in TypeInfos

TypeInv == TypeOK /\ IsProgram(ir) /\ Shape /\ TablesOK

-----------------------------------------------------------------------------
\* An entry is put into a map or found in it.
LEMMA PutEntry ==
  ASSUME NEW map, NEW key, NEW value
  PROVE  /\ DOMAIN Put(map, key, value) = DOMAIN map \cup {key}
         /\ Put(map, key, value)[key] = value
         /\ \A k \in DOMAIN map : k # key => Put(map, key, value)[k] = map[k]
  BY DEF Put

LEMMA NewTypes ==
  /\ NewVariable \in Variables
  /\ NewFunction \in Functions
  /\ NoType \in TypeInfos
<1>1. "" \in Names  BY NamesAssumption
<1>2. NewVariable \in Variables  BY <1>1 DEF NewVariable, Variables, TypeNames
<1>3. <<>> \in Seq(Variables)  OBVIOUS
<1>4. NewFunction \in Functions  BY <1>2, <1>3 DEF NewFunction, Functions
<1>5. QED  BY <1>2, <1>4 DEF NoType, TypeInfos, TypeNames

\* A fetched type is one that a variable can have.
LEMMA FetchedType ==
  ASSUME TablesOK, NEW var \in Variables, NEW id
  PROVE  FetchType(var, id) \in Variables
<1> DEFINE info == At(types, At(pointers, id, id), NoType)
<1>1. info \in TypeInfos  BY NewTypes DEF At, TablesOK
<1>2. NameOf(info.of) \in Names  BY NamesAssumption DEF NameOf, At, TablesOK
<1> HIDE DEF info
<1>3. QED  BY <1>1, <1>2 DEF FetchType, info, TypeInfos, Variables, TypeNames

LEMMA NamedType ==
  ASSUME TablesOK, NEW name \in Names, NEW id
  PROVE  Named(name, id) \in Variables
<1>1. [NewVariable EXCEPT !.name = name] \in Variables  BY NewTypes DEF Variables
<1>2. QED  BY <1>1, FetchedType DEF Named

LEMMA NameOfType ==
  ASSUME TablesOK, NEW id
  PROVE  NameOf(id) \in Names
  BY NamesAssumption DEF NameOf, At, TablesOK

\* The instruction that is next.
LEMMA NextInstruction ==
  ASSUME TypeInv, NEW op, Reads(op)
  PROVE  /\ i \in DOMAIN ir /\ i \in 1..Len(ir) /\ ir[i].op = op /\ i \in Positions(ir, op)
         /\ ir[i] \in Instructions /\ IsInstruction(ir[i])
         /\ i' \in 1..(Len(ir) + 1)
         /\ op # "ZeroWords" => i' = i + 1
         /\ ir' = ir
<1>1. ir \in Seq(Instructions) /\ i \in 1..(Len(ir) + 1)  BY DEF TypeInv, TypeOK, IsProgram
<1>2. ~(i > Len(ir)) /\ ir[i].op = op /\ i' = i + StepOver(ir[i]) /\ ir' = ir
  BY DEF Reads, Done
<1>3. Len(ir) \in Nat /\ DOMAIN ir = 1..Len(ir)  BY <1>1
<1>4. i \in 1..Len(ir)  BY <1>1, <1>2, <1>3
<1>5. ir[i] \in Instructions  BY <1>1, <1>4
<1>6. IsInstruction(ir[i])  BY <1>5, InstructionsAssumption
<1>7. QED  BY <1>2, <1>3, <1>4, <1>5, <1>6 DEF StepOver, Positions

LEMMA ScanPosition ==
  ASSUME TypeInv
  PROVE  /\ IsProgram(ir) /\ DOMAIN ir = 1..Len(ir) /\ DOMAIN ir \subseteq Nat /\ Len(ir) \in Nat
         /\ i \in Nat /\ i \in 1..(Len(ir) + 1)
         /\ \A k \in DOMAIN ir : IsInstruction(ir[k])
<1>1. IsProgram(ir) /\ i \in 1..(Len(ir) + 1)  BY DEF TypeInv, TypeOK
<1>2. ir \in Seq(Instructions)  BY <1>1 DEF IsProgram
<1>3. DOMAIN ir = 1..Len(ir) /\ Len(ir) \in Nat  BY <1>2
<1>4. \A k \in DOMAIN ir : ir[k] \in Instructions  BY <1>2
<1>5. QED  BY <1>1, <1>3, <1>4, InstructionsAssumption

LEMMA TypeInit == Init => TypeInv
<1> SUFFICES ASSUME Init PROVE TypeInv  OBVIOUS
<1> DEFINE zero == [c \in Counters |-> 0]
           m == [functions |-> Empty, user_types |-> Empty, uniforms |-> <<>>,
                 globals |-> <<>>, barrier_used |-> FALSE, local_size |-> <<1, 1, 1>>,
                 counts |-> zero]
<1>1. module = m /\ ir = <<>> /\ i = 1 /\ curFunc = "" /\ lastOpLine = -1
      /\ names = Empty /\ types = Empty
  BY DEF Init, Cleared
<1>2. DOMAIN Empty = {}  BY DEF Empty
<1>3. Shape  BY <1>1, <1>2, FS_EmptySet DEF Shape
<1>4. TablesOK  BY <1>1, <1>2 DEF TablesOK
<1>5. <<>> \in Seq(Variables) /\ Len(<<>>) = 0  OBVIOUS
<1>6. m.counts \in [Counters -> Nat]
  <2>1. zero \in [Counters -> Nat]  OBVIOUS
  <2> HIDE DEF zero
  <2>2. QED  BY <2>1
<1>7. TypeOK
  <2>1. /\ module.functions = Empty /\ module.user_types = Empty
        /\ module.uniforms = <<>> /\ module.globals = <<>>
        /\ module.counts \in [Counters -> Nat]
    BY <1>1, <1>6
  <2>2. 1 \in 1..(0 + 1) /\ -1 \in Nat \cup {-1}  BY <1>5
  <2> HIDE DEF m
  <2>3. QED  BY <1>1, <1>2, <1>5, <2>1, <2>2 DEF TypeOK
<1>8. QED  BY <1>1, <1>3, <1>4, <1>7, ProgramsArePrograms DEF TypeInv

LEMMA ParseType ==
  ASSUME NEW p \in Programs, Parse(p)
  PROVE  TypeInv'
<1> DEFINE zero == [c \in Counters |-> 0]
           m == [functions |-> Empty, user_types |-> Empty, uniforms |-> <<>>,
                 globals |-> <<>>, barrier_used |-> FALSE, local_size |-> <<1, 1, 1>>,
                 counts |-> zero]
<1>1. module' = m /\ ir' = p /\ i' = 1 /\ curFunc' = "" /\ lastOpLine' = -1
      /\ names' = Empty /\ types' = Empty
  BY DEF Parse, Cleared
<1>2. DOMAIN Empty = {}  BY DEF Empty
<1>3. Shape'  BY <1>1, <1>2, FS_EmptySet DEF Shape
<1>4. TablesOK'  BY <1>1, <1>2 DEF TablesOK
<1>5. <<>> \in Seq(Variables) /\ Len(p) \in Nat  BY ProgramsAssumption
<1>6. m.counts \in [Counters -> Nat]
  <2>1. zero \in [Counters -> Nat]  OBVIOUS
  <2> HIDE DEF zero
  <2>2. QED  BY <2>1
<1>7. TypeOK'
  <2>1. /\ module'.functions = Empty /\ module'.user_types = Empty
        /\ module'.uniforms = <<>> /\ module'.globals = <<>>
        /\ module'.counts \in [Counters -> Nat]
    BY <1>1, <1>6
  <2>2. 1 \in 1..(Len(p) + 1) /\ -1 \in Nat \cup {-1}  BY <1>5
  <2> HIDE DEF m
  <2>3. QED  BY <1>1, <1>2, <1>5, <2>1, <2>2 DEF TypeOK
<1>8. QED  BY <1>1, <1>3, <1>4, <1>7, ProgramsArePrograms DEF TypeInv

\* A step that reads an instruction and keeps the module's type keeps all types.
ModuleOK ==
    /\ Shape
    /\ \A f \in DOMAIN module.functions : module.functions[f] \in Functions
    /\ \A s \in DOMAIN module.user_types : module.user_types[s] \in Seq(Variables)
    /\ module.uniforms \in Seq(Variables) /\ module.globals \in Seq(Variables)
    /\ module.counts \in [Counters -> Nat]

LEMMA TypeParts ==
  ASSUME TypeInv, NEW op, Reads(op), ModuleOK', TablesOK',
         lastOpLine' \in Nat \cup {-1},
         curFunc' # "" => curFunc' \in DOMAIN module'.functions
  PROVE  TypeInv'
<1>1. ir' = ir /\ i' \in 1..(Len(ir) + 1)  BY NextInstruction
<1>2. IsProgram(ir)  BY DEF TypeInv
<1>3. QED  BY <1>1, <1>2 DEF TypeInv, TypeOK, ModuleOK

\* One entry of a function changes, if the function is there.
LEMMA FunctionChanged ==
  ASSUME ModuleOK, NEW c, NEW func,
         c \in DOMAIN module.functions => func \in Functions,
         module' = [module EXCEPT !.functions = [@ EXCEPT ![c] = func]]
  PROVE  /\ ModuleOK'
         /\ DOMAIN module'.functions = DOMAIN module.functions
<1> DEFINE fs == [module.functions EXCEPT ![c] = func]
<1>1. /\ module'.functions = fs
      /\ module' = [functions |-> fs, user_types |-> module.user_types,
                    uniforms |-> module.uniforms, globals |-> module.globals,
                    barrier_used |-> module.barrier_used,
                    local_size |-> module.local_size, counts |-> module.counts]
  BY DEF ModuleOK, Shape
<1>2. DOMAIN fs = DOMAIN module.functions  OBVIOUS
<1>3. \A f \in DOMAIN fs : fs[f] \in Functions  BY DEF ModuleOK
<1> HIDE DEF fs
<1>4. QED  BY <1>1, <1>2, <1>3 DEF ModuleOK, Shape

LEMMA ModuleTyped == TypeInv => ModuleOK
  BY DEF TypeInv, TypeOK, ModuleOK

\* The tables grow, the module is as it was.
LEMMA TablesType ==
  ASSUME TypeInv, OpName \/ OpTypePointer \/ OpTypeScalar \/ OpTypeVector \/ OpTypeMatrix
  PROVE  TypeInv'
<1>0. ModuleOK /\ TablesOK  BY ModuleTyped DEF TypeInv
<1>1. ASSUME UNCHANGED <<curFunc, lastOpLine, module>>, TablesOK', NEW op, Reads(op)
      PROVE  TypeInv'
  <2>1. ModuleOK'  BY <1>0, <1>1 DEF ModuleOK, Shape
  <2>2. QED  BY <1>1, <2>1, TypeParts DEF TypeInv, TypeOK
<1>2. CASE OpName
  <2>1. ir[i].name \in Names  BY <1>2, NextInstruction DEF OpName, IsInstruction
  <2>2. TablesOK'  BY <1>0, <1>2, <2>1 DEF OpName, TablesOK, Put
  <2>3. QED  BY <1>1, <1>2, <2>2 DEF OpName
<1>3. CASE OpTypePointer
  <2>1. TablesOK'  BY <1>0, <1>3 DEF OpTypePointer, TablesOK
  <2>2. QED  BY <1>1, <1>3, <2>1 DEF OpTypePointer
<1>4. ASSUME NEW info \in TypeInfos, types' = Put(types, ir[i].id, info), UNCHANGED names
      PROVE  TablesOK'
  BY <1>0, <1>4 DEF TablesOK, Put
<1>5. CASE OpTypeScalar
  <2>1. PICK s \in Scalars : Reads(s) /\ types' = Put(types, ir[i].id, [NoType EXCEPT !.type = s])
    BY <1>5 DEF OpTypeScalar
  <2>2. [NoType EXCEPT !.type = s] \in TypeInfos  BY NewTypes DEF TypeInfos, TypeNames
  <2>3. TablesOK'  BY <1>4, <1>5, <2>1, <2>2 DEF OpTypeScalar
  <2>4. QED  BY <1>1, <1>5, <2>1, <2>3 DEF OpTypeScalar
<1>6. ASSUME NEW id PROVE At(types, id, NoType) \in TypeInfos
  BY <1>0, NewTypes DEF At, TablesOK
<1>7. CASE OpTypeVector
  <2> DEFINE info == [type |-> "Vector", of |-> 0, count |-> ir[i].count,
                      comp |-> At(types, ir[i].type, NoType).type]
  <2>1. ir[i].count \in Nat  BY <1>7, NextInstruction DEF OpTypeVector, IsInstruction
  <2>2. info \in TypeInfos  BY <1>6, <2>1 DEF TypeInfos, TypeNames
  <2>3. TablesOK'  BY <1>4, <1>7, <2>2 DEF OpTypeVector
  <2>4. QED  BY <1>1, <1>7, <2>3 DEF OpTypeVector
<1>8. CASE OpTypeMatrix
  <2> DEFINE info == [type |-> "Matrix", of |-> 0, count |-> ir[i].count,
                      comp |-> At(types, ir[i].type, NoType).comp]
  <2>1. ir[i].count \in Nat  BY <1>8, NextInstruction DEF OpTypeMatrix, IsInstruction
  <2>2. info \in TypeInfos  BY <1>6, <2>1 DEF TypeInfos, TypeNames
  <2>3. TablesOK'  BY <1>4, <1>8, <2>2 DEF OpTypeMatrix
  <2>4. QED  BY <1>1, <1>8, <2>3 DEF OpTypeMatrix
<1>9. QED  BY <1>2, <1>3, <1>5, <1>7, <1>8

\* A function that the scan is in has its type, and so have its parts.
LEMMA CurrentFunction ==
  ASSUME TypeInv, curFunc \in DOMAIN module.functions
  PROVE  LET f == module.functions[curFunc] IN
         /\ f \in Functions
         /\ \A v \in Variables : /\ [f EXCEPT !.locals = Append(@, v)] \in Functions
                                 /\ [f EXCEPT !.arguments = Append(@, v)] \in Functions
         /\ \A n \in Nat \cup {-1} : /\ [f EXCEPT !.line_start = n] \in Functions
                                     /\ [f EXCEPT !.line_end = n] \in Functions
<1> DEFINE f == module.functions[curFunc]
<1>1. f \in Functions  BY DEF TypeInv, TypeOK
<1> HIDE DEF f
<1>2. /\ f.locals \in Seq(Variables) /\ f.arguments \in Seq(Variables)
      /\ f.index \in Nat /\ f.ret_type \in Variables
  BY <1>1 DEF Functions
<1>3. ASSUME NEW v \in Variables
      PROVE  /\ Append(f.locals, v) \in Seq(Variables)
             /\ Append(f.arguments, v) \in Seq(Variables)
  BY <1>2, AppendProperties
<1>4. QED  BY <1>1, <1>3 DEF f, Functions

LEMMA LinesType ==
  ASSUME TypeInv, OpLine \/ OpFunctionEnd
  PROVE  TypeInv'
<1>0. ModuleOK /\ TablesOK /\ lastOpLine \in Nat \cup {-1}
      /\ (curFunc # "" => curFunc \in DOMAIN module.functions)
  BY ModuleTyped DEF TypeInv, TypeOK
<1>1. CASE OpLine
  <2> DEFINE func == [module.functions[curFunc] EXCEPT !.line_start = ir[i].line]
  <2>1. ir[i].line \in Nat  BY <1>1, NextInstruction DEF OpLine, IsInstruction
  <2>2. TablesOK' /\ curFunc' = curFunc /\ lastOpLine' \in Nat
    BY <1>0, <1>1, <2>1 DEF OpLine, TablesOK
  <2>3. ModuleOK' /\ DOMAIN module'.functions = DOMAIN module.functions
    <3>1. \/ module' = [module EXCEPT !.functions = [@ EXCEPT ![curFunc] = func]]
          \/ module' = module
      BY <1>1 DEF OpLine
    <3>2. curFunc \in DOMAIN module.functions => func \in Functions  BY <2>1, CurrentFunction
    <3> HIDE DEF func
    <3>3. CASE module' = [module EXCEPT !.functions = [@ EXCEPT ![curFunc] = func]]
      BY <1>0, <3>2, <3>3, FunctionChanged
    <3>4. CASE module' = module  BY <1>0, <3>4 DEF ModuleOK, Shape
    <3>5. QED  BY <3>1, <3>3, <3>4
  <2>4. QED  BY <1>0, <1>1, <2>2, <2>3, TypeParts DEF OpLine
<1>2. CASE OpFunctionEnd
  <2> DEFINE func == [module.functions[curFunc] EXCEPT !.line_end = lastOpLine]
  <2>1. TablesOK' /\ curFunc' = "" /\ lastOpLine' = -1
    BY <1>0, <1>2 DEF OpFunctionEnd, TablesOK
  <2>2. ModuleOK'
    <3>1. module' = [module EXCEPT !.functions = [@ EXCEPT ![curFunc] = func]]
      BY <1>2 DEF OpFunctionEnd
    <3>2. curFunc \in DOMAIN module.functions => func \in Functions  BY <1>0, CurrentFunction
    <3> HIDE DEF func
    <3>3. QED  BY <1>0, <3>1, <3>2, FunctionChanged
  <2>3. -1 \in Nat \cup {-1}  OBVIOUS
  <2>4. QED  BY <1>2, <2>1, <2>2, <2>3, TypeParts DEF OpFunctionEnd
<1>3. QED  BY <1>1, <1>2

\* A function over the first numbers is a sequence.
LEMMA FunctionIsSeq ==
  ASSUME NEW S, NEW n \in Nat, NEW f \in [1..n -> S]
  PROVE  f \in Seq(S) /\ Len(f) = n
  OBVIOUS

LEMMA StructMembersType ==
  ASSUME TypeInv, NEW name, NEW operands \in Seq(Nat)
  PROVE  StructMembers(name, operands) \in Seq(Variables)
<1>0. TablesOK /\ NewVariable \in Variables  BY NewTypes DEF TypeInv
<1>1. \A id : FetchType(NewVariable, id) \in Variables  BY <1>0, FetchedType
<1>2. CASE name \in DOMAIN module.user_types
  <2> DEFINE old == module.user_types[name]
             new == [j \in DOMAIN old |-> IF j \in DOMAIN operands
                                          THEN FetchType(old[j], operands[j]) ELSE old[j]]
  <2>1. old \in Seq(Variables)  BY <1>2 DEF TypeInv, TypeOK
  <2>2. StructMembers(name, operands) = new  BY <1>2 DEF StructMembers
  <2> HIDE DEF old
  <2>3. DOMAIN old = 1..Len(old) /\ Len(old) \in Nat  BY <2>1
  <2>4. \A j \in DOMAIN old : old[j] \in Variables  BY <2>1
  <2>5. \A j \in DOMAIN old : \A id : FetchType(old[j], id) \in Variables
    BY <1>0, <2>4, FetchedType
  <2>6. new \in [1..Len(old) -> Variables]  BY <2>3, <2>4, <2>5
  <2> HIDE DEF new
  <2>7. QED  BY <2>2, <2>3, <2>6, FunctionIsSeq
<1>3. CASE name \notin DOMAIN module.user_types
  <2> DEFINE new == [j \in DOMAIN operands |-> FetchType(NewVariable, operands[j])]
  <2>1. StructMembers(name, operands) = new  BY <1>3 DEF StructMembers
  <2>2. DOMAIN operands = 1..Len(operands) /\ Len(operands) \in Nat  OBVIOUS
  <2>3. new \in [1..Len(operands) -> Variables]  BY <1>1, <2>2
  <2> HIDE DEF new
  <2>4. QED  BY <2>1, <2>2, <2>3, FunctionIsSeq
<1>4. QED  BY <1>2, <1>3

\* One struct's members are put into the module.
LEMMA StructPut ==
  ASSUME ModuleOK, NEW name, NEW mems \in Seq(Variables),
         module' = [module EXCEPT !.user_types = Put(@, name, mems)]
  PROVE  ModuleOK' /\ module'.functions = module.functions
<1> DEFINE us == Put(module.user_types, name, mems)
<1>1. /\ module'.user_types = us
      /\ module' = [functions |-> module.functions, user_types |-> us,
                    uniforms |-> module.uniforms, globals |-> module.globals,
                    barrier_used |-> module.barrier_used,
                    local_size |-> module.local_size, counts |-> module.counts]
  BY DEF ModuleOK, Shape
<1>2. \A s \in DOMAIN us : us[s] \in Seq(Variables)  BY DEF ModuleOK, Put
<1> HIDE DEF us
<1>3. QED  BY <1>1, <1>2 DEF ModuleOK, Shape

LEMMA StructsType ==
  ASSUME TypeInv, OpTypeStruct \/ OpMemberName
  PROVE  TypeInv'
<1>0. ModuleOK /\ TablesOK /\ lastOpLine \in Nat \cup {-1}
      /\ (curFunc # "" => curFunc \in DOMAIN module.functions)
  BY ModuleTyped DEF TypeInv, TypeOK
<1>1. CASE OpTypeStruct
  <2> DEFINE name == NameOf(ir[i].id)
             mems == StructMembers(name, ir[i].members)
             info == [NoType EXCEPT !.type = "Struct", !.of = ir[i].id]
  <2>1. ir[i].id \in Nat /\ ir[i].members \in Seq(Nat)
    BY <1>1, NextInstruction DEF OpTypeStruct, IsInstruction, WithAnId, TypeOps
  <2>2. mems \in Seq(Variables)  BY <2>1, StructMembersType
  <2>3. ModuleOK' /\ module'.functions = module.functions
    <3>1. module' = [module EXCEPT !.user_types = Put(@, name, mems)]
      BY <1>1 DEF OpTypeStruct
    <3> HIDE DEF mems, name
    <3>2. QED  BY <1>0, <2>2, <3>1, StructPut
  <2>4. info \in TypeInfos  BY <2>1, NewTypes DEF TypeInfos, TypeNames
  <2>5. TablesOK'
    <3>1. types' = Put(types, ir[i].id, info) /\ names' = names  BY <1>1 DEF OpTypeStruct
    <3> HIDE DEF info
    <3>2. QED  BY <1>0, <2>4, <3>1 DEF TablesOK, Put
  <2>6. curFunc' = curFunc /\ lastOpLine' = lastOpLine  BY <1>1 DEF OpTypeStruct
  <2>7. QED  BY <1>0, <1>1, <2>3, <2>5, <2>6, TypeParts DEF OpTypeStruct
<1>2. CASE OpMemberName
  <2> DEFINE owner == NameOf(ir[i].id)
             known == At(module.user_types, owner, <<>>)
             at    == ir[i].index + 1
             room  == IF at > Len(known) THEN at ELSE Len(known)
             mems  == [j \in 1..room |-> IF j \in DOMAIN known THEN known[j] ELSE NewVariable]
             named == [mems EXCEPT ![at].name = ir[i].name]
  <2>1. ir[i].index \in Nat /\ ir[i].name \in Names
    BY <1>2, NextInstruction DEF OpMemberName, IsInstruction
  <2>2. known \in Seq(Variables)
    <3>1. <<>> \in Seq(Variables)  OBVIOUS
    <3>2. QED  BY <1>0, <3>1 DEF ModuleOK, At
  <2>3. named \in Seq(Variables)
    <3> HIDE DEF known
    <3>1. Len(known) \in Nat /\ at \in Nat /\ room \in Nat  BY <2>1, <2>2
    <3>2. \A j \in DOMAIN known : known[j] \in Variables  BY <2>2
    <3>3. mems \in [1..room -> Variables]  BY <3>1, <3>2, NewTypes
    <3> HIDE DEF room, at, mems
    <3>4. \A v \in Variables : [v EXCEPT !.name = ir[i].name] \in Variables
      BY <2>1 DEF Variables
    <3>5. named \in [1..room -> Variables]  BY <3>3, <3>4
    <3> HIDE DEF named
    <3>6. QED  BY <3>1, <3>5, FunctionIsSeq
  <2>4. ModuleOK' /\ module'.functions = module.functions
    <3>1. module' = [module EXCEPT !.user_types = Put(@, owner, named)]
      BY <1>2 DEF OpMemberName
    <3> HIDE DEF owner, named
    <3>2. QED  BY <1>0, <2>3, <3>1, StructPut
  <2>5. TablesOK' /\ curFunc' = curFunc /\ lastOpLine' = lastOpLine
    BY <1>0, <1>2 DEF OpMemberName, tables, TablesOK
  <2>6. QED  BY <1>0, <1>2, <2>4, <2>5, TypeParts DEF OpMemberName
<1>3. QED  BY <1>1, <1>2

LEMMA FunctionType ==
  ASSUME TypeInv, OpFunction
  PROVE  TypeInv'
<1>0. ModuleOK /\ TablesOK /\ lastOpLine \in Nat \cup {-1}
  BY ModuleTyped DEF TypeInv, TypeOK
<1> DEFINE name == Trimmed(NameOf(ir[i].id))
           func == At(module.functions, name, NewFunction)
           count == Cardinality(DOMAIN module.functions \cup {name}) - 1
           made == [func EXCEPT !.ret_type = FetchType(@, ir[i].type), !.line_start = -1,
                                !.index = count]
           fs == Put(module.functions, name, made)
<1>1. curFunc' = name /\ module' = [module EXCEPT !.functions = fs] /\ lastOpLine' = lastOpLine
      /\ TablesOK'
  BY <1>0 DEF OpFunction, TablesOK
<1>2. func \in Functions  BY <1>0, NewTypes DEF ModuleOK, At
<1>3. IsFiniteSet(DOMAIN module.functions \cup {name}) /\ count \in Nat
  <2>1. IsFiniteSet(DOMAIN module.functions)  BY <1>0 DEF ModuleOK, Shape
  <2> DEFINE D == DOMAIN module.functions \cup {name}
  <2>2. IsFiniteSet(D)  BY <2>1, FS_AddElement
  <2>3. Cardinality(D) \in Nat /\ (Cardinality(D) = 0 <=> D = {})
    <3> HIDE DEF D
    <3>1. QED  BY <2>2, FS_CardinalityType, FS_EmptySet
  <2>4. D # {}  OBVIOUS
  <2> HIDE DEF D
  <2>5. Cardinality(D) - 1 \in Nat  BY <2>3, <2>4
  <2>6. QED  BY <2>2, <2>5 DEF D
<1>4. made \in Functions
  <2> HIDE DEF func, count
  <2>1. FetchType(func.ret_type, ir[i].type) \in Variables
    BY <1>0, <1>2, FetchedType DEF Functions
  <2>2. QED  BY <1>2, <1>3, <2>1 DEF Functions
<1>5. \A f \in DOMAIN fs : fs[f] \in Functions
  <2> HIDE DEF made
  <2>1. QED  BY <1>0, <1>4 DEF ModuleOK, Put
<1>6. DOMAIN fs = DOMAIN module.functions \cup {name}  BY DEF Put
<1> HIDE DEF fs, name
<1>7. /\ module'.functions = fs
      /\ module' = [functions |-> fs, user_types |-> module.user_types,
                    uniforms |-> module.uniforms, globals |-> module.globals,
                    barrier_used |-> module.barrier_used,
                    local_size |-> module.local_size, counts |-> module.counts]
  BY <1>0, <1>1 DEF ModuleOK, Shape
<1>8. ModuleOK'  BY <1>0, <1>3, <1>5, <1>6, <1>7 DEF ModuleOK, Shape
<1>9. curFunc' \in DOMAIN module'.functions  BY <1>1, <1>6, <1>7
<1>10. QED  BY <1>0, <1>1, <1>8, <1>9, TypeParts DEF OpFunction

LEMMA VariablesType ==
  ASSUME TypeInv, OpVariable \/ OpFunctionParameter
  PROVE  TypeInv'
<1>0. ModuleOK /\ TablesOK /\ lastOpLine \in Nat \cup {-1}
      /\ (curFunc # "" => curFunc \in DOMAIN module.functions)
  BY ModuleTyped DEF TypeInv, TypeOK
<1> DEFINE var == Named(NameOf(ir[i].id), ir[i].type)
<1>1. var \in Variables  BY <1>0, NameOfType, NamedType
<1>2. TablesOK' /\ curFunc' = curFunc /\ lastOpLine' = lastOpLine
  BY <1>0 DEF OpVariable, OpFunctionParameter, tables, TablesOK
<1>3. ASSUME ModuleOK', DOMAIN module'.functions = DOMAIN module.functions, NEW op, Reads(op)
      PROVE  TypeInv'
  BY <1>0, <1>2, <1>3, TypeParts
<1>4. ASSUME NEW func, curFunc \in DOMAIN module.functions => func \in Functions,
             module' = [module EXCEPT !.functions = [@ EXCEPT ![curFunc] = func]]
      PROVE  ModuleOK' /\ DOMAIN module'.functions = DOMAIN module.functions
  BY <1>0, <1>4, FunctionChanged
<1>5. CASE OpFunctionParameter
  <2> DEFINE func == [module.functions[curFunc] EXCEPT !.arguments = Append(@, var)]
  <2>1. module' = [module EXCEPT !.functions = [@ EXCEPT ![curFunc] = func]]
    BY <1>5 DEF OpFunctionParameter
  <2>2. curFunc \in DOMAIN module.functions => func \in Functions  BY <1>1, CurrentFunction
  <2> HIDE DEF func
  <2>3. ModuleOK' /\ DOMAIN module'.functions = DOMAIN module.functions
    BY <1>4, <2>1, <2>2
  <2>4. QED  BY <1>3, <1>5, <2>3 DEF OpFunctionParameter
<1>6. CASE OpVariable
  <2> DEFINE func == [module.functions[curFunc] EXCEPT !.locals = Append(@, var)]
             unis == module.uniforms \o UniformsOf(var)
             globs == Append(module.globals, var)
  <2>1. \/ module' = [module EXCEPT !.functions = [@ EXCEPT ![curFunc] = func]]
        \/ module' = [module EXCEPT !.uniforms = unis]
        \/ module' = [module EXCEPT !.globals = globs]
        \/ module' = module
    BY <1>6 DEF OpVariable
  <2>2. module.uniforms \in Seq(Variables) /\ module.globals \in Seq(Variables)
    BY <1>0 DEF ModuleOK
  <2>3. UniformsOf(var) \in Seq(Variables)
    <3>1. <<>> \in Seq(Variables) /\ <<var>> \in Seq(Variables)  BY <1>1
    <3> HIDE DEF var
    <3>2. QED  BY <1>0, <3>1 DEF UniformsOf, At, ModuleOK
  <2>4. unis \in Seq(Variables)
    <3> HIDE DEF var
    <3>1. QED  BY <2>2, <2>3, ConcatProperties
  <2>5. globs \in Seq(Variables)
    <3> HIDE DEF var
    <3>1. QED  BY <1>1, <2>2, AppendProperties
  <2>6. curFunc \in DOMAIN module.functions => func \in Functions  BY <1>1, CurrentFunction
  <2> HIDE DEF func, unis, globs
  <2>7. ModuleOK' /\ DOMAIN module'.functions = DOMAIN module.functions
    <3>1. CASE module' = [module EXCEPT !.functions = [@ EXCEPT ![curFunc] = func]]
      BY <1>4, <2>6, <3>1
    <3>2. CASE module' = [module EXCEPT !.uniforms = unis]
      <4>1. module' = [functions |-> module.functions, user_types |-> module.user_types,
                       uniforms |-> unis, globals |-> module.globals,
                       barrier_used |-> module.barrier_used,
                       local_size |-> module.local_size, counts |-> module.counts]
        BY <1>0, <3>2 DEF ModuleOK, Shape
      <4>2. QED  BY <1>0, <2>4, <4>1 DEF ModuleOK, Shape
    <3>3. CASE module' = [module EXCEPT !.globals = globs]
      <4>1. module' = [functions |-> module.functions, user_types |-> module.user_types,
                       uniforms |-> module.uniforms, globals |-> globs,
                       barrier_used |-> module.barrier_used,
                       local_size |-> module.local_size, counts |-> module.counts]
        BY <1>0, <3>3 DEF ModuleOK, Shape
      <4>2. QED  BY <1>0, <2>5, <4>1 DEF ModuleOK, Shape
    <3>4. CASE module' = module  BY <1>0, <3>4 DEF ModuleOK, Shape
    <3>5. QED  BY <2>1, <3>1, <3>2, <3>3, <3>4
  <2>8. QED  BY <1>3, <1>6, <2>7 DEF OpVariable
<1>7. QED  BY <1>5, <1>6

LEMMA CountsType ==
  ASSUME TypeInv, OpExecutionMode \/ OpBarrier \/ Count \/ Skip
  PROVE  TypeInv'
<1>0. ModuleOK /\ TablesOK /\ lastOpLine \in Nat \cup {-1}
      /\ (curFunc # "" => curFunc \in DOMAIN module.functions)
  BY ModuleTyped DEF TypeInv, TypeOK
<1>1. TablesOK' /\ curFunc' = curFunc /\ lastOpLine' = lastOpLine
  BY <1>0 DEF OpExecutionMode, OpBarrier, Count, Skip, tables, TablesOK
<1>2. PICK op : Reads(op)  BY DEF OpExecutionMode, OpBarrier, Count, Skip
<1>3. PICK b, l, n : module' = [module EXCEPT !.barrier_used = b, !.local_size = l, !.counts = n]
                     /\ n \in [Counters -> Nat]
  <2>1. module.counts \in [Counters -> Nat]  BY <1>0 DEF ModuleOK
  <2>2. module = [module EXCEPT !.barrier_used = module.barrier_used,
                                !.local_size = module.local_size, !.counts = module.counts]
    BY <1>0 DEF ModuleOK, Shape
  <2>3. CASE OpExecutionMode
    <3>1. module' = [module EXCEPT !.barrier_used = module.barrier_used,
                                   !.local_size = ir[i].size, !.counts = module.counts]
      BY <1>0, <2>3 DEF OpExecutionMode, ModuleOK, Shape
    <3>2. QED  BY <2>1, <3>1
  <2>4. CASE OpBarrier
    <3>1. module' = [module EXCEPT !.barrier_used = TRUE,
                                   !.local_size = module.local_size, !.counts = module.counts]
      BY <1>0, <2>4 DEF OpBarrier, ModuleOK, Shape
    <3>2. QED  BY <2>1, <3>1
  <2>5. CASE Count
    <3>1. PICK c \in Counters : module' = [module EXCEPT !.counts[c] = @ + 1]
      BY <2>5 DEF Count
    <3> DEFINE n == [module.counts EXCEPT ![c] = @ + 1]
    <3>2. n \in [Counters -> Nat]  BY <2>1
    <3>3. module' = [module EXCEPT !.counts = n]  BY <3>1
    <3> HIDE DEF n
    <3>4. module' = [module EXCEPT !.barrier_used = module.barrier_used,
                                   !.local_size = module.local_size, !.counts = n]
      BY <1>0, <3>3 DEF ModuleOK, Shape
    <3>5. QED  BY <3>2, <3>4
  <2>6. CASE Skip  BY <2>1, <2>2, <2>6 DEF Skip
  <2>7. QED  BY <2>3, <2>4, <2>5, <2>6
<1>4. module' = [functions |-> module.functions, user_types |-> module.user_types,
                 uniforms |-> module.uniforms, globals |-> module.globals,
                 barrier_used |-> b, local_size |-> l, counts |-> n]
  BY <1>0, <1>3 DEF ModuleOK, Shape
<1>5. ModuleOK'  BY <1>0, <1>3, <1>4 DEF ModuleOK, Shape
<1>6. module'.functions = module.functions  BY <1>4
<1>7. QED  BY <1>0, <1>1, <1>2, <1>5, <1>6, TypeParts

LEMMA TypeStep == TypeInv /\ [Next]_vars => TypeInv'
<1> SUFFICES ASSUME TypeInv, [Next]_vars PROVE TypeInv'  OBVIOUS
<1>1. CASE OpName \/ OpTypePointer \/ OpTypeScalar \/ OpTypeVector \/ OpTypeMatrix
  BY <1>1, TablesType
<1>2. CASE OpLine \/ OpFunctionEnd  BY <1>2, LinesType
<1>3. CASE OpTypeStruct \/ OpMemberName  BY <1>3, StructsType
<1>4. CASE OpFunction  BY <1>4, FunctionType
<1>5. CASE OpVariable \/ OpFunctionParameter  BY <1>5, VariablesType
<1>6. CASE OpExecutionMode \/ OpBarrier \/ Count \/ Skip  BY <1>6, CountsType
<1>7. ASSUME NEW p \in Programs, Parse(p) PROVE TypeInv'  BY <1>7, ParseType
<1>8. CASE UNCHANGED vars
  BY <1>8 DEF vars, tables, TypeInv, TypeOK, IsProgram, Shape, TablesOK
<1>9. QED  BY <1>1, <1>2, <1>3, <1>4, <1>5, <1>6, <1>7, <1>8 DEF Next, Scan

\* The parser's fields and what it fills keep their types, whatever programs follow
\* each other; the function that the scan is in is in the map unless it has no name.
THEOREM TypeCorrect == Spec => []TypeOK
<1>1. TypeInv => TypeOK  BY DEF TypeInv
<1>2. QED  BY <1>1, TypeInit, TypeStep, PTL DEF Spec

-----------------------------------------------------------------------------
\* What the tables hold before the n-th instruction is read: what the instructions
\* before it say.
NamesRead(p, n, table) ==
    /\ DOMAIN table = {p[k].id : k \in {l \in Positions(p, "Name") : l < n}}
    /\ \A k \in Positions(p, "Name") : k < n => table[p[k].id] = p[k].name

PointersRead(p, n, table) ==
    /\ DOMAIN table = {p[k].id : k \in {l \in Positions(p, "TypePointer") : l < n}}
    /\ \A k \in Positions(p, "TypePointer") : k < n => table[p[k].id] = p[k].type

\* The instructions of types that are not pointers, and what the parser keeps of one.
TypesAt(p) == {k \in DOMAIN p : p[k].op \in TypeOps /\ p[k].op # "TypePointer"}
Describes(info, p, k) ==
    /\ p[k].op \in Scalars => info.type = p[k].op
    /\ p[k].op = "TypeVector" => /\ info.type = "Vector" /\ info.count = p[k].count
                                 /\ info.comp = p[TypeAt(p, p[k].type)].op
    /\ p[k].op = "TypeMatrix" => info.type = "Matrix" /\ info.count = p[k].count
    /\ p[k].op = "TypeStruct" => info.type = "Struct" /\ info.of = p[k].id

TypesRead(p, n, table) ==
    /\ DOMAIN table = {p[k].id : k \in {l \in TypesAt(p) : l < n}}
    /\ \A k \in TypesAt(p) : k < n => Describes(table[p[k].id], p, k)

\* The names given to members of a struct before the n-th instruction, and the
\* members that they made: up to the last one named, without a type.
MembersNamed(p, s, n) == {k \in MemberNames(p, p[s].id) : k < n}
MadeByNames(mems, p, s, n) ==
    /\ \A k \in MembersNamed(p, s, n) : p[k].index + 1 <= Len(mems)
    /\ \E k \in MembersNamed(p, s, n) : Len(mems) = p[k].index + 1
    /\ \A m \in 1..Len(mems) :
          \/ \E k \in MembersNamed(p, s, n) :
                p[k].index + 1 = m /\ mems[m] = [NewVariable EXCEPT !.name = p[k].name]
          \/ /\ \A k \in MembersNamed(p, s, n) : p[k].index + 1 # m
             /\ mems[m] = NewVariable

\* A struct that is known by its name only is what its members' names made, and
\* one that was declared is what it was declared to be.
StructRead(p, s, n, table) ==
    LET name == DeclaredName(p, p[s].id) IN
    /\ s < n => name \in DOMAIN table /\ table[name] = MembersOf(p, s)
    /\ (s >= n /\ name \in DOMAIN table) => MadeByNames(table[name], p, s, n)
    /\ (s >= n /\ name \notin DOMAIN table) => MembersNamed(p, s, n) = {}
StructsRead(p, n, table) ==
    \A s \in Positions(p, "TypeStruct") : Orderly(p, s) => StructRead(p, s, n, table)

TablesInv ==
    /\ TypeInv
    /\ NamesRead(ir, i, names) /\ PointersRead(ir, i, pointers) /\ TypesRead(ir, i, types)
StructsInv == TablesInv /\ StructsRead(ir, i, module.user_types)

-----------------------------------------------------------------------------
\* An id's type and name are what the one instruction says that has them.
LEMMA TypeIs ==
  ASSUME NEW p, IsProgram(p), NEW k \in DOMAIN p, p[k].op \in TypeOps
  PROVE  IsDeclared(p, p[k].id) /\ TypeAt(p, p[k].id) = k
<1>1. \A l \in DOMAIN p : p[l].op \in TypeOps /\ p[l].id = p[k].id => l = k
  BY DEF IsProgram, DeclaredOnce
<1>2. QED  BY <1>1 DEF IsDeclared, TypeAt

LEMMA DeclaredBy ==
  ASSUME NEW p, NEW id, IsDeclared(p, id)
  PROVE  /\ TypeAt(p, id) \in DOMAIN p
         /\ p[TypeAt(p, id)].op \in TypeOps /\ p[TypeAt(p, id)].id = id
<1>1. \E k \in DOMAIN p : p[k].op \in TypeOps /\ p[k].id = id  BY DEF IsDeclared
<1>2. QED  BY <1>1 DEF TypeAt

LEMMA NameIs ==
  ASSUME NEW p, IsProgram(p)
  PROVE  /\ \A k \in Positions(p, "Name") : DeclaredName(p, p[k].id) = p[k].name
         /\ \A id : (\A k \in Positions(p, "Name") : p[k].id # id) => DeclaredName(p, id) = ""
<1>1. ASSUME NEW k \in Positions(p, "Name") PROVE DeclaredName(p, p[k].id) = p[k].name
  <2> DEFINE at == {l \in Positions(p, "Name") : p[l].id = p[k].id}
  <2>1. at = {k}  BY DEF IsProgram, DeclaredOnce
  <2>2. at # {} /\ (CHOOSE l \in at : TRUE) = k  BY <2>1
  <2>3. QED  BY <2>2 DEF DeclaredName
<1>2. ASSUME NEW id, \A k \in Positions(p, "Name") : p[k].id # id
      PROVE  DeclaredName(p, id) = ""
  BY <1>2 DEF DeclaredName
<1>3. QED  BY <1>1, <1>2

LEMMA MemberIs ==
  ASSUME NEW p, IsProgram(p), NEW id, NEW m \in Nat
  PROVE  /\ \A k \in MemberNames(p, id) :
               p[k].index + 1 = m => DeclaredMember(p, id, m) = p[k].name
         /\ (\A k \in MemberNames(p, id) : p[k].index + 1 # m)
               => DeclaredMember(p, id, m) = ""
<1> DEFINE at == {k \in MemberNames(p, id) : p[k].index = m - 1}
<1>0. \A k \in MemberNames(p, id) : p[k].index \in Nat
  <2>1. \A k \in DOMAIN p : IsInstruction(p[k])
    BY InstructionsAssumption DEF IsProgram
  <2>2. QED  BY <2>1 DEF MemberNames, Positions, IsInstruction
<1>1. ASSUME NEW k \in MemberNames(p, id), p[k].index + 1 = m
      PROVE  DeclaredMember(p, id, m) = p[k].name
  <2>1. p[k].index = m - 1  BY <1>0, <1>1
  <2>2. at = {k}  BY <2>1 DEF IsProgram, DeclaredOnce, MemberNames
  <2>3. at # {} /\ (CHOOSE l \in at : TRUE) = k  BY <2>2
  <2>4. QED  BY <2>3 DEF DeclaredMember
<1>2. ASSUME \A k \in MemberNames(p, id) : p[k].index + 1 # m
      PROVE  DeclaredMember(p, id, m) = ""
  <2>1. at = {}  BY <1>0, <1>2
  <2>2. QED  BY <2>1 DEF DeclaredMember
<1>3. QED  BY <1>1, <1>2

-----------------------------------------------------------------------------
\* The tables after one instruction more.
LEMMA NamesNext ==
  ASSUME NEW p, IsProgram(p), NEW n \in DOMAIN p, NEW table, NamesRead(p, n, table)
  PROVE  /\ p[n].op = "Name" => NamesRead(p, n + 1, Put(table, p[n].id, p[n].name))
         /\ p[n].op # "Name" => NamesRead(p, n + 1, table)
<1>0. DOMAIN p \subseteq Nat /\ n \in Nat  BY DEF IsProgram
<1>1. \A k \in Positions(p, "Name") : k < n + 1 <=> k < n \/ k = n
  BY <1>0 DEF Positions
<1>2. CASE p[n].op = "Name"
  <2>1. n \in Positions(p, "Name")  BY <1>2 DEF Positions
  <2>2. \A k \in Positions(p, "Name") : k < n => p[k].id # p[n].id
    BY <1>0, <2>1 DEF IsProgram, DeclaredOnce
  <2>3. QED  BY <1>1, <1>2, <2>1, <2>2 DEF NamesRead, Put
<1>3. CASE p[n].op # "Name"
  <2>1. \A k \in Positions(p, "Name") : k < n + 1 <=> k < n  BY <1>1, <1>3 DEF Positions
  <2>2. QED  BY <1>3, <2>1 DEF NamesRead
<1>4. QED  BY <1>2, <1>3

LEMMA PointersNext ==
  ASSUME NEW p, IsProgram(p), NEW n \in DOMAIN p, NEW table, PointersRead(p, n, table)
  PROVE  /\ p[n].op = "TypePointer" =>
                PointersRead(p, n + 1, Put(table, p[n].id, p[n].type))
         /\ p[n].op # "TypePointer" => PointersRead(p, n + 1, table)
<1>0. DOMAIN p \subseteq Nat /\ n \in Nat  BY DEF IsProgram
<1>1. \A k \in Positions(p, "TypePointer") : k < n + 1 <=> k < n \/ k = n
  BY <1>0 DEF Positions
<1>2. CASE p[n].op = "TypePointer"
  <2>1. n \in Positions(p, "TypePointer")  BY <1>2 DEF Positions
  <2>2. \A k \in Positions(p, "TypePointer") : k < n => p[k].id # p[n].id
    BY <1>0, <2>1 DEF IsProgram, DeclaredOnce, Positions, TypeOps
  <2>3. QED  BY <1>1, <1>2, <2>1, <2>2 DEF PointersRead, Put
<1>3. CASE p[n].op # "TypePointer"
  <2>1. \A k \in Positions(p, "TypePointer") : k < n + 1 <=> k < n
    BY <1>1, <1>3 DEF Positions
  <2>2. QED  BY <1>3, <2>1 DEF PointersRead
<1>4. QED  BY <1>2, <1>3

LEMMA TypesNext ==
  ASSUME NEW p, IsProgram(p), NEW n \in DOMAIN p, NEW table, TypesRead(p, n, table)
  PROVE  /\ \A info : n \in TypesAt(p) /\ Describes(info, p, n) =>
                TypesRead(p, n + 1, Put(table, p[n].id, info))
         /\ n \notin TypesAt(p) => TypesRead(p, n + 1, table)
<1>0. DOMAIN p \subseteq Nat /\ n \in Nat  BY DEF IsProgram
<1>1. \A k \in TypesAt(p) : k < n + 1 <=> k < n \/ k = n
  BY <1>0 DEF TypesAt
<1>2. ASSUME NEW info, n \in TypesAt(p), Describes(info, p, n)
      PROVE  TypesRead(p, n + 1, Put(table, p[n].id, info))
  <2>1. \A k \in TypesAt(p) : k < n => p[k].id # p[n].id
    BY <1>0, <1>2 DEF IsProgram, DeclaredOnce, TypesAt
  <2>2. QED  BY <1>1, <1>2, <2>1 DEF TypesRead, Put
<1>3. CASE n \notin TypesAt(p)
  <2>1. \A k \in TypesAt(p) : k < n + 1 <=> k < n  BY <1>1, <1>3
  <2>2. QED  BY <1>3, <2>1 DEF TypesRead
<1>4. QED  BY <1>2, <1>3

-----------------------------------------------------------------------------
\* A name that was given before is known.
LEMMA NameKnown ==
  ASSUME TablesInv, NEW id, \A k \in Positions(ir, "Name") : ir[k].id = id => k < i
  PROVE  NameOf(id) = DeclaredName(ir, id)
<1>0. IsProgram(ir) /\ NamesRead(ir, i, names)  BY DEF TablesInv, TypeInv
<1>1. CASE \E k \in Positions(ir, "Name") : ir[k].id = id
  <2>1. PICK k \in Positions(ir, "Name") : ir[k].id = id  BY <1>1
  <2>2. id \in DOMAIN names /\ names[id] = ir[k].name  BY <1>0, <2>1 DEF NamesRead
  <2>3. DeclaredName(ir, id) = ir[k].name  BY <1>0, <2>1, NameIs
  <2>4. QED  BY <2>2, <2>3 DEF NameOf, At
<1>2. CASE \A k \in Positions(ir, "Name") : ir[k].id # id
  <2>1. id \notin DOMAIN names  BY <1>0, <1>2 DEF NamesRead
  <2>2. DeclaredName(ir, id) = ""  BY <1>0, <1>2, NameIs
  <2>3. QED  BY <2>1, <2>2 DEF NameOf, At
<1>3. QED  BY <1>1, <1>2

\* Nothing that is declared later has the id.
KnownId(id) == \A k \in DOMAIN ir : ir[k].op \in TypeOps /\ ir[k].id = id => k < i

\* The parser follows a pointer to what is behind it, which is known as well.
LEMMA PointeeKnown ==
  ASSUME TablesInv, NEW id, KnownId(id)
  PROVE  At(pointers, id, id) = Pointee(ir, id) /\ KnownId(Pointee(ir, id))
<1>0. /\ IsProgram(ir) /\ PointersRead(ir, i, pointers)
      /\ DOMAIN ir \subseteq Nat /\ i \in Nat
  BY ScanPosition DEF TablesInv
<1>1. CASE IsPointer(ir, id)
  <2> DEFINE k == TypeAt(ir, id)
  <2>1. k \in DOMAIN ir /\ ir[k].op = "TypePointer" /\ ir[k].id = id
    BY <1>1, DeclaredBy DEF IsPointer
  <2>2. k < i  BY <2>1 DEF KnownId, TypeOps
  <2>3. k \in Positions(ir, "TypePointer")  BY <2>1 DEF Positions
  <2>4. Pointee(ir, id) = ir[k].type  BY <1>1 DEF Pointee
  <2> HIDE DEF k
  <2>5. id \in DOMAIN pointers /\ pointers[id] = ir[k].type
    BY <1>0, <2>1, <2>2, <2>3 DEF PointersRead
  <2>6. Mentions(ir[k], ir[k].type)  BY <2>1 DEF Mentions, OfAType
  <2>7. \A l \in DOMAIN ir : ir[l].op \in TypeOps /\ ir[l].id = ir[k].type => l < k
    BY <1>0, <2>1, <2>6 DEF IsProgram, DeclaredFirst
  <2>8. \A l \in DOMAIN ir : l < k => l < i  BY <1>0, <2>1, <2>2
  <2>9. QED  BY <2>4, <2>5, <2>7, <2>8 DEF At, KnownId
<1>2. CASE ~IsPointer(ir, id)
  <2>1. Pointee(ir, id) = id  BY <1>2 DEF Pointee
  <2>2. ASSUME id \in DOMAIN pointers PROVE FALSE
    <3>1. PICK k \in Positions(ir, "TypePointer") : ir[k].id = id
      BY <1>0, <2>2 DEF PointersRead
    <3>2. k \in DOMAIN ir /\ ir[k].op = "TypePointer" /\ ir[k].op \in TypeOps
      BY <3>1 DEF Positions, TypeOps
    <3>3. IsDeclared(ir, id) /\ TypeAt(ir, id) = k  BY <1>0, <3>1, <3>2, TypeIs
    <3>4. QED  BY <1>2, <3>2, <3>3 DEF IsPointer
  <2>3. QED  BY <2>1, <2>2 DEF At
<1>3. QED  BY <1>1, <1>2

\* What the table of types has for an id that is no pointer.
LEMMA TypeKnown ==
  ASSUME TablesInv, NEW id, KnownId(id)
  PROVE  /\ (~IsDeclared(ir, id) \/ IsPointer(ir, id)) => id \notin DOMAIN types
         /\ (IsDeclared(ir, id) /\ ~IsPointer(ir, id)) =>
               /\ id \in DOMAIN types
               /\ TypeAt(ir, id) \in TypesAt(ir) /\ ir[TypeAt(ir, id)].id = id
               /\ Describes(types[id], ir, TypeAt(ir, id))
<1>0. IsProgram(ir) /\ TypesRead(ir, i, types)  BY DEF TablesInv, TypeInv
<1>1. ASSUME id \in DOMAIN types PROVE IsDeclared(ir, id) /\ ~IsPointer(ir, id)
  <2>1. PICK k \in TypesAt(ir) : ir[k].id = id  BY <1>0, <1>1 DEF TypesRead
  <2>2. k \in DOMAIN ir /\ ir[k].op \in TypeOps /\ ir[k].op # "TypePointer"
    BY <2>1 DEF TypesAt
  <2>3. IsDeclared(ir, id) /\ TypeAt(ir, id) = k  BY <1>0, <2>1, <2>2, TypeIs
  <2>4. QED  BY <2>2, <2>3 DEF IsPointer
<1>2. ASSUME IsDeclared(ir, id), ~IsPointer(ir, id)
      PROVE  /\ id \in DOMAIN types
             /\ TypeAt(ir, id) \in TypesAt(ir) /\ ir[TypeAt(ir, id)].id = id
             /\ Describes(types[id], ir, TypeAt(ir, id))
  <2> DEFINE k == TypeAt(ir, id)
  <2>1. k \in DOMAIN ir /\ ir[k].op \in TypeOps /\ ir[k].id = id  BY <1>2, DeclaredBy
  <2>2. k < i  BY <2>1 DEF KnownId
  <2>3. k \in TypesAt(ir)  BY <1>2, <2>1 DEF TypesAt, IsPointer
  <2> HIDE DEF k
  <2>4. id \in DOMAIN types /\ Describes(types[ir[k].id], ir, k)
    BY <1>0, <2>1, <2>2, <2>3 DEF TypesRead
  <2>5. QED  BY <2>1, <2>3, <2>4 DEF k
<1>3. QED  BY <1>1, <1>2

\* The fields of a variable, one by one.
Fields(name, type, base, comp_count, type_name) ==
    [name |-> name, type |-> type, base |-> base,
     comp_count |-> comp_count, type_name |-> type_name]

\* A variable whose type is filled in, or all that fetchType may fill in.
Typed(var, type, base) == [var EXCEPT !.type = type, !.base = base]
Filled(var, type, base, comp_count, type_name) ==
    [var EXCEPT !.type = type, !.base = base, !.comp_count = comp_count,
                !.type_name = type_name]

Unfilled(name) == [NewVariable EXCEPT !.name = name]

LEMMA VariableFields ==
  ASSUME NEW n
  PROVE  /\ Unfilled(n) = Fields(n, "Unknown", "Unknown", 1, "")
         /\ \A a, b : Typed(Unfilled(n), a, b) = Fields(n, a, b, 1, "")
         /\ \A a, b, c, d : Filled(Unfilled(n), a, b, c, d) = Fields(n, a, b, c, d)
<1>1. PICK var : var = Unfilled(n)  OBVIOUS
<1>2. PICK w : w = NewVariable  OBVIOUS
<1>3. w = Fields("", "Unknown", "Unknown", 1, "")  BY <1>2 DEF NewVariable, Fields
<1>4. var = [w EXCEPT !.name = n]  BY <1>1, <1>2 DEF Unfilled
<1>5. var = Fields(n, "Unknown", "Unknown", 1, "")  BY <1>3, <1>4 DEF Fields
<1>6. ASSUME NEW a, NEW b PROVE Typed(var, a, b) = Fields(n, a, b, 1, "")
  <2>1. PICK x : x = [var EXCEPT !.type = a]  OBVIOUS
  <2>2. x = Fields(n, a, "Unknown", 1, "")  BY <1>5, <2>1 DEF Fields
  <2>3. Typed(var, a, b) = [x EXCEPT !.base = b]  BY <2>1 DEF Typed
  <2>4. QED  BY <2>2, <2>3 DEF Fields
<1>7. ASSUME NEW a, NEW b, NEW c, NEW d PROVE Filled(var, a, b, c, d) = Fields(n, a, b, c, d)
  <2>1. PICK x : x = Typed(var, a, b)  OBVIOUS
  <2>2. x = Fields(n, a, b, 1, "")  BY <1>6, <2>1
  <2>3. PICK y : y = [x EXCEPT !.comp_count = c]  OBVIOUS
  <2>4. y = Fields(n, a, b, c, "")  BY <2>2, <2>3 DEF Fields
  <2>5. Filled(var, a, b, c, d) = [y EXCEPT !.type_name = d]
    BY <2>1, <2>3 DEF Filled, Typed
  <2>6. QED  BY <2>4, <2>5 DEF Fields
<1>8. QED  BY <1>1, <1>5, <1>6, <1>7

\* A variable of a type that was declared before gets what the type declares.
LEMMA NamedIsDeclared ==
  ASSUME TablesInv, NEW name, NEW id, KnownId(id), \A k \in Positions(ir, "Name") : k < i
  PROVE  Named(name, id) = Declared(ir, name, id)
<1> DEFINE q == Pointee(ir, id)
           info == At(types, q, NoType)
           t == ir[TypeAt(ir, q)]
<1>0. At(pointers, id, id) = q /\ KnownId(q)  BY PointeeKnown
<1>1. PICK var : var = Unfilled(name)  OBVIOUS
<1>5. /\ var = Fields(name, "Unknown", "Unknown", 1, "")
      /\ \A a, b : Typed(var, a, b) = Fields(name, a, b, 1, "")
      /\ \A a, b, c, d : Filled(var, a, b, c, d) = Fields(name, a, b, c, d)
  BY <1>1, VariableFields
<1>2. Named(name, id) = Fields(name, info.type,
                               IF info.type = "Vector" THEN info.comp ELSE info.type,
                               IF info.type \in {"Vector", "Matrix"} THEN info.count ELSE 1,
                               IF info.type = "Struct" THEN NameOf(info.of) ELSE "")
  <2> DEFINE base == IF info.type = "Vector" THEN info.comp ELSE info.type
             count == IF info.type \in {"Vector", "Matrix"} THEN info.count ELSE 1
             of == IF info.type = "Struct" THEN NameOf(info.of) ELSE ""
  <2>1. var.comp_count = 1 /\ var.type_name = ""  BY <1>5 DEF Fields
  <2>2. Named(name, id)
           = Filled(var, info.type, base,
                    IF info.type \in {"Vector", "Matrix"} THEN info.count ELSE var.comp_count,
                    IF info.type = "Struct" THEN NameOf(info.of) ELSE var.type_name)
    BY <1>0, <1>1 DEF Named, FetchType, Filled, Unfilled
  <2>3. Named(name, id) = Filled(var, info.type, base, count, of)  BY <2>1, <2>2
  <2> HIDE DEF info, base, count, of
  <2>4. Named(name, id) = Fields(name, info.type, base, count, of)  BY <1>5, <2>3
  <2>5. QED  BY <2>4 DEF base, count, of
<1>3. CASE ~IsDeclared(ir, q) \/ IsPointer(ir, q)
  <2>1. info = NoType  BY <1>0, <1>3, TypeKnown DEF At
  <2>2. Declared(ir, name, id) = Typed(var, "Void", "Void")
    BY <1>1, <1>3 DEF Declared, Typed, Unfilled
  <2>3. Declared(ir, name, id) = Fields(name, "Void", "Void", 1, "")
    BY <1>5, <2>2
  <2> HIDE DEF info, q
  <2>4. info.type = "Void"  BY <2>1 DEF NoType
  <2>5. QED  BY <1>2, <2>3, <2>4
<1>4. CASE IsDeclared(ir, q) /\ ~IsPointer(ir, q)
  <2>1. /\ info = types[q] /\ Describes(info, ir, TypeAt(ir, q))
        /\ TypeAt(ir, q) \in TypesAt(ir) /\ t.id = q
    BY <1>0, <1>4, TypeKnown DEF At
  <2> DEFINE type == CASE t.op = "TypeStruct" -> "Struct"
                       [] t.op = "TypeVector" -> "Vector"
                       [] t.op = "TypeMatrix" -> "Matrix"
                       [] OTHER -> t.op
             comp == ir[TypeAt(ir, t.type)].op
             base == CASE t.op = "TypeStruct" -> "Struct"
                       [] t.op = "TypeVector" -> comp
                       [] t.op = "TypeMatrix" -> "Matrix"
                       [] OTHER -> t.op
             count == IF t.op \in {"TypeVector", "TypeMatrix"} THEN t.count ELSE 1
             of == IF t.op = "TypeStruct" THEN DeclaredName(ir, t.id) ELSE ""
  <2>2. Declared(ir, name, id) = Filled(var, type, base, count, of)
    BY <1>1, <1>4 DEF Declared, Filled, Unfilled
  <2>3. Declared(ir, name, id) = Fields(name, type, base, count, of)
    <3> HIDE DEF type, base, count, of
    <3>1. QED  BY <1>5, <2>2
  <2>4. NameOf(q) = DeclaredName(ir, q)  BY NameKnown
  <2>5. t.op \in Scalars \cup {"TypeVector", "TypeMatrix", "TypeStruct"}
    BY <2>1 DEF TypesAt, TypeOps
  <2>6. /\ t.op \in Scalars => info.type = t.op
        /\ t.op = "TypeVector" => /\ info.type = "Vector" /\ info.count = t.count
                                  /\ info.comp = comp
        /\ t.op = "TypeMatrix" => info.type = "Matrix" /\ info.count = t.count
        /\ t.op = "TypeStruct" => info.type = "Struct" /\ info.of = q
    BY <2>1 DEF Describes
  <2>7. t.id = q  BY <2>1
  <2> HIDE DEF info, q, t, comp
  <2>8. /\ info.type = type
        /\ (IF info.type = "Vector" THEN info.comp ELSE info.type) = base
        /\ (IF info.type \in {"Vector", "Matrix"} THEN info.count ELSE 1) = count
        /\ (IF info.type = "Struct" THEN NameOf(info.of) ELSE "") = of
    <3>1. CASE t.op \in Scalars  BY <2>6, <3>1 DEF Scalars
    <3>2. CASE t.op = "TypeVector"  BY <2>6, <3>2
    <3>3. CASE t.op = "TypeMatrix"  BY <2>6, <3>3
    <3>4. CASE t.op = "TypeStruct"  BY <2>4, <2>6, <2>7, <3>4
    <3>5. QED  BY <2>5, <3>1, <3>2, <3>3, <3>4
  <2>9. QED  BY <1>2, <2>3, <2>8
<1>6. QED  BY <1>3, <1>4

-----------------------------------------------------------------------------
\* Before the first instruction nothing was read.
LEMMA NothingRead ==
  ASSUME NEW p, IsProgram(p)
  PROVE  NamesRead(p, 1, Empty) /\ PointersRead(p, 1, Empty) /\ TypesRead(p, 1, Empty)
<1>1. \A k \in DOMAIN p : ~(k < 1)
  <2>1. p \in Seq(Instructions)  BY DEF IsProgram
  <2>2. DOMAIN p = 1..Len(p)  BY <2>1
  <2>3. QED  BY <2>1, <2>2
<1>2. DOMAIN Empty = {}  BY DEF Empty
<1>3. QED
  BY <1>1, <1>2 DEF NamesRead, PointersRead, TypesRead, Positions, TypesAt

\* The parser's knowledge of a type agrees with its instruction.
LEMMA NextType ==
  ASSUME TablesInv, OpTypeStruct \/ OpTypeScalar \/ OpTypeVector \/ OpTypeMatrix
  PROVE  /\ i \in TypesAt(ir)
         /\ \E info : types' = Put(types, ir[i].id, info) /\ Describes(info, ir, i)
<1>0. TypeInv /\ IsProgram(ir) /\ DOMAIN ir \subseteq Nat  BY ScanPosition DEF TablesInv
<1>1. CASE OpTypeStruct
  <2> DEFINE info == [NoType EXCEPT !.type = "Struct", !.of = ir[i].id]
  <2>1. i \in DOMAIN ir /\ ir[i].op = "TypeStruct"  BY <1>0, <1>1, NextInstruction DEF OpTypeStruct
  <2>2. types' = Put(types, ir[i].id, info)  BY <1>1 DEF OpTypeStruct
  <2>3. info.type = "Struct" /\ info.of = ir[i].id  BY DEF NoType
  <2> HIDE DEF info
  <2>4. Describes(info, ir, i)  BY <2>1, <2>3 DEF Describes, Scalars
  <2>5. QED  BY <2>1, <2>2, <2>4 DEF TypesAt, TypeOps
<1>2. CASE OpTypeScalar
  <2>1. PICK s \in Scalars : /\ Reads(s)
                             /\ types' = Put(types, ir[i].id, [NoType EXCEPT !.type = s])
    BY <1>2 DEF OpTypeScalar
  <2> DEFINE info == [NoType EXCEPT !.type = s]
  <2>2. i \in DOMAIN ir /\ ir[i].op = s  BY <1>0, <2>1, NextInstruction
  <2>3. info.type = s  BY DEF NoType
  <2> HIDE DEF info
  <2>4. Describes(info, ir, i)  BY <2>2, <2>3 DEF Describes, Scalars
  <2>5. QED  BY <2>1, <2>2, <2>4 DEF TypesAt, TypeOps, Scalars, info
<1>3. CASE OpTypeVector
  <2> DEFINE comp == At(types, ir[i].type, NoType).type
             info == [type |-> "Vector", of |-> 0, count |-> ir[i].count, comp |-> comp]
  <2>1. i \in DOMAIN ir /\ ir[i].op = "TypeVector" /\ i \in Positions(ir, "TypeVector")
    BY <1>0, <1>3, NextInstruction DEF OpTypeVector
  <2>2. PICK l \in DOMAIN ir : ir[l].op \in Scalars /\ ir[l].id = ir[i].type
    BY <1>0, <2>1 DEF IsProgram, WellTyped
  <2>3. ir[l].op \in TypeOps /\ l \in TypesAt(ir)  BY <2>2 DEF TypesAt, TypeOps, Scalars
  <2>4. Mentions(ir[i], ir[l].id)  BY <2>1, <2>2 DEF Mentions, OfAType
  <2>5. l < i  BY <1>0, <2>1, <2>3, <2>4 DEF IsProgram, DeclaredFirst
  <2>6. ir[l].id \in DOMAIN types /\ Describes(types[ir[l].id], ir, l)
    BY <2>3, <2>5 DEF TablesInv, TypesRead
  <2>7. comp = ir[l].op  BY <2>2, <2>6 DEF At, Describes
  <2>8. TypeAt(ir, ir[i].type) = l  BY <1>0, <2>2, <2>3, TypeIs
  <2>9. types' = Put(types, ir[i].id, info)  BY <1>3 DEF OpTypeVector
  <2> HIDE DEF comp
  <2>10. info.type = "Vector" /\ info.count = ir[i].count /\ info.comp = comp  OBVIOUS
  <2> HIDE DEF info
  <2>11. Describes(info, ir, i)  BY <2>1, <2>7, <2>8, <2>10 DEF Describes, Scalars
  <2>12. QED  BY <2>1, <2>9, <2>11 DEF TypesAt, TypeOps
<1>4. CASE OpTypeMatrix
  <2> DEFINE comp == At(types, ir[i].type, NoType).comp
             info == [type |-> "Matrix", of |-> 0, count |-> ir[i].count, comp |-> comp]
  <2>1. i \in DOMAIN ir /\ ir[i].op = "TypeMatrix"
    BY <1>0, <1>4, NextInstruction DEF OpTypeMatrix
  <2>2. types' = Put(types, ir[i].id, info)  BY <1>4 DEF OpTypeMatrix
  <2> HIDE DEF comp
  <2>3. info.type = "Matrix" /\ info.count = ir[i].count  OBVIOUS
  <2> HIDE DEF info
  <2>4. Describes(info, ir, i)  BY <2>1, <2>3 DEF Describes, Scalars
  <2>5. QED  BY <2>1, <2>2, <2>4 DEF TypesAt, TypeOps
<1>5. QED  BY <1>1, <1>2, <1>3, <1>4

\* The scan goes on by one instruction: what becomes of the tables.
TablesGoOn ==
    /\ i \in DOMAIN ir /\ i' = i + 1 /\ ir' = ir
    /\ IF ir[i].op = "Name" THEN names' = Put(names, ir[i].id, ir[i].name)
       ELSE names' = names
    /\ IF ir[i].op = "TypePointer" THEN pointers' = Put(pointers, ir[i].id, ir[i].type)
       ELSE pointers' = pointers
    /\ IF i \in TypesAt(ir)
       THEN \E info : types' = Put(types, ir[i].id, info) /\ Describes(info, ir, i)
       ELSE types' = types

LEMMA ScanGoesOn ==
  ASSUME TablesInv, Scan
  PROVE  \/ UNCHANGED vars
         \/ TablesGoOn
<1>0. TypeInv  BY DEF TablesInv
<1>1. ASSUME NEW op, Reads(op), op # "ZeroWords",
             op \notin {"Name", "TypePointer", "TypeVector", "TypeMatrix", "TypeStruct"}
                          \cup Scalars,
             UNCHANGED <<names, pointers, types>>
      PROVE  TablesGoOn
  <2>1. i \in DOMAIN ir /\ ir[i].op = op /\ i' = i + 1 /\ ir' = ir  BY <1>0, <1>1, NextInstruction
  <2>2. i \notin TypesAt(ir)  BY <1>1, <2>1 DEF TypesAt, TypeOps
  <2>3. QED  BY <1>1, <2>1, <2>2 DEF TablesGoOn
<1>2. CASE OpName
  <2>1. i \in DOMAIN ir /\ ir[i].op = "Name" /\ i' = i + 1 /\ ir' = ir
    BY <1>0, <1>2, NextInstruction DEF OpName
  <2>2. i \notin TypesAt(ir)  BY <2>1 DEF TypesAt, TypeOps, Scalars
  <2>3. QED  BY <1>2, <2>1, <2>2 DEF TablesGoOn, OpName
<1>3. CASE OpTypePointer
  <2>1. i \in DOMAIN ir /\ ir[i].op = "TypePointer" /\ i' = i + 1 /\ ir' = ir
    BY <1>0, <1>3, NextInstruction DEF OpTypePointer
  <2>2. i \notin TypesAt(ir)  BY <2>1 DEF TypesAt
  <2>3. QED  BY <1>3, <2>1, <2>2 DEF TablesGoOn, OpTypePointer
<1>4. CASE OpTypeStruct \/ OpTypeScalar \/ OpTypeVector \/ OpTypeMatrix
  <2>1. i \in DOMAIN ir /\ i' = i + 1 /\ ir' = ir
        /\ ir[i].op \in {"TypeVector", "TypeMatrix", "TypeStruct"} \cup Scalars
    BY <1>0, <1>4, NextInstruction
    DEF OpTypeStruct, OpTypeScalar, OpTypeVector, OpTypeMatrix, Scalars
  <2>2. UNCHANGED <<names, pointers>>
    BY <1>4 DEF OpTypeStruct, OpTypeScalar, OpTypeVector, OpTypeMatrix
  <2>3. ir[i].op # "Name" /\ ir[i].op # "TypePointer"  BY <2>1 DEF Scalars
  <2>4. QED  BY <1>4, <2>1, <2>2, <2>3, NextType DEF TablesGoOn
<1>5. CASE \/ OpLine \/ OpMemberName \/ OpFunction \/ OpFunctionEnd \/ OpVariable
           \/ OpFunctionParameter \/ OpExecutionMode \/ OpBarrier \/ Count
  <2>1. PICK op \in {"Line", "MemberName", "Function", "FunctionEnd", "Variable",
                     "FunctionParameter", "LocalSize", "Barrier"} \cup Counters : Reads(op)
    BY <1>5 DEF OpLine, OpMemberName, OpFunction, OpFunctionEnd, OpVariable,
                OpFunctionParameter, OpExecutionMode, OpBarrier, Count
  <2>2. UNCHANGED <<names, pointers, types>>
    BY <1>5 DEF OpLine, OpMemberName, OpFunction, OpFunctionEnd, OpVariable,
                OpFunctionParameter, OpExecutionMode, OpBarrier, Count, tables
  <2>3. QED  BY <1>1, <2>1, <2>2 DEF Counters, Scalars
<1>6. CASE Skip
  <2>1. CASE Reads("Other")  BY <1>1, <1>6, <2>1 DEF Skip, tables, Scalars
  <2>2. CASE Reads("ZeroWords")
    <3>1. ir[i].op = "ZeroWords" /\ i' = i + StepOver(ir[i]) /\ ir' = ir  BY <2>2 DEF Reads
    <3>2. i \in Nat  BY <1>0, ScanPosition
    <3>3. i' = i  BY <3>1, <3>2 DEF StepOver
    <3>4. QED  BY <1>6, <3>1, <3>3 DEF Skip, vars
  <2>3. QED  BY <1>6, <2>1, <2>2 DEF Skip
<1>7. QED  BY <1>2, <1>3, <1>4, <1>5, <1>6 DEF Scan

LEMMA TablesInit == Init => TablesInv
<1> SUFFICES ASSUME Init PROVE TablesInv  OBVIOUS
<1>1. ir = <<>> /\ i = 1 /\ names = Empty /\ pointers = Empty /\ types = Empty  BY DEF Init
<1>2. QED  BY <1>1, TypeInit, NothingRead, ProgramsArePrograms DEF TablesInv

LEMMA TablesStep == TablesInv /\ [Next]_vars => TablesInv'
<1> SUFFICES ASSUME TablesInv, [Next]_vars PROVE TablesInv'  OBVIOUS
<1>0. TypeInv' /\ TypeInv  BY TypeStep DEF TablesInv
<1>1. CASE TablesGoOn
  <2>1. IsProgram(ir) /\ i \in DOMAIN ir /\ i' = i + 1 /\ ir' = ir
    BY <1>0, <1>1, ScanPosition DEF TablesGoOn
  <2>2. NamesRead(ir, i, names) /\ PointersRead(ir, i, pointers) /\ TypesRead(ir, i, types)
    BY DEF TablesInv
  <2>3. NamesRead(ir, i + 1, names')  BY <1>1, <2>1, <2>2, NamesNext DEF TablesGoOn
  <2>4. PointersRead(ir, i + 1, pointers')  BY <1>1, <2>1, <2>2, PointersNext DEF TablesGoOn
  <2>5. TypesRead(ir, i + 1, types')  BY <1>1, <2>1, <2>2, TypesNext DEF TablesGoOn
  <2>6. QED  BY <1>0, <2>1, <2>3, <2>4, <2>5 DEF TablesInv
<1>2. CASE UNCHANGED vars
  <2>1. ir' = ir /\ i' = i /\ names' = names /\ pointers' = pointers /\ types' = types
    BY <1>2 DEF vars, tables
  <2>2. QED  BY <1>0, <2>1 DEF TablesInv
<1>3. ASSUME NEW p \in Programs, Parse(p) PROVE TablesInv'
  <2>1. ir' = p /\ i' = 1 /\ names' = Empty /\ pointers' = Empty /\ types' = Empty
    BY <1>3 DEF Parse
  <2>2. QED  BY <1>0, <2>1, NothingRead, ProgramsArePrograms DEF TablesInv
<1>4. QED  BY <1>1, <1>2, <1>3, ScanGoesOn DEF Next

-----------------------------------------------------------------------------
\* What comes before an instruction that has a type or declares one.
LEMMA NamesFirst ==
  ASSUME TypeInv, NEW k \in DOMAIN ir, ir[k].op \in TypeOps \cup OfAType
  PROVE  /\ \A n \in Positions(ir, "Name") : n < k
         /\ \A n \in Positions(ir, "MemberName") : n < k
         /\ \A id : Mentions(ir[k], id) =>
               \A l \in DOMAIN ir : ir[l].op \in TypeOps /\ ir[l].id = id => l < k
  BY DEF TypeInv, IsProgram, DeclaredFirst, Positions

LEMMA UnfilledIsNew == Unfilled("") = NewVariable
  BY VariableFields DEF Fields, NewVariable

\* A named member is one of the struct's.
LEMMA MemberInStruct ==
  ASSUME TypeInv, NEW s \in Positions(ir, "TypeStruct"), NEW k \in MemberNames(ir, ir[s].id)
  PROVE  ir[k].index \in Nat /\ ir[k].index + 1 <= Len(ir[s].members) /\ k < s
<1>0. IsProgram(ir) /\ DOMAIN ir \subseteq Nat  BY ScanPosition
<1>1. s \in DOMAIN ir /\ ir[s].op = "TypeStruct" /\ ir[s].op \in TypeOps
  BY DEF Positions, TypeOps
<1>2. k \in Positions(ir, "MemberName") /\ ir[k].id = ir[s].id  BY DEF MemberNames
<1>3. PICK t \in Positions(ir, "TypeStruct") :
          ir[t].id = ir[k].id /\ ir[k].index < Len(ir[t].members)
  BY <1>0, <1>2 DEF IsProgram, WellTyped
<1>4. t \in DOMAIN ir /\ ir[t].op \in TypeOps  BY DEF Positions, TypeOps
<1>5. t = s  BY <1>0, <1>1, <1>2, <1>3, <1>4 DEF IsProgram, DeclaredOnce
<1>6. ir[k].index \in Nat /\ ir[s].members \in Seq(Nat)
  BY <1>1, <1>2, ScanPosition DEF IsInstruction, Positions
<1>7. k < s  BY <1>1, <1>2, NamesFirst
<1>8. QED  BY <1>3, <1>5, <1>6, <1>7

\* OpTypeStruct gives an orderly struct the members that it declares.
LEMMA StructDeclared ==
  ASSUME StructsInv, OpTypeStruct, Orderly(ir, i)
  PROVE  StructMembers(DeclaredName(ir, ir[i].id), ir[i].members) = MembersOf(ir, i)
<1> DEFINE name == DeclaredName(ir, ir[i].id)
           operands == ir[i].members
           member(m) == DeclaredMember(ir, ir[i].id, m)
           named == MemberNames(ir, ir[i].id)
           old == module.user_types[name]
<1>0. TypeInv /\ TablesInv /\ IsProgram(ir) /\ DOMAIN ir \subseteq Nat
  BY ScanPosition DEF StructsInv, TablesInv
<1>1. i \in DOMAIN ir /\ ir[i].op = "TypeStruct" /\ i \in Positions(ir, "TypeStruct")
      /\ operands \in Seq(Nat)
  BY <1>0, NextInstruction DEF OpTypeStruct, IsInstruction
<1>2. StructRead(ir, i, i, module.user_types)  BY <1>1 DEF StructsInv, StructsRead
<1>3. MembersNamed(ir, i, i) = named
  BY <1>0, <1>1, MemberInStruct DEF MembersNamed
<1>4. ASSUME NEW m \in DOMAIN operands
      PROVE  FetchType(Unfilled(member(m)), operands[m]) = MembersOf(ir, i)[m]
  <2>1. Mentions(ir[i], operands[m])  BY <1>1 DEF Mentions
  <2>2. KnownId(operands[m]) /\ \A k \in Positions(ir, "Name") : k < i
    BY <1>0, <1>1, <2>1, NamesFirst DEF KnownId, TypeOps
  <2>3. Named(member(m), operands[m]) = Declared(ir, member(m), operands[m])
    <3> HIDE DEF member
    <3>1. QED  BY <1>0, <2>2, NamedIsDeclared
  <2>4. QED  BY <2>3 DEF Named, Unfilled, MembersOf
<1>5. DOMAIN operands = 1..Len(operands) /\ Len(operands) \in Nat  BY <1>1
<1>6. DOMAIN MembersOf(ir, i) = DOMAIN operands  BY DEF MembersOf
<1>7. CASE name \in DOMAIN module.user_types
  <2>1. MadeByNames(old, ir, i, i)  BY <1>0, <1>1, <1>2, <1>7 DEF StructRead
  <2>2. /\ \A k \in named : ir[k].index + 1 <= Len(old)
        /\ \E k \in named : Len(old) = ir[k].index + 1
        /\ \A m \in 1..Len(old) :
              \/ \E k \in named : ir[k].index + 1 = m /\ old[m] = Unfilled(ir[k].name)
              \/ (\A k \in named : ir[k].index + 1 # m) /\ old[m] = NewVariable
    BY <1>3, <2>1 DEF MadeByNames, Unfilled
  <2>3. old \in Seq(Variables)  BY <1>0, <1>7 DEF TypeInv, TypeOK
  <2>4. PICK last \in named : ir[last].index = Len(operands) - 1
    BY <2>2 DEF Orderly
  <2>5. \A k \in named : ir[k].index \in Nat /\ ir[k].index + 1 <= Len(operands)
    BY <1>0, <1>1, MemberInStruct
  <2> HIDE DEF old
  <2>6. Len(old) = Len(operands)
    <3>1. Len(old) \in Nat /\ ir[last].index + 1 <= Len(old)  BY <2>2, <2>3, <2>4
    <3>2. Len(old) <= Len(operands)  BY <2>2, <2>5
    <3>3. QED  BY <1>5, <2>4, <3>1, <3>2
  <2>7. ASSUME NEW m \in 1..Len(operands) PROVE old[m] = Unfilled(member(m))
    <3>1. m \in Nat  BY <1>5
    <3>2. CASE \E k \in named : ir[k].index + 1 = m /\ old[m] = Unfilled(ir[k].name)
      <4>1. PICK k \in named : ir[k].index + 1 = m /\ old[m] = Unfilled(ir[k].name)  BY <3>2
      <4>2. member(m) = ir[k].name  BY <1>0, <3>1, <4>1, MemberIs
      <4>3. QED  BY <4>1, <4>2
    <3>3. CASE (\A k \in named : ir[k].index + 1 # m) /\ old[m] = NewVariable
      <4>1. member(m) = ""  BY <1>0, <3>1, <3>3, MemberIs
      <4>2. QED  BY <3>3, <4>1, UnfilledIsNew
    <3>4. QED  BY <2>2, <2>6, <3>2, <3>3
  <2> DEFINE new == [j \in DOMAIN old |-> IF j \in DOMAIN operands
                                          THEN FetchType(old[j], operands[j]) ELSE old[j]]
  <2>8. StructMembers(name, operands) = new  BY <1>7 DEF StructMembers, old
  <2>9. DOMAIN old = DOMAIN operands  BY <1>5, <2>3, <2>6
  <2> HIDE DEF name, operands, member
  <2>10. new = [j \in DOMAIN operands |-> FetchType(Unfilled(member(j)), operands[j])]
    BY <1>5, <2>7, <2>9
  <2>11. new = [j \in DOMAIN operands |-> MembersOf(ir, i)[j]]  BY <1>4, <2>10
  <2>12. MembersOf(ir, i) = [j \in DOMAIN operands |-> MembersOf(ir, i)[j]]
    BY DEF MembersOf, operands
  <2> HIDE DEF new
  <2>13. QED  BY <2>8, <2>11, <2>12 DEF name, operands
<1>8. CASE name \notin DOMAIN module.user_types
  <2>1. named = {}  BY <1>0, <1>1, <1>2, <1>3, <1>8 DEF StructRead
  <2>2. ASSUME NEW m \in DOMAIN operands PROVE Unfilled(member(m)) = NewVariable
    <3>1. m \in Nat  BY <1>5
    <3>2. member(m) = ""  BY <1>0, <2>1, <3>1, MemberIs
    <3>3. QED  BY <3>2, UnfilledIsNew
  <2> DEFINE new == [j \in DOMAIN operands |-> FetchType(NewVariable, operands[j])]
  <2>3. StructMembers(name, operands) = new  BY <1>8 DEF StructMembers
  <2> HIDE DEF name, operands, member
  <2>4. new = [j \in DOMAIN operands |-> FetchType(Unfilled(member(j)), operands[j])]
    BY <2>2
  <2>5. new = [j \in DOMAIN operands |-> MembersOf(ir, i)[j]]  BY <1>4, <2>4
  <2>6. MembersOf(ir, i) = [j \in DOMAIN operands |-> MembersOf(ir, i)[j]]
    BY DEF MembersOf, operands
  <2> HIDE DEF new
  <2>7. QED  BY <2>3, <2>5, <2>6 DEF name, operands
<1>9. QED  BY <1>7, <1>8

\* OpMemberName makes or renames a member of a struct that comes later.
LEMMA MemberRead ==
  ASSUME StructsInv, OpMemberName, NEW s \in Positions(ir, "TypeStruct"), Orderly(ir, s)
  PROVE  StructRead(ir, s, i + 1, module'.user_types)
<1> DEFINE name == DeclaredName(ir, ir[s].id)
           owner == DeclaredName(ir, ir[i].id)
           known == At(module.user_types, owner, <<>>)
           at    == ir[i].index + 1
           room  == IF at > Len(known) THEN at ELSE Len(known)
           mems  == [j \in 1..room |-> IF j \in DOMAIN known THEN known[j] ELSE NewVariable]
           made  == [mems EXCEPT ![at].name = ir[i].name]
<1>0. TypeInv /\ TablesInv /\ IsProgram(ir) /\ DOMAIN ir \subseteq Nat /\ ModuleOK
  BY ScanPosition, ModuleTyped DEF StructsInv, TablesInv
<1>1. i \in DOMAIN ir /\ ir[i].op = "MemberName" /\ i \in Positions(ir, "MemberName")
      /\ ir[i].index \in Nat
  BY <1>0, NextInstruction DEF OpMemberName, IsInstruction
<1>2. \A k \in Positions(ir, "Name") : ir[k].id = ir[i].id => k < i
  BY <1>0, <1>1 DEF IsProgram, DeclaredFirst
<1>3. NameOf(ir[i].id) = owner  BY <1>0, <1>2, NameKnown
<1>4. module'.user_types = Put(module.user_types, owner, made)
  <2>1. module' = [module EXCEPT !.user_types = Put(@, owner, made)]
    BY <1>3 DEF OpMemberName
  <2> HIDE DEF made, owner
  <2>2. QED  BY <1>0, <2>1 DEF ModuleOK, Shape
<1>5. s \in DOMAIN ir /\ i < s
  <2>1. s \in DOMAIN ir /\ ir[s].op \in TypeOps \cup OfAType  BY DEF Positions, TypeOps
  <2>2. QED  BY <1>0, <1>1, <2>1, NamesFirst
<1>6. StructRead(ir, s, i, module.user_types)  BY DEF StructsInv, StructsRead
<1>7. s >= i /\ ~(s < i) /\ s >= i + 1 /\ ~(s < i + 1)  BY <1>0, <1>1, <1>5
<1>8. CASE ir[i].id # ir[s].id
  <2>1. PICK t \in Positions(ir, "TypeStruct") : ir[t].id = ir[i].id
    BY <1>0, <1>1 DEF IsProgram, WellTyped
  <2>2. owner # name  BY <1>8, <2>1 DEF Orderly
  <2>3. MembersNamed(ir, s, i + 1) = MembersNamed(ir, s, i)
    <3>1. ASSUME NEW k \in MemberNames(ir, ir[s].id) PROVE k < i + 1 <=> k < i
      <4>1. k \in DOMAIN ir /\ k # i  BY <1>8 DEF MemberNames, Positions
      <4>2. QED  BY <1>0, <1>1, <4>1
    <3>2. QED  BY <3>1 DEF MembersNamed
  <2> HIDE DEF made, owner
  <2>4. /\ name \in DOMAIN module'.user_types <=> name \in DOMAIN module.user_types
        /\ name \in DOMAIN module.user_types => module'.user_types[name] = module.user_types[name]
    BY <1>4, <2>2 DEF Put
  <2>5. QED  BY <1>6, <1>7, <2>3, <2>4 DEF StructRead, MadeByNames
<1>9. CASE ir[i].id = ir[s].id
  <2>1. owner = name /\ i \in MemberNames(ir, ir[s].id)  BY <1>1, <1>9 DEF MemberNames
  <2>2. \A k \in MembersNamed(ir, s, i + 1) : k \in MembersNamed(ir, s, i) \/ k = i
    <3>1. ASSUME NEW k \in MemberNames(ir, ir[s].id), k < i + 1 PROVE k < i \/ k = i
      <4>1. k \in DOMAIN ir  BY DEF MemberNames, Positions
      <4>2. QED  BY <1>0, <1>1, <3>1, <4>1
    <3>2. QED  BY <3>1 DEF MembersNamed
  <2>3. i \in MembersNamed(ir, s, i + 1)
    BY <1>0, <1>1, <2>1 DEF MembersNamed
  <2>4. \A k \in MembersNamed(ir, s, i) : k \in MembersNamed(ir, s, i + 1)
    <3>1. ASSUME NEW k \in MemberNames(ir, ir[s].id), k < i PROVE k < i + 1
      <4>1. k \in DOMAIN ir  BY DEF MemberNames, Positions
      <4>2. QED  BY <1>0, <1>1, <3>1, <4>1
    <3>2. QED  BY <3>1 DEF MembersNamed
  <2>5. \A k \in MembersNamed(ir, s, i) : ir[k].index \in Nat /\ ir[k].index # ir[i].index
    <3>1. ASSUME NEW k \in MembersNamed(ir, s, i) PROVE ir[k].index # ir[i].index
      <4>1. k \in Positions(ir, "MemberName") /\ ir[k].id = ir[i].id /\ k # i
        BY <1>0, <1>1, <1>9 DEF MembersNamed, MemberNames, Positions
      <4>2. QED  BY <1>0, <1>1, <4>1 DEF IsProgram, DeclaredOnce
    <3>2. QED  BY <1>0, <3>1, MemberInStruct DEF MembersNamed
  <2>6. /\ known \in Seq(Variables)
        /\ \A k \in MembersNamed(ir, s, i) : ir[k].index + 1 <= Len(known)
        /\ \/ Len(known) = 0
           \/ \E k \in MembersNamed(ir, s, i) : Len(known) = ir[k].index + 1
        /\ \A m \in 1..Len(known) :
              \/ \E k \in MembersNamed(ir, s, i) :
                    ir[k].index + 1 = m /\ known[m] = Unfilled(ir[k].name)
              \/ /\ \A k \in MembersNamed(ir, s, i) : ir[k].index + 1 # m
                 /\ known[m] = NewVariable
    <3>1. CASE name \in DOMAIN module.user_types
      <4>1. known = module.user_types[name]  BY <2>1, <3>1 DEF At
      <4>2. known \in Seq(Variables)  BY <1>0, <3>1, <4>1 DEF ModuleOK
      <4>3. MadeByNames(known, ir, s, i)  BY <1>6, <1>7, <3>1, <4>1 DEF StructRead
      <4> HIDE DEF known
      <4>4. QED  BY <4>2, <4>3 DEF MadeByNames, Unfilled
    <3>2. CASE name \notin DOMAIN module.user_types
      <4>1. known = <<>>  BY <2>1, <3>2 DEF At
      <4>2. MembersNamed(ir, s, i) = {}  BY <1>6, <1>7, <3>2 DEF StructRead
      <4>3. <<>> \in Seq(Variables) /\ Len(<<>>) = 0  OBVIOUS
      <4> HIDE DEF known
      <4>4. QED  BY <4>1, <4>2, <4>3
    <3>3. QED  BY <3>1, <3>2
  <2> HIDE DEF known
  <2>7. Len(known) \in Nat /\ DOMAIN known = 1..Len(known) /\ at \in Nat /\ at >= 1
        /\ room \in Nat /\ at <= room /\ Len(known) <= room /\ (room = at \/ room = Len(known))
    BY <1>1, <2>6
  <2>8. /\ DOMAIN made = 1..room /\ Len(made) = room
        /\ \A m \in 1..room : m # at => made[m] = mems[m]
        /\ made[at] = [mems[at] EXCEPT !.name = ir[i].name]
    <3>1. DOMAIN mems = 1..room  OBVIOUS
    <3> HIDE DEF mems
    <3>2. DOMAIN made = 1..room /\ \A m \in 1..room : m # at => made[m] = mems[m]
      BY <3>1
    <3>3. at \in 1..room  BY <2>7
    <3>4. made[at] = [mems[at] EXCEPT !.name = ir[i].name]  BY <3>1, <3>3
    <3>5. Len(made) = room
      <4>1. made = [m \in 1..room |-> made[m]]  BY <3>1
      <4> HIDE DEF made, room
      <4>2. QED  BY <2>7, <4>1
    <3>6. QED  BY <3>2, <3>4, <3>5
  <2>9. mems[at] = Unfilled("") \/ \E k \in MembersNamed(ir, s, i) : ir[k].index + 1 = at
    <3>1. CASE at \in DOMAIN known
      <4>1. mems[at] = known[at]  BY <2>7, <3>1
      <4>2. QED  BY <2>6, <2>7, <3>1, <4>1, UnfilledIsNew
    <3>2. CASE at \notin DOMAIN known
      <4>1. mems[at] = NewVariable  BY <2>7, <3>2
      <4>2. QED  BY <4>1, UnfilledIsNew
    <3>3. QED  BY <3>1, <3>2
  <2>10. \A k \in MembersNamed(ir, s, i) : ir[k].index + 1 # at  BY <1>1, <2>5
  <2>11. made[at] = Unfilled(ir[i].name)
    <3>1. mems[at] = NewVariable  BY <2>9, <2>10, UnfilledIsNew
    <3>2. QED  BY <2>8, <3>1 DEF Unfilled
  <2>12. ASSUME NEW m \in 1..room, m # at
         PROVE  \/ \E k \in MembersNamed(ir, s, i) :
                     ir[k].index + 1 = m /\ made[m] = Unfilled(ir[k].name)
                \/ /\ \A k \in MembersNamed(ir, s, i) : ir[k].index + 1 # m
                   /\ made[m] = NewVariable
    <3>1. made[m] = mems[m]  BY <2>8, <2>12
    <3>2. CASE m \in 1..Len(known)
      <4>1. mems[m] = known[m]  BY <2>7, <3>2
      <4>2. QED  BY <2>6, <3>1, <3>2, <4>1
    <3>3. CASE m \notin 1..Len(known)
      <4>1. mems[m] = NewVariable  BY <2>7, <3>3
      <4>2. \A k \in MembersNamed(ir, s, i) : ir[k].index + 1 # m
        BY <2>5, <2>6, <2>7, <3>3
      <4>3. QED  BY <3>1, <4>1, <4>2
    <3>4. QED  BY <3>2, <3>3
  <2> HIDE DEF made, mems
  <2>13. MadeByNames(made, ir, s, i + 1)
    <3>1. \A k \in MembersNamed(ir, s, i + 1) : ir[k].index + 1 <= Len(made)
      <4>1. ASSUME NEW k \in MembersNamed(ir, s, i) PROVE ir[k].index + 1 <= room
        BY <2>5, <2>6, <2>7
      <4> HIDE DEF room
      <4>2. QED  BY <2>2, <2>7, <2>8, <4>1
    <3>2. \E k \in MembersNamed(ir, s, i + 1) : Len(made) = ir[k].index + 1
      <4>1. CASE room = at  BY <2>3, <2>8, <4>1
      <4>2. CASE room # at
        <5>1. room = Len(known) /\ Len(known) # 0  BY <2>7, <4>2
        <5>2. PICK k \in MembersNamed(ir, s, i) : Len(known) = ir[k].index + 1  BY <2>6, <5>1
        <5> HIDE DEF room
        <5>3. QED  BY <2>4, <2>8, <5>1, <5>2
      <4>3. QED  BY <4>1, <4>2
    <3>3. ASSUME NEW m \in 1..Len(made)
          PROVE  \/ \E k \in MembersNamed(ir, s, i + 1) :
                      ir[k].index + 1 = m /\ made[m] = Unfilled(ir[k].name)
                 \/ /\ \A k \in MembersNamed(ir, s, i + 1) : ir[k].index + 1 # m
                    /\ made[m] = NewVariable
      <4> HIDE DEF room
      <4>1. CASE m = at  BY <2>3, <2>11, <4>1
      <4>2. CASE m # at
        <5>1. m \in 1..room  BY <2>8
        <5> HIDE DEF at
        <5>2. CASE \E k \in MembersNamed(ir, s, i) :
                     ir[k].index + 1 = m /\ made[m] = Unfilled(ir[k].name)
          BY <2>4, <5>2
        <5>3. CASE /\ \A k \in MembersNamed(ir, s, i) : ir[k].index + 1 # m
                   /\ made[m] = NewVariable
          BY <2>2, <4>2, <5>3 DEF at
        <5>4. QED  BY <2>12, <4>2, <5>1, <5>2, <5>3
      <4>3. QED  BY <4>1, <4>2
    <3>4. QED  BY <3>1, <3>2, <3>3 DEF MadeByNames, Unfilled
  <2>14. name \in DOMAIN module'.user_types /\ module'.user_types[name] = made
    BY <1>4, <2>1 DEF Put
  <2> HIDE DEF name
  <2>15. QED  BY <1>7, <2>13, <2>14 DEF StructRead, name
<1>10. QED  BY <1>8, <1>9

\* No other instruction changes what is known of a struct.
LEMMA StructKept ==
  ASSUME StructsInv, NEW s \in Positions(ir, "TypeStruct"), Orderly(ir, s),
         i \in DOMAIN ir, i # s, i \notin Positions(ir, "MemberName"), NEW table,
         DeclaredName(ir, ir[s].id) \in DOMAIN table
            <=> DeclaredName(ir, ir[s].id) \in DOMAIN module.user_types,
         DeclaredName(ir, ir[s].id) \in DOMAIN module.user_types =>
            table[DeclaredName(ir, ir[s].id)]
                = module.user_types[DeclaredName(ir, ir[s].id)]
  PROVE  StructRead(ir, s, i + 1, table)
<1>0. DOMAIN ir \subseteq Nat /\ i \in Nat /\ s \in Nat
  BY ScanPosition DEF StructsInv, TablesInv, Positions
<1>1. StructRead(ir, s, i, module.user_types)  BY DEF StructsInv, StructsRead
<1>2. MembersNamed(ir, s, i + 1) = MembersNamed(ir, s, i)
  <2>1. ASSUME NEW k \in MemberNames(ir, ir[s].id) PROVE k < i + 1 <=> k < i
    <3>1. k \in DOMAIN ir /\ k # i  BY DEF MemberNames, Positions
    <3>2. QED  BY <1>0, <3>1
  <2>2. QED  BY <2>1 DEF MembersNamed
<1>3. (s < i + 1 <=> s < i) /\ (s >= i + 1 <=> s >= i)  BY <1>0
<1>4. QED  BY <1>1, <1>2, <1>3 DEF StructRead, MadeByNames

LEMMA StructsTypeStep ==
  ASSUME StructsInv, OpTypeStruct
  PROVE  StructsRead(ir, i + 1, module'.user_types)
<1> DEFINE name == DeclaredName(ir, ir[i].id)
           mems == StructMembers(name, ir[i].members)
<1>0. TypeInv /\ TablesInv /\ DOMAIN ir \subseteq Nat /\ ModuleOK
  BY ScanPosition, ModuleTyped DEF StructsInv, TablesInv
<1>1. i \in DOMAIN ir /\ ir[i].op = "TypeStruct" /\ i \in Positions(ir, "TypeStruct")
  BY <1>0, NextInstruction DEF OpTypeStruct
<1>2. NameOf(ir[i].id) = name
  <2>1. \A k \in Positions(ir, "Name") : k < i  BY <1>0, <1>1, NamesFirst DEF TypeOps
  <2>2. QED  BY <1>0, <2>1, NameKnown
<1>3. module'.user_types = Put(module.user_types, name, mems)
  <2>1. module' = [module EXCEPT !.user_types = Put(@, name, mems)]
    BY <1>2 DEF OpTypeStruct
  <2> HIDE DEF name, mems
  <2>2. QED  BY <1>0, <2>1 DEF ModuleOK, Shape
<1>4. ASSUME NEW s \in Positions(ir, "TypeStruct"), Orderly(ir, s)
      PROVE  StructRead(ir, s, i + 1, module'.user_types)
  <2>1. CASE s = i
    <3>1. mems = MembersOf(ir, i)  BY <1>4, <2>1, StructDeclared
    <3> HIDE DEF mems
    <3>2. i < i + 1 /\ ~(i >= i + 1)  BY <1>0, <1>1
    <3>3. name \in DOMAIN module'.user_types /\ module'.user_types[name] = MembersOf(ir, i)
      BY <1>3, <3>1 DEF Put
    <3>4. QED  BY <2>1, <3>2, <3>3 DEF StructRead
  <2>2. CASE s # i
    <3>1. DeclaredName(ir, ir[s].id) # name  BY <1>1, <1>4, <2>2 DEF Orderly
    <3>2. i \notin Positions(ir, "MemberName")  BY <1>1 DEF Positions
    <3> HIDE DEF name, mems
    <3>3. QED  BY <1>1, <1>3, <1>4, <2>2, <3>1, <3>2, StructKept DEF Put
  <2>3. QED  BY <2>1, <2>2
<1>5. QED  BY <1>4 DEF StructsRead

\* The other steps leave the structs alone.
LEMMA StructsUnchanged ==
  ASSUME TypeInv, Scan, ~OpTypeStruct, ~OpMemberName
  PROVE  /\ module'.user_types = module.user_types
         /\ \/ UNCHANGED vars
            \/ i \notin Positions(ir, "TypeStruct") \cup Positions(ir, "MemberName")
<1>0. Shape  BY DEF TypeInv
<1>1. module'.user_types = module.user_types
  BY <1>0 DEF Scan, Shape, OpName, OpLine, OpFunction, OpFunctionEnd, OpVariable,
              OpFunctionParameter, OpTypePointer, OpTypeScalar, OpTypeVector, OpTypeMatrix,
              OpExecutionMode, OpBarrier, Count, Skip
<1>2. PICK op : Reads(op) /\ op # "TypeStruct" /\ op # "MemberName"
  BY DEF Scan, OpName, OpLine, OpFunction, OpFunctionEnd, OpVariable, OpFunctionParameter,
         OpTypePointer, OpTypeScalar, OpTypeVector, OpTypeMatrix, OpExecutionMode,
         OpBarrier, Count, Skip, Scalars, Counters
<1>3. ir[i].op = op  BY <1>2 DEF Reads
<1>4. QED  BY <1>1, <1>2, <1>3 DEF Positions

LEMMA StructsNone ==
  ASSUME NEW p, IsProgram(p)
  PROVE  StructsRead(p, 1, Empty)
<1>1. p \in Seq(Instructions)  BY DEF IsProgram
<1>2. \A k \in DOMAIN p : ~(k < 1)  BY <1>1
<1>3. \A s \in DOMAIN p : MembersNamed(p, s, 1) = {}
  BY <1>2 DEF MembersNamed, MemberNames, Positions
<1>4. DOMAIN Empty = {}  BY DEF Empty
<1>5. QED  BY <1>2, <1>3, <1>4 DEF StructsRead, StructRead, Positions

LEMMA StructsInit == Init => StructsInv
<1> SUFFICES ASSUME Init PROVE StructsInv  OBVIOUS
<1>1. ir = <<>> /\ i = 1 /\ module.user_types = Empty  BY DEF Init, Cleared
<1>2. QED  BY <1>1, TablesInit, StructsNone, ProgramsArePrograms DEF StructsInv

LEMMA StructsStep == StructsInv /\ [Next]_vars => StructsInv'
<1> SUFFICES ASSUME StructsInv, [Next]_vars PROVE StructsInv'  OBVIOUS
<1>0. TypeInv /\ TablesInv /\ TablesInv'  BY TablesStep DEF StructsInv, TablesInv
<1>1. CASE UNCHANGED vars
  <2>1. ir' = ir /\ i' = i /\ module' = module  BY <1>1 DEF vars
  <2>2. QED  BY <1>0, <2>1 DEF StructsInv
<1>2. ASSUME NEW p \in Programs, Parse(p) PROVE StructsInv'
  <2>1. ir' = p /\ i' = 1 /\ module'.user_types = Empty  BY <1>2 DEF Parse, Cleared
  <2>2. QED  BY <1>0, <2>1, StructsNone, ProgramsArePrograms DEF StructsInv
<1>3. CASE OpTypeStruct
  <2>1. ir' = ir /\ i' = i + 1  BY <1>0, <1>3, NextInstruction DEF OpTypeStruct
  <2>2. StructsRead(ir, i + 1, module'.user_types)  BY <1>3, StructsTypeStep
  <2>3. QED  BY <1>0, <2>1, <2>2 DEF StructsInv
<1>4. CASE OpMemberName
  <2>1. ir' = ir /\ i' = i + 1  BY <1>0, <1>4, NextInstruction DEF OpMemberName
  <2>2. StructsRead(ir, i + 1, module'.user_types)  BY <1>4, MemberRead DEF StructsRead
  <2>3. QED  BY <1>0, <2>1, <2>2 DEF StructsInv
<1>5. CASE Scan /\ ~OpTypeStruct /\ ~OpMemberName
  <2>1. /\ module'.user_types = module.user_types
        /\ \/ UNCHANGED vars
           \/ i \notin Positions(ir, "TypeStruct") \cup Positions(ir, "MemberName")
    BY <1>0, <1>5, StructsUnchanged
  <2>2. ASSUME ~UNCHANGED vars PROVE StructsInv'
    <3>1. i \in DOMAIN ir /\ i' = i + 1 /\ ir' = ir
      BY <1>0, <1>5, <2>2, ScanGoesOn DEF TablesGoOn
    <3>2. StructsRead(ir, i + 1, module.user_types)
      BY <2>1, <2>2, <3>1, StructKept DEF StructsRead
    <3>3. QED  BY <1>0, <2>1, <3>1, <3>2 DEF StructsInv
  <2>3. QED  BY <1>1, <2>2
<1>6. QED  BY <1>1, <1>2, <1>3, <1>4, <1>5 DEF Next

\* A struct whose names are orderly has the members it declares when the scan is
\* over, with their types and the names they were given, whatever was parsed before.
THEOREM StructsAlwaysAsDeclared == Spec => []StructsAsDeclared
<1>1. StructsInv => StructsAsDeclared
  <2> SUFFICES ASSUME StructsInv, Done, NEW s \in Positions(ir, "TypeStruct"), Orderly(ir, s)
               PROVE  module.user_types[DeclaredName(ir, ir[s].id)] = MembersOf(ir, s)
    BY DEF StructsAsDeclared
  <2>1. DOMAIN ir = 1..Len(ir) /\ Len(ir) \in Nat /\ i \in Nat
    BY ScanPosition DEF StructsInv, TablesInv
  <2>2. s \in 1..Len(ir) /\ i > Len(ir)  BY <2>1 DEF Positions, Done
  <2>3. s < i  BY <2>1, <2>2
  <2>4. QED  BY <2>3 DEF StructsInv, StructsRead, StructRead
<1>2. QED  BY <1>1, StructsInit, StructsStep, PTL DEF Spec

-----------------------------------------------------------------------------
\* A set of numbers that is not empty has a least element.
LEMMA LeastNumber ==
  ASSUME NEW T \in SUBSET Nat, T # {}
  PROVE  \E x \in T : \A y \in T : x <= y
<1>1. PICK R : /\ IsWellFoundedOn(R, Nat)
               /\ \A x, y \in Nat : y < x => <<y, x>> \in R
  <2>1. IsWellFoundedOn(OpToRel(<, Nat), Nat)  BY NatLessThanWellFounded
  <2>2. \A x, y \in Nat : y < x => <<y, x>> \in OpToRel(<, Nat)  BY DEF OpToRel
  <2>3. QED  BY <2>1, <2>2, Zenon
<1>2. PICK x \in T : \A y \in T : <<y, x>> \notin R  BY <1>1, WFMin
<1>3. ASSUME NEW y \in T PROVE x <= y
  <2>1. x \in Nat /\ y \in Nat  OBVIOUS
  <2>2. ~(y < x)  BY <1>1, <1>2, <2>1, Zenon
  <2>3. QED  BY <2>1, <2>2
<1>4. QED  BY <1>3

\* What is so for 0 and goes from each number up to a bound to the next, is so
\* for all of them: the least exception would have a predecessor.
LEMMA BoundedInduction ==
  ASSUME NEW N \in Nat, NEW S, 0 \in S, \A n \in 1..N : n - 1 \in S => n \in S
  PROVE  0..N \subseteq S
<1> SUFFICES ASSUME NEW z \in 0..N, z \notin S PROVE FALSE  OBVIOUS
<1> DEFINE T == {n \in 0..N : n \notin S}
<1>1. T \in SUBSET Nat /\ T # {}  OBVIOUS
<1>2. PICK x \in T : \A y \in T : x <= y
  <2> HIDE DEF T
  <2>1. QED  BY <1>1, LeastNumber
<1>3. x \in 1..N /\ x - 1 \in 0..N  OBVIOUS
<1>4. x - 1 \notin T  BY <1>2, <1>3
<1>5. QED  BY <1>3, <1>4

\* A recursion over the first numbers, each value made from the one before.
SolvesRecursion(f, N, V, base, step) ==
    /\ f \in [0..N -> V] /\ f[0] = base
    /\ \A n \in 1..N : f[n] = step[n][f[n - 1]]

\* It has a solution.
LEMMA RecursionExists ==
  ASSUME NEW N \in Nat, NEW V, NEW base \in V, NEW step \in [1..N -> [V -> V]]
  PROVE  \E f : SolvesRecursion(f, N, V, base, step)
<1> DEFINE Solves(f, n) == /\ f \in [0..n -> V] /\ f[0] = base
                           /\ \A k \in 1..n : f[k] = step[k][f[k - 1]]
           S == {n \in 0..N : \E f : Solves(f, n)}
<1>1. 0 \in S
  <2> DEFINE g == [n \in 0..0 |-> base]
  <2>1. Solves(g, 0)  OBVIOUS
  <2> HIDE DEF Solves
  <2>2. QED  BY <2>1
<1>2. ASSUME NEW n \in 1..N, n - 1 \in S PROVE n \in S
  <2>1. PICK f : Solves(f, n - 1)  BY <1>2
  <2> DEFINE g == [k \in 0..n |-> IF k = n THEN step[n][f[n - 1]] ELSE f[k]]
  <2>2. f[n - 1] \in V /\ step[n][f[n - 1]] \in V
    <3>1. n - 1 \in 0..(n - 1)  OBVIOUS
    <3>2. f[n - 1] \in V  BY <2>1, <3>1
    <3>3. step[n] \in [V -> V]  OBVIOUS
    <3>4. QED  BY <3>2, <3>3
  <2>3. g \in [0..n -> V]  BY <2>1, <2>2
  <2>4. g[0] = base  BY <2>1
  <2>5. ASSUME NEW k \in 1..n PROVE g[k] = step[k][g[k - 1]]
    <3>1. g[k - 1] = f[k - 1]  OBVIOUS
    <3>2. CASE k = n  BY <3>1, <3>2
    <3>3. CASE k # n
      <4>1. k \in 1..(n - 1)  BY <3>3
      <4>2. g[k] = f[k]  BY <3>3
      <4>3. f[k] = step[k][f[k - 1]]  BY <2>1, <4>1
      <4>4. QED  BY <3>1, <4>2, <4>3
    <3>4. QED  BY <3>2, <3>3
  <2>6. Solves(g, n)  BY <2>3, <2>4, <2>5
  <2> HIDE DEF Solves
  <2>7. QED  BY <2>6
<1>3. 0..N \subseteq S
  <2> HIDE DEF S
  <2>1. QED  BY <1>1, <1>2, BoundedInduction
<1>4. PICK f : Solves(f, N)  BY <1>3
<1>5. SolvesRecursion(f, N, V, base, step)  BY <1>4 DEF SolvesRecursion
<1>6. QED  BY <1>5

\* VariablesAt, unfolded: an instruction at a time.
LEMMA VariablesUnfold ==
  ASSUME NEW p, IsProgram(p), NEW at
  PROVE  /\ VariablesAt(p, at)[0] = <<>>
         /\ \A n \in 1..Len(p) :
               VariablesAt(p, at)[n] = IF n \in at
                                       THEN Append(VariablesAt(p, at)[n - 1], DeclaredAt(p, n))
                                       ELSE VariablesAt(p, at)[n - 1]
<1> DEFINE N == Len(p)
           D == {DeclaredAt(p, k) : k \in 1..N}
           next(s, n) == IF n \in at THEN Append(s, DeclaredAt(p, n)) ELSE s
           step == [n \in 1..N |-> [s \in Seq(D) |-> next(s, n)]]
           IsUpTo(f) == f = [n \in 0..N |-> IF n = 0 THEN <<>>
                                            ELSE IF n \in at
                                                 THEN Append(f[n - 1], DeclaredAt(p, n))
                                                 ELSE f[n - 1]]
<1>1. N \in Nat /\ <<>> \in Seq(D)  BY DEF IsProgram
<1>2. \A n \in 1..N : \A s \in Seq(D) : next(s, n) \in Seq(D)
  <2> SUFFICES ASSUME NEW n \in 1..N, NEW s \in Seq(D) PROVE next(s, n) \in Seq(D)  OBVIOUS
  <2>1. DeclaredAt(p, n) \in D  OBVIOUS
  <2> HIDE DEF D
  <2>2. Append(s, DeclaredAt(p, n)) \in Seq(D)  BY <2>1, AppendProperties
  <2>3. QED  BY <2>2
<1>3. step \in [1..N -> [Seq(D) -> Seq(D)]]  BY <1>2
<1>4. PICK f : SolvesRecursion(f, N, Seq(D), <<>>, step)
  <2> HIDE DEF step, N, D
  <2>1. QED  BY <1>1, <1>3, RecursionExists
<1>5. /\ f \in [0..N -> Seq(D)] /\ f[0] = <<>>
      /\ \A n \in 1..N : f[n] = step[n][f[n - 1]]
  BY <1>4 DEF SolvesRecursion
<1>6. ASSUME NEW n \in 1..N PROVE f[n] = next(f[n - 1], n)
  <2>1. n - 1 \in 0..N  BY <1>1
  <2> HIDE DEF next, D
  <2>2. f[n - 1] \in Seq(D)  BY <1>5, <2>1
  <2>3. step[n][f[n - 1]] = next(f[n - 1], n)  BY <2>2
  <2>4. QED  BY <1>5, <2>3
<1>7. IsUpTo(f)
  <2>1. f = [n \in 0..N |-> f[n]]  BY <1>5
  <2>2. ASSUME NEW n \in 0..N
        PROVE  f[n] = IF n = 0 THEN <<>> ELSE IF n \in at THEN Append(f[n - 1], DeclaredAt(p, n))
                                                       ELSE f[n - 1]
    <3>1. CASE n = 0  BY <1>5, <3>1
    <3>2. CASE n # 0
      <4>1. n \in 1..N  BY <1>1, <3>2
      <4>2. QED  BY <1>6, <3>2, <4>1
    <3>3. QED  BY <3>1, <3>2
  <2> HIDE DEF N
  <2>3. QED  BY <2>1, <2>2
<1>8. VariablesAt(p, at) = CHOOSE g : IsUpTo(g)  BY Zenon DEF VariablesAt
<1>9. IsUpTo(VariablesAt(p, at))
  <2> HIDE DEF IsUpTo
  <2>1. QED  BY <1>7, <1>8
<1> DEFINE E == VariablesAt(p, at)
<1> HIDE DEF E
<1>10. IsUpTo(E)  BY <1>9 DEF E
<1>11. E[0] = <<>>  BY <1>1, <1>10
<1>12. \A n \in 1..N : E[n] = IF n \in at THEN Append(E[n - 1], DeclaredAt(p, n)) ELSE E[n - 1]
  <2> SUFFICES ASSUME NEW n \in 1..N
               PROVE  E[n] = IF n \in at THEN Append(E[n - 1], DeclaredAt(p, n)) ELSE E[n - 1]
    OBVIOUS
  <2> HIDE DEF N
  <2>1. n \in 0..N /\ n # 0  BY <1>1
  <2> HIDE DEF IsUpTo
  <2>2. QED  BY <1>10, <2>1 DEF IsUpTo
<1>13. QED  BY <1>11, <1>12 DEF E

-----------------------------------------------------------------------------
\* A function starts at its head and goes on to its end.
IsIn(p, f, n) == f \in Positions(p, "Function") /\ f < n /\ n <= EndOf(p, f)

\* The functions filed under one name, and the instructions and lines in them.
SameKey(p, f) == {g \in Positions(p, "Function") : KeyOf(p, g) = KeyOf(p, f)}
BodyOf(p, f) == UNION {(g + 1)..(EndOf(p, g) - 1) : g \in SameKey(p, f)}
LinesOf(p, f) == BodyOf(p, f) \cap Positions(p, "Line")

LEMMA PositionsAre ==
  ASSUME NEW p, IsProgram(p)
  PROVE  /\ DOMAIN p = 1..Len(p) /\ Len(p) \in Nat
         /\ \A op : Positions(p, op) \subseteq DOMAIN p /\ Positions(p, op) \subseteq Nat
         /\ \A k \in DOMAIN p : IsInstruction(p[k])
<1>1. p \in Seq(Instructions)  BY DEF IsProgram
<1>2. DOMAIN p = 1..Len(p) /\ Len(p) \in Nat  BY <1>1
<1>3. \A k \in DOMAIN p : p[k] \in Instructions  BY <1>1
<1>4. QED  BY <1>2, <1>3, InstructionsAssumption DEF Positions

\* The end is the first one after the head and before the next head.
LEMMA EndIs ==
  ASSUME NEW p, IsProgram(p), NEW f \in Positions(p, "Function")
  PROVE  /\ EndOf(p, f) \in Positions(p, "FunctionEnd") /\ f < EndOf(p, f)
         /\ f \in Nat /\ EndOf(p, f) \in Nat
         /\ \A e \in Positions(p, "FunctionEnd") : f < e => EndOf(p, f) <= e
         /\ \A g \in Positions(p, "Function") : f < g => EndOf(p, f) < g
<1> DEFINE T == {e \in Positions(p, "FunctionEnd") : f < e}
           IsEnd(e) == /\ e \in Positions(p, "FunctionEnd") /\ e > f
                       /\ \A g \in Positions(p, "FunctionEnd") : g > f => e <= g
<1>0. f \in Nat /\ \A op : Positions(p, op) \subseteq Nat  BY PositionsAre
<1>1. PICK e \in Positions(p, "FunctionEnd") :
          f < e /\ \A g \in Positions(p, "Function") : ~(f < g /\ g < e)
  BY DEF IsProgram, FunctionsEnd
<1>2. T \in SUBSET Nat /\ T # {}  BY <1>0, <1>1
<1>3. PICK x \in T : \A y \in T : x <= y
  <2> HIDE DEF T
  <2>1. QED  BY <1>2, LeastNumber
<1>4. IsEnd(x)  BY <1>0, <1>3
<1>5. EndOf(p, f) = CHOOSE y : IsEnd(y)
  BY Zenon DEF EndOf
<1>6. IsEnd(EndOf(p, f))
  <2> HIDE DEF IsEnd
  <2>1. QED  BY <1>4, <1>5
<1> DEFINE end == EndOf(p, f)
<1> HIDE DEF end
<1>7. end \in Positions(p, "FunctionEnd") /\ end \in Nat /\ f < end
      /\ \A g \in Positions(p, "FunctionEnd") : f < g => end <= g
  BY <1>0, <1>6 DEF end
<1>8. ASSUME NEW g \in Positions(p, "Function"), f < g PROVE end < g
  <2>1. end <= e /\ e \in Nat /\ g \in Nat  BY <1>0, <1>1, <1>7
  <2>2. ~(g < e)  BY <1>1, <1>8
  <2>3. end # g  BY <1>7 DEF Positions
  <2>4. QED  BY <1>7, <2>1, <2>2, <2>3
<1>9. QED  BY <1>0, <1>7, <1>8 DEF end

\* Ends and parameters belong to a function.
LEMMA EndsAndParameters ==
  ASSUME NEW p, IsProgram(p)
  PROVE  /\ \A e \in Positions(p, "FunctionEnd") : \E f : IsIn(p, f, e) /\ EndOf(p, f) = e
         /\ \A k \in Positions(p, "FunctionParameter") : \E f : IsIn(p, f, k)
<1>1. ASSUME NEW k \in Positions(p, "FunctionEnd") \cup Positions(p, "FunctionParameter")
      PROVE  \E f : IsIn(p, f, k)
                    /\ (k \in Positions(p, "FunctionEnd") => EndOf(p, f) = k)
  <2>1. PICK f \in Positions(p, "Function") :
            f < k /\ \A e \in Positions(p, "FunctionEnd") : ~(f < e /\ e < k)
    BY DEF IsProgram, FunctionsEnd
  <2>2. k \in Nat  BY PositionsAre
  <2>3. EndOf(p, f) \in Positions(p, "FunctionEnd") /\ f < EndOf(p, f) /\ EndOf(p, f) \in Nat
        /\ \A e \in Positions(p, "FunctionEnd") : f < e => EndOf(p, f) <= e
    BY EndIs
  <2>4. ~(EndOf(p, f) < k)  BY <2>1, <2>3
  <2>5. k <= EndOf(p, f)  BY <2>2, <2>3, <2>4
  <2>6. k \in Positions(p, "FunctionEnd") => EndOf(p, f) <= k  BY <2>1, <2>3
  <2>7. QED  BY <2>1, <2>2, <2>3, <2>5, <2>6 DEF IsIn
<1>2. QED  BY <1>1

\* A position is in one function at most.
LEMMA OneFunction ==
  ASSUME NEW p, IsProgram(p), NEW n \in Nat, NEW f, NEW g, IsIn(p, f, n), IsIn(p, g, n)
  PROVE  f = g
<1>1. ASSUME NEW a, NEW b, IsIn(p, a, n), IsIn(p, b, n), a < b PROVE FALSE
  <2>1. EndOf(p, a) < b /\ EndOf(p, a) \in Nat /\ b \in Nat  BY <1>1, EndIs DEF IsIn
  <2>2. QED  BY <1>1, <2>1 DEF IsIn
<1>2. f \in Nat /\ g \in Nat  BY EndIs DEF IsIn
<1>3. ~(f < g) /\ ~(g < f)  BY <1>1
<1>4. QED  BY <1>2, <1>3

\* What is in the bodies of a name.
LEMMA BodyIs ==
  ASSUME NEW p, IsProgram(p), NEW f \in Positions(p, "Function"), NEW n \in Nat
  PROVE  n \in BodyOf(p, f)
            <=> \E g : IsIn(p, g, n) /\ n # EndOf(p, g) /\ KeyOf(p, g) = KeyOf(p, f)
<1>1. ASSUME NEW g \in Positions(p, "Function")
      PROVE  n \in (g + 1)..(EndOf(p, g) - 1) <=> IsIn(p, g, n) /\ n # EndOf(p, g)
  <2>1. g \in Nat /\ EndOf(p, g) \in Nat  BY EndIs
  <2>2. QED  BY <2>1 DEF IsIn
<1>2. n \in BodyOf(p, f) <=> \E g \in SameKey(p, f) : n \in (g + 1)..(EndOf(p, g) - 1)
  BY DEF BodyOf
<1>3. QED  BY <1>1, <1>2 DEF SameKey, IsIn

\* Where the bodies of a function that is alone are.
LEMMA OwnBody ==
  ASSUME NEW p, IsProgram(p), NEW f \in Positions(p, "Function"), SameKey(p, f) = {f},
         NEW n \in Nat
  PROVE  n \in BodyOf(p, f) <=> f < n /\ n < EndOf(p, f)
<1>1. f \in Nat /\ EndOf(p, f) \in Nat  BY EndIs
<1>2. BodyOf(p, f) = (f + 1)..(EndOf(p, f) - 1)  BY DEF BodyOf
<1>3. QED  BY <1>1, <1>2

-----------------------------------------------------------------------------
\* The function that the scan is in before the n-th instruction, and its last line.
PlaceRead(p, n, key, last) ==
    /\ \A f : IsIn(p, f, n) =>
          /\ key = KeyOf(p, f)
          /\ \A l \in Positions(p, "Line") :
                (f < l /\ l < n /\ \A m \in Positions(p, "Line") : m < n => m <= l)
                    => last = p[l].line
    /\ (\A f : ~IsIn(p, f, n)) => key = ""

\* The arguments and locals of a name; and what a function has for itself that is
\* alone under its name.
ListsRead(p, n, f, read) ==
    /\ read.arguments
          = VariablesAt(p, BodyOf(p, f) \cap Positions(p, "FunctionParameter"))[n - 1]
    /\ read.locals = VariablesAt(p, BodyOf(p, f) \cap Positions(p, "Variable"))[n - 1]
OwnRead(p, n, f, read) ==
    /\ read.ret_type = Declared(p, "", p[f].type)
    /\ read.index = Cardinality({KeyOf(p, g) : g \in {h \in Positions(p, "Function") : h < f}})
    /\ (\A l \in LinesOf(p, f) : l >= n) => read.line_start = -1
    /\ \A l \in LinesOf(p, f) :
          /\ (l < n /\ \A m \in LinesOf(p, f) : l <= m) => read.line_start = p[l].line
          /\ (EndOf(p, f) < n /\ \A m \in LinesOf(p, f) : m <= l) => read.line_end = p[l].line
FunctionRead(p, n, f, read) ==
    /\ ListsRead(p, n, f, read)
    /\ (f < n /\ SameKey(p, f) = {f}) => OwnRead(p, n, f, read)

\* What the parser has under a name.
FiledAs(functions, name) == At(functions, name, NewFunction)
FunctionsRead(p, n, functions) ==
    /\ DOMAIN functions = {KeyOf(p, f) : f \in {g \in Positions(p, "Function") : g < n}}
    /\ \A f \in Positions(p, "Function") :
          KeyOf(p, f) # "" => FunctionRead(p, n, f, FiledAs(functions, KeyOf(p, f)))

FunctionsInv ==
    /\ TablesInv
    /\ PlaceRead(ir, i, curFunc, lastOpLine)
    /\ FunctionsRead(ir, i, module.functions)

-----------------------------------------------------------------------------
\* Where the scan is after one instruction more.
PlaceMoves(p, n, key, last, key2, last2) ==
    /\ p[n].op = "Function" => key2 = KeyOf(p, n)
    /\ p[n].op = "FunctionEnd" => key2 = ""
    /\ p[n].op \notin {"Function", "FunctionEnd"} => key2 = key
    /\ p[n].op = "Line" => last2 = p[n].line
    /\ p[n].op \notin {"Line", "FunctionEnd"} => last2 = last

LEMMA PlaceNext ==
  ASSUME NEW p, IsProgram(p), NEW n \in DOMAIN p, NEW key, NEW last, NEW key2, NEW last2,
         PlaceRead(p, n, key, last), PlaceMoves(p, n, key, last, key2, last2)
  PROVE  PlaceRead(p, n + 1, key2, last2)
<1>0. n \in Nat /\ n + 1 \in Nat /\ Positions(p, "Line") \subseteq Nat
  BY PositionsAre
<1>1. ASSUME NEW f, IsIn(p, f, n + 1), f # n PROVE IsIn(p, f, n) /\ n # EndOf(p, f)
  <2>1. f \in Positions(p, "Function") /\ f \in Nat /\ EndOf(p, f) \in Nat
    BY <1>1, EndIs DEF IsIn
  <2>2. f < n /\ n <= EndOf(p, f) /\ n # EndOf(p, f)  BY <1>0, <1>1, <2>1 DEF IsIn
  <2>3. QED  BY <2>1, <2>2 DEF IsIn
<1>2. CASE p[n].op = "Function"
  <2>1. n \in Positions(p, "Function")  BY <1>2 DEF Positions
  <2>2. IsIn(p, n, n + 1)
    <3>1. n < EndOf(p, n) /\ EndOf(p, n) \in Nat  BY <2>1, EndIs
    <3>2. QED  BY <1>0, <2>1, <3>1 DEF IsIn
  <2>3. ASSUME NEW f, IsIn(p, f, n + 1) PROVE f = n
    <3>1. QED  BY <1>0, <2>2, <2>3, OneFunction
  <2>4. \A l \in Positions(p, "Line") : ~(n < l /\ l < n + 1)  BY <1>0
  <2>5. key2 = KeyOf(p, n)  BY <1>2 DEF PlaceMoves
  <2>6. QED  BY <2>2, <2>3, <2>4, <2>5 DEF PlaceRead
<1>3. CASE p[n].op = "FunctionEnd"
  <2>1. n \in Positions(p, "FunctionEnd")  BY <1>3 DEF Positions
  <2>2. PICK h : IsIn(p, h, n) /\ EndOf(p, h) = n  BY <2>1, EndsAndParameters
  <2>3. ASSUME NEW f, IsIn(p, f, n + 1) PROVE FALSE
    <3>1. f # n  BY <1>3, <2>3 DEF IsIn, Positions
    <3>2. IsIn(p, f, n) /\ n # EndOf(p, f)  BY <1>1, <2>3, <3>1
    <3>3. QED  BY <1>0, <2>2, <3>2, OneFunction
  <2>4. key2 = ""  BY <1>3 DEF PlaceMoves
  <2>5. QED  BY <2>3, <2>4 DEF PlaceRead
<1>4. CASE p[n].op \notin {"Function", "FunctionEnd"}
  <2>1. ASSUME NEW f PROVE IsIn(p, f, n + 1) <=> IsIn(p, f, n)
    <3>1. CASE f \in Positions(p, "Function")
      <4>1. f # n /\ n # EndOf(p, f)  BY <1>4, <3>1, EndIs DEF Positions
      <4>2. f \in Nat /\ EndOf(p, f) \in Nat  BY <3>1, EndIs
      <4>3. QED  BY <1>0, <4>1, <4>2 DEF IsIn
    <3>2. CASE f \notin Positions(p, "Function")  BY <3>2 DEF IsIn
    <3>3. QED  BY <3>1, <3>2
  <2>2. ASSUME NEW f, IsIn(p, f, n), NEW l \in Positions(p, "Line"),
               f < l, l < n + 1, \A m \in Positions(p, "Line") : m < n + 1 => m <= l
        PROVE  last2 = p[l].line
    <3>1. CASE p[n].op = "Line"
      <4>1. n \in Positions(p, "Line") /\ n < n + 1  BY <1>0, <3>1 DEF Positions
      <4>2. n <= l /\ l \in Nat  BY <1>0, <2>2, <4>1
      <4>3. l = n  BY <1>0, <2>2, <4>2
      <4>4. QED  BY <3>1, <4>3 DEF PlaceMoves
    <3>2. CASE p[n].op # "Line"
      <4>1. \A m \in Positions(p, "Line") : m # n /\ m \in Nat  BY <1>0, <3>2 DEF Positions
      <4>2. l < n /\ \A m \in Positions(p, "Line") : m < n => m <= l
        BY <1>0, <2>2, <4>1
      <4>3. last2 = last  BY <1>4, <3>2 DEF PlaceMoves
      <4>4. QED  BY <2>2, <4>2, <4>3 DEF PlaceRead
    <3>3. QED  BY <3>1, <3>2
  <2>3. key2 = key  BY <1>4 DEF PlaceMoves
  <2>4. QED  BY <2>1, <2>2, <2>3 DEF PlaceRead
<1>5. QED  BY <1>2, <1>3, <1>4

\* An instruction that adds nothing to the lists of a key.
LEMMA ListsKept ==
  ASSUME NEW p, IsProgram(p), NEW n \in DOMAIN p, NEW f, NEW read, NEW read2,
         ListsRead(p, n, f, read),
         n \notin BodyOf(p, f) \cap Positions(p, "FunctionParameter"),
         n \notin BodyOf(p, f) \cap Positions(p, "Variable"),
         read2.arguments = read.arguments, read2.locals = read.locals
  PROVE  ListsRead(p, n + 1, f, read2)
<1>1. n \in 1..Len(p) /\ (n + 1) - 1 = n  BY PositionsAre
<1>2. QED  BY <1>1, VariablesUnfold DEF ListsRead

\* Nor to what a function has for itself.
LEMMA OwnKept ==
  ASSUME NEW p, IsProgram(p), NEW n \in DOMAIN p, NEW f \in Positions(p, "Function"),
         NEW read, NEW read2, OwnRead(p, n, f, read),
         n \notin LinesOf(p, f), n # EndOf(p, f),
         read2.ret_type = read.ret_type, read2.index = read.index,
         read2.line_start = read.line_start, read2.line_end = read.line_end
  PROVE  OwnRead(p, n + 1, f, read2)
<1>1. n \in Nat /\ LinesOf(p, f) \subseteq Nat  BY PositionsAre DEF LinesOf
<1>2. \A l \in LinesOf(p, f) : (l >= n + 1 <=> l >= n) /\ (l < n + 1 <=> l < n)
  BY <1>1
<1>3. EndOf(p, f) \in Nat  BY EndIs
<1>4. EndOf(p, f) < n + 1 <=> EndOf(p, f) < n  BY <1>1, <1>3
<1>5. (\A l \in LinesOf(p, f) : l >= n + 1) <=> (\A l \in LinesOf(p, f) : l >= n)
  BY <1>2
<1>6. QED  BY <1>2, <1>4, <1>5 DEF OwnRead

\* An instruction outside of the functions of a name leaves what is under it.
LEMMA FunctionKept ==
  ASSUME NEW p, IsProgram(p), NEW n \in DOMAIN p, NEW f \in Positions(p, "Function"),
         NEW read, FunctionRead(p, n, f, read),
         n # f, \A g : IsIn(p, g, n) => KeyOf(p, g) # KeyOf(p, f)
  PROVE  FunctionRead(p, n + 1, f, read)
<1>0. n \in Nat /\ f \in Nat  BY PositionsAre
<1>1. n \notin BodyOf(p, f)  BY <1>0, BodyIs
<1>2. n # EndOf(p, f)
  <2>1. f < EndOf(p, f) /\ EndOf(p, f) \in Nat  BY EndIs
  <2>2. IsIn(p, f, EndOf(p, f))  BY <2>1 DEF IsIn
  <2>3. QED  BY <2>2
<1>3. ListsRead(p, n + 1, f, read)  BY <1>1, ListsKept DEF FunctionRead
<1>4. ASSUME f < n + 1, SameKey(p, f) = {f} PROVE OwnRead(p, n + 1, f, read)
  <2>1. f < n  BY <1>0, <1>4
  <2>2. OwnRead(p, n, f, read)  BY <1>4, <2>1 DEF FunctionRead
  <2>3. QED  BY <1>1, <1>2, <2>2, OwnKept DEF LinesOf
<1>5. QED  BY <1>3, <1>4 DEF FunctionRead

\* So does an instruction inside of them that says nothing of functions.
LEMMA FunctionPassed ==
  ASSUME NEW p, IsProgram(p), NEW n \in DOMAIN p, NEW f \in Positions(p, "Function"),
         NEW read, FunctionRead(p, n, f, read),
         p[n].op \notin {"Function", "FunctionEnd", "FunctionParameter", "Variable", "Line"}
  PROVE  FunctionRead(p, n + 1, f, read)
<1>0. n \in Nat /\ f \in Nat  BY PositionsAre
<1>1. \A op \in {"Function", "FunctionEnd", "FunctionParameter", "Variable", "Line"} :
          n \notin Positions(p, op)
  BY DEF Positions
<1>2. EndOf(p, f) \in Positions(p, "FunctionEnd")  BY EndIs
<1>3. ListsRead(p, n + 1, f, read)  BY <1>1, ListsKept DEF FunctionRead
<1>4. ASSUME f < n + 1, SameKey(p, f) = {f} PROVE OwnRead(p, n + 1, f, read)
  <2>1. f < n  BY <1>0, <1>1, <1>4
  <2>2. OwnRead(p, n, f, read)  BY <1>4, <2>1 DEF FunctionRead
  <2>3. QED  BY <1>1, <1>2, <2>2, OwnKept DEF LinesOf
<1>5. QED  BY <1>3, <1>4 DEF FunctionRead

\* A function that does not start here is filed already, or not yet.
LEMMA FiledKept ==
  ASSUME NEW p, IsProgram(p), NEW n \in DOMAIN p, n \notin Positions(p, "Function"),
         NEW functions, FunctionsRead(p, n, functions)
  PROVE  DOMAIN functions = {KeyOf(p, f) : f \in {g \in Positions(p, "Function") : g < n + 1}}
<1>1. n \in Nat /\ Positions(p, "Function") \subseteq Nat  BY PositionsAre
<1>2. \A g \in Positions(p, "Function") : g < n + 1 <=> g < n  BY <1>1
<1>3. QED  BY <1>2 DEF FunctionsRead

-----------------------------------------------------------------------------
\* What a step may change of the functions: those of the name it is in.
LEMMA FileOne ==
  ASSUME NEW p, IsProgram(p), NEW n \in DOMAIN p, n \notin Positions(p, "Function"),
         NEW functions, NEW functions2, NEW key, FunctionsRead(p, n, functions),
         DOMAIN functions2 = DOMAIN functions,
         \A k \in DOMAIN functions : k # key => functions2[k] = functions[k],
         \A g : IsIn(p, g, n) => KeyOf(p, g) = key,
         \A f \in Positions(p, "Function") : KeyOf(p, f) # "" /\ KeyOf(p, f) = key =>
            FunctionRead(p, n + 1, f, FiledAs(functions2, key))
  PROVE  FunctionsRead(p, n + 1, functions2)
<1>1. ASSUME NEW f \in Positions(p, "Function"), KeyOf(p, f) # "", KeyOf(p, f) # key
      PROVE  FunctionRead(p, n + 1, f, FiledAs(functions2, KeyOf(p, f)))
  <2>1. FiledAs(functions2, KeyOf(p, f)) = FiledAs(functions, KeyOf(p, f))
    BY <1>1 DEF FiledAs, At
  <2>2. FunctionRead(p, n, f, FiledAs(functions, KeyOf(p, f)))  BY <1>1 DEF FunctionsRead
  <2>3. n # f  OBVIOUS
  <2>4. QED  BY <1>1, <2>1, <2>2, <2>3, FunctionKept
<1>2. QED  BY <1>1, FiledKept DEF FunctionsRead

\* The scan is in a function of this one's name.
IsCurrent(f) == KeyOf(ir, f) # "" /\ KeyOf(ir, f) = curFunc

\* The function that the scan is in has a head, and its name is the current one.
LEMMA HeadIs ==
  ASSUME FunctionsInv
  PROVE  /\ \A g : IsIn(ir, g, i) => KeyOf(ir, g) = curFunc
         /\ curFunc # "" => \E h : IsIn(ir, h, i) /\ KeyOf(ir, h) = curFunc
  BY DEF FunctionsInv, PlaceRead

\* An instruction that does not end a function is in the bodies of its name.
LEMMA CurrentBody ==
  ASSUME FunctionsInv, i \in DOMAIN ir, i \notin Positions(ir, "FunctionEnd"),
         NEW f \in Positions(ir, "Function"), KeyOf(ir, f) = curFunc, curFunc # ""
  PROVE  i \in BodyOf(ir, f)
<1>0. IsProgram(ir) /\ i \in Nat  BY ScanPosition DEF FunctionsInv, TablesInv
<1>1. PICK h : IsIn(ir, h, i) /\ KeyOf(ir, h) = curFunc  BY HeadIs
<1>2. i # EndOf(ir, h)  BY <1>0, <1>1, EndIs DEF IsIn
<1>3. QED  BY <1>0, <1>1, <1>2, BodyIs

\* The parser makes of an OpVariable or OpFunctionParameter what it declares.
LEMMA VariableRead ==
  ASSUME TablesInv, i \in DOMAIN ir, ir[i].op \in {"Variable", "FunctionParameter"}
  PROVE  /\ Named(NameOf(ir[i].id), ir[i].type) = DeclaredAt(ir, i)
         /\ KnownId(ir[i].type) /\ NameOf(ir[i].id) = DeclaredName(ir, ir[i].id)
<1>0. TypeInv  BY DEF TablesInv
<1>1. ir[i].op \in TypeOps \cup OfAType /\ Mentions(ir[i], ir[i].type)
  BY DEF OfAType, Mentions
<1>2. KnownId(ir[i].type) /\ \A k \in Positions(ir, "Name") : k < i
  BY <1>0, <1>1, NamesFirst DEF KnownId
<1>3. NameOf(ir[i].id) = DeclaredName(ir, ir[i].id)  BY <1>2, NameKnown
<1> DEFINE key == NameOf(ir[i].id)
<1>4. Named(key, ir[i].type) = Declared(ir, key, ir[i].type)
  <2> HIDE DEF key
  <2>1. QED  BY <1>2, NamedIsDeclared
<1>5. QED  BY <1>2, <1>3, <1>4 DEF DeclaredAt

\* One field of a function changes.
LEMMA FieldChanges ==
  ASSUME NEW f \in Functions, NEW v
  PROVE  /\ LET g == [f EXCEPT !.arguments = v] IN
            /\ g.arguments = v /\ g.locals = f.locals /\ g.ret_type = f.ret_type
            /\ g.index = f.index /\ g.line_start = f.line_start /\ g.line_end = f.line_end
         /\ LET g == [f EXCEPT !.locals = v] IN
            /\ g.arguments = f.arguments /\ g.locals = v /\ g.ret_type = f.ret_type
            /\ g.index = f.index /\ g.line_start = f.line_start /\ g.line_end = f.line_end
         /\ LET g == [f EXCEPT !.line_start = v] IN
            /\ g.arguments = f.arguments /\ g.locals = f.locals /\ g.ret_type = f.ret_type
            /\ g.index = f.index /\ g.line_start = v /\ g.line_end = f.line_end
         /\ LET g == [f EXCEPT !.line_end = v] IN
            /\ g.arguments = f.arguments /\ g.locals = f.locals /\ g.ret_type = f.ret_type
            /\ g.index = f.index /\ g.line_start = f.line_start /\ g.line_end = v
  BY DEF Functions

\* The entry of the current function changes, and no other.
LEMMA EntryChanged ==
  ASSUME Shape, NEW func,
         module' = [module EXCEPT !.functions = [@ EXCEPT ![curFunc] = func]]
  PROVE  /\ DOMAIN module'.functions = DOMAIN module.functions
         /\ \A k \in DOMAIN module.functions :
               k # curFunc => module'.functions[k] = module.functions[k]
         /\ curFunc \in DOMAIN module.functions => module'.functions[curFunc] = func
<1> DEFINE fs == [module.functions EXCEPT ![curFunc] = func]
<1>1. module'.functions = fs  BY DEF Shape
<1>2. QED  BY <1>1

LEMMA CurrentChanged ==
  ASSUME FunctionsInv, i \in DOMAIN ir, i \notin Positions(ir, "Function"),
         DOMAIN module'.functions = DOMAIN module.functions,
         \A k \in DOMAIN module.functions :
            k # curFunc => module'.functions[k] = module.functions[k],
         \A f \in Positions(ir, "Function") :
            IsCurrent(f) => FunctionRead(ir, i + 1, f, module'.functions[curFunc])
  PROVE  FunctionsRead(ir, i + 1, module'.functions)
<1>0. TypeInv /\ IsProgram(ir) /\ FunctionsRead(ir, i, module.functions)
  BY DEF FunctionsInv, TablesInv, TypeInv
<1>1. PICK fs : fs = module'.functions  OBVIOUS
<1>2. ASSUME NEW f \in Positions(ir, "Function"), KeyOf(ir, f) # "", KeyOf(ir, f) = curFunc
      PROVE  FunctionRead(ir, i + 1, f, FiledAs(fs, curFunc))
  <2>1. curFunc \in DOMAIN fs  BY <1>0, <1>1, <1>2 DEF TypeInv, TypeOK
  <2>2. FiledAs(fs, curFunc) = fs[curFunc]  BY <2>1 DEF FiledAs, At
  <2>3. QED  BY <1>1, <1>2, <2>2 DEF IsCurrent
<1>3. FunctionsRead(ir, i + 1, fs)  BY <1>0, <1>1, <1>2, HeadIs, FileOne
<1>4. QED  BY <1>1, <1>3

\* Nothing is changed by an instruction outside of functions, or one that says
\* nothing of them.
LEMMA FunctionsKept ==
  ASSUME FunctionsInv, i \in DOMAIN ir, i \notin Positions(ir, "Function"),
         module'.functions = module.functions,
         \/ curFunc = ""
         \/ ir[i].op \notin {"Function", "FunctionEnd", "FunctionParameter", "Variable", "Line"}
  PROVE  FunctionsRead(ir, i + 1, module'.functions)
<1>0. IsProgram(ir) /\ FunctionsRead(ir, i, module.functions)
  BY DEF FunctionsInv, TablesInv, TypeInv
<1>1. CASE curFunc = ""
  <2>1. FunctionsRead(ir, i + 1, module.functions)  BY <1>0, <1>1, HeadIs, FileOne
  <2>2. QED  BY <2>1
<1>2. CASE ir[i].op \notin {"Function", "FunctionEnd", "FunctionParameter", "Variable", "Line"}
  <2>1. \A f \in Positions(ir, "Function") : KeyOf(ir, f) # "" =>
            FunctionRead(ir, i + 1, f, FiledAs(module.functions, KeyOf(ir, f)))
    BY <1>0, <1>2, FunctionPassed DEF FunctionsRead
  <2>2. QED  BY <1>0, <2>1, FiledKept DEF FunctionsRead
<1>3. QED  BY <1>1, <1>2

\* A variable is added to the arguments or to the locals.
GrownBy(func, read, op, var) ==
    \/ op = "FunctionParameter" /\ func = [read EXCEPT !.arguments = Append(@, var)]
    \/ op = "Variable" /\ func = [read EXCEPT !.locals = Append(@, var)]

LEMMA GrownFields ==
  ASSUME NEW read \in Functions, NEW func, NEW op, NEW var, GrownBy(func, read, op, var)
  PROVE  /\ op \in {"FunctionParameter", "Variable"}
         /\ func.arguments = IF op = "FunctionParameter" THEN Append(read.arguments, var)
                             ELSE read.arguments
         /\ func.locals = IF op = "Variable" THEN Append(read.locals, var) ELSE read.locals
         /\ func.ret_type = read.ret_type /\ func.index = read.index
         /\ func.line_start = read.line_start /\ func.line_end = read.line_end
<1> DEFINE args == Append(read.arguments, var)
           locs == Append(read.locals, var)
<1>1. CASE op = "FunctionParameter" /\ func = [read EXCEPT !.arguments = args]
  <2> HIDE DEF args
  <2>1. QED  BY <1>1, FieldChanges DEF args
<1>2. CASE op = "Variable" /\ func = [read EXCEPT !.locals = locs]
  <2> HIDE DEF locs
  <2>1. QED  BY <1>2, FieldChanges DEF locs
<1>3. QED  BY <1>1, <1>2 DEF GrownBy

\* A local or an argument is added to the lists of the current name.
Grows(func) == GrownBy(func, module.functions[curFunc], ir[i].op, DeclaredAt(ir, i))

LEMMA FunctionGrows ==
  ASSUME FunctionsInv, i \in DOMAIN ir, NEW f \in Positions(ir, "Function"), IsCurrent(f),
         NEW func, Grows(func)
  PROVE  FunctionRead(ir, i + 1, f, func)
<1> DEFINE read == module.functions[curFunc]
           args == BodyOf(ir, f) \cap Positions(ir, "FunctionParameter")
           locs == BodyOf(ir, f) \cap Positions(ir, "Variable")
<1>0. TypeInv /\ IsProgram(ir) /\ FunctionsRead(ir, i, module.functions)
  BY DEF FunctionsInv, TablesInv, TypeInv
<1>1. i \in Nat /\ f \in Nat /\ i \in 1..Len(ir) /\ (i + 1) - 1 = i
  BY <1>0, ScanPosition DEF Positions
<1>2. curFunc \in DOMAIN module.functions  BY <1>0 DEF TypeInv, TypeOK, IsCurrent
<1>3. read \in Functions  BY <1>0, <1>2 DEF TypeInv, TypeOK
<1>4. FunctionRead(ir, i, f, read)
  <2>1. FiledAs(module.functions, curFunc) = read  BY <1>2 DEF FiledAs, At
  <2> HIDE DEF read
  <2>2. QED  BY <1>0, <2>1 DEF FunctionsRead, IsCurrent
<1> HIDE DEF read
<1>5. /\ ir[i].op \in {"FunctionParameter", "Variable"}
      /\ func.arguments = IF ir[i].op = "FunctionParameter"
                          THEN Append(read.arguments, DeclaredAt(ir, i)) ELSE read.arguments
      /\ func.locals = IF ir[i].op = "Variable"
                       THEN Append(read.locals, DeclaredAt(ir, i)) ELSE read.locals
      /\ func.ret_type = read.ret_type /\ func.index = read.index
      /\ func.line_start = read.line_start /\ func.line_end = read.line_end
  BY <1>3, GrownFields DEF read, Grows
<1>6. i \notin Positions(ir, "FunctionEnd") /\ i \notin Positions(ir, "Line") /\ i # f
  BY <1>5 DEF Positions
<1>7. i \in BodyOf(ir, f)  BY <1>1, <1>6, CurrentBody DEF IsCurrent
<1>8. i # EndOf(ir, f)  BY <1>0, <1>6, EndIs
<1>9. /\ i \in args <=> ir[i].op = "FunctionParameter"
      /\ i \in locs <=> ir[i].op = "Variable"
  BY <1>7 DEF Positions
<1>10. /\ VariablesAt(ir, args)[i] = IF i \in args
                                     THEN Append(VariablesAt(ir, args)[i - 1], DeclaredAt(ir, i))
                                     ELSE VariablesAt(ir, args)[i - 1]
       /\ VariablesAt(ir, locs)[i] = IF i \in locs
                                     THEN Append(VariablesAt(ir, locs)[i - 1], DeclaredAt(ir, i))
                                     ELSE VariablesAt(ir, locs)[i - 1]
  <2> HIDE DEF args, locs
  <2>1. QED  BY <1>0, <1>1, VariablesUnfold
<1>11. ListsRead(ir, i + 1, f, func)
  <2>1. read.arguments = VariablesAt(ir, args)[i - 1] /\ read.locals = VariablesAt(ir, locs)[i - 1]
    BY <1>4 DEF FunctionRead, ListsRead
  <2> HIDE DEF args, locs
  <2>2. func.arguments = VariablesAt(ir, args)[i] /\ func.locals = VariablesAt(ir, locs)[i]
    BY <1>5, <1>9, <1>10, <2>1
  <2>3. QED  BY <1>1, <2>2 DEF ListsRead, args, locs
<1>12. ASSUME f < i + 1, SameKey(ir, f) = {f} PROVE OwnRead(ir, i + 1, f, func)
  <2>1. f < i  BY <1>1, <1>6, <1>12
  <2>2. OwnRead(ir, i, f, read)  BY <1>4, <1>12, <2>1 DEF FunctionRead
  <2>3. QED  BY <1>0, <1>5, <1>6, <1>8, <2>2, OwnKept DEF LinesOf
<1>13. QED  BY <1>11, <1>12 DEF FunctionRead

\* The entry of the current function, as it was read so far.
LEMMA CurrentRead ==
  ASSUME FunctionsInv, NEW f \in Positions(ir, "Function"), IsCurrent(f)
  PROVE  /\ curFunc \in DOMAIN module.functions
         /\ module.functions[curFunc] \in Functions
         /\ FunctionRead(ir, i, f, module.functions[curFunc])
<1>0. TypeInv /\ FunctionsRead(ir, i, module.functions)
  BY DEF FunctionsInv, TablesInv
<1>1. curFunc \in DOMAIN module.functions  BY <1>0 DEF TypeInv, TypeOK, IsCurrent
<1>2. module.functions[curFunc] \in Functions  BY <1>0, <1>1 DEF TypeInv, TypeOK
<1> DEFINE read == module.functions[curFunc]
<1>3. FiledAs(module.functions, curFunc) = read  BY <1>1 DEF FiledAs, At
<1> HIDE DEF read
<1>4. FunctionRead(ir, i, f, read)  BY <1>0, <1>3 DEF FunctionsRead, IsCurrent
<1>5. QED  BY <1>1, <1>2, <1>4 DEF read

\* The first line of a function that is alone becomes its start.
LEMMA LineStarts ==
  ASSUME FunctionsInv, i \in DOMAIN ir, ir[i].op = "Line",
         NEW f \in Positions(ir, "Function"), IsCurrent(f), NEW read, NEW func,
         FunctionRead(ir, i, f, read),
         func.arguments = read.arguments, func.locals = read.locals,
         func.ret_type = read.ret_type, func.index = read.index,
         func.line_end = read.line_end,
         func.line_start = IF read.line_start = -1 THEN ir[i].line ELSE read.line_start
  PROVE  FunctionRead(ir, i + 1, f, func)
<1>0. IsProgram(ir) /\ i \in Nat /\ f \in Nat /\ f # i
  BY ScanPosition DEF FunctionsInv, TablesInv, Positions
<1>1. /\ i \in Positions(ir, "Line") /\ i \notin Positions(ir, "FunctionEnd")
      /\ i \notin Positions(ir, "FunctionParameter") /\ i \notin Positions(ir, "Variable")
  BY DEF Positions
<1>2. ListsRead(ir, i + 1, f, func)  BY <1>0, <1>1, ListsKept DEF FunctionRead
<1>3. ASSUME f < i + 1, SameKey(ir, f) = {f} PROVE OwnRead(ir, i + 1, f, func)
  <2>1. f < i  BY <1>0, <1>3
  <2>2. OwnRead(ir, i, f, read)  BY <1>3, <2>1 DEF FunctionRead
  <2>3. i \in BodyOf(ir, f)  BY <1>1, CurrentBody DEF IsCurrent
  <2>4. i \in LinesOf(ir, f)  BY <1>1, <2>3 DEF LinesOf
  <2>5. i < EndOf(ir, f)  BY <1>0, <1>3, <2>3, OwnBody
  <2>6. EndOf(ir, f) \in Nat  BY <1>0, EndIs
  <2>7. ~(EndOf(ir, f) < i + 1)  BY <1>0, <2>5, <2>6
  <2>8. ~(\A l \in LinesOf(ir, f) : l >= i + 1)  BY <1>0, <2>4
  <2>9. ASSUME NEW l \in LinesOf(ir, f), l < i + 1, \A m \in LinesOf(ir, f) : l <= m
        PROVE  func.line_start = ir[l].line
    <3>0. l \in Nat  BY <1>0, PositionsAre DEF LinesOf
    <3>1. CASE l = i
      <4>1. \A m \in LinesOf(ir, f) : m \in Nat  BY <1>0, PositionsAre DEF LinesOf
      <4>2. \A m \in LinesOf(ir, f) : m >= i  BY <1>0, <2>9, <3>1, <4>1
      <4>3. read.line_start = -1  BY <2>2, <4>2 DEF OwnRead
      <4>4. QED  BY <3>1, <4>3
    <3>2. CASE l # i
      <4>1. l < i  BY <1>0, <2>9, <3>0, <3>2
      <4>2. read.line_start = ir[l].line  BY <2>2, <2>9, <4>1 DEF OwnRead
      <4>3. ir[l].line \in Nat
        BY <1>0, PositionsAre DEF LinesOf, IsInstruction, Positions
      <4>4. read.line_start # -1  BY <4>2, <4>3
      <4>5. QED  BY <4>2, <4>4
    <3>3. QED  BY <3>1, <3>2
  <2>10. func.ret_type = Declared(ir, "", ir[f].type)
         /\ func.index = Cardinality({KeyOf(ir, g) :
                                g \in {h \in Positions(ir, "Function") : h < f}})
    BY <2>2 DEF OwnRead
  <2>11. QED  BY <2>7, <2>8, <2>9, <2>10 DEF OwnRead
<1>4. QED  BY <1>2, <1>3 DEF FunctionRead

\* The last line of a function that is alone becomes its end.
LEMMA LineEnds ==
  ASSUME FunctionsInv, i \in DOMAIN ir, ir[i].op = "FunctionEnd",
         NEW f \in Positions(ir, "Function"), IsCurrent(f), NEW read, NEW func,
         FunctionRead(ir, i, f, read),
         func.arguments = read.arguments, func.locals = read.locals,
         func.ret_type = read.ret_type, func.index = read.index,
         func.line_start = read.line_start, func.line_end = lastOpLine
  PROVE  FunctionRead(ir, i + 1, f, func)
<1>0. IsProgram(ir) /\ i \in Nat /\ f \in Nat /\ f # i
  BY ScanPosition DEF FunctionsInv, TablesInv, Positions
<1>1. /\ i \in Positions(ir, "FunctionEnd") /\ i \notin Positions(ir, "Line")
      /\ i \notin Positions(ir, "FunctionParameter") /\ i \notin Positions(ir, "Variable")
  BY DEF Positions
<1>2. ListsRead(ir, i + 1, f, func)  BY <1>0, <1>1, ListsKept DEF FunctionRead
<1>3. ASSUME f < i + 1, SameKey(ir, f) = {f} PROVE OwnRead(ir, i + 1, f, func)
  <2>1. f < i  BY <1>0, <1>3
  <2>2. OwnRead(ir, i, f, read)  BY <1>3, <2>1 DEF FunctionRead
  <2>3. PICK h : IsIn(ir, h, i) /\ EndOf(ir, h) = i  BY <1>0, <1>1, EndsAndParameters
  <2>4. KeyOf(ir, h) = curFunc  BY <2>3, HeadIs
  <2>5. h = f  BY <1>3, <2>3, <2>4 DEF SameKey, IsIn, IsCurrent
  <2>6. \A l \in LinesOf(ir, f) : l \in Nat /\ l \in Positions(ir, "Line") /\ f < l /\ l < i
    <3>1. \A l \in LinesOf(ir, f) : l \in Nat /\ l \in Positions(ir, "Line") /\ l \in BodyOf(ir, f)
      BY <1>0, PositionsAre DEF LinesOf
    <3>2. QED  BY <1>0, <1>3, <2>3, <2>5, <3>1, OwnBody
  <2>7. (\A l \in LinesOf(ir, f) : l >= i + 1) => (\A l \in LinesOf(ir, f) : l >= i)
    BY <1>0, <2>6
  <2>8. func.line_start = read.line_start  OBVIOUS
  <2>9. ASSUME NEW l \in LinesOf(ir, f), \A m \in LinesOf(ir, f) : m <= l
        PROVE  func.line_end = ir[l].line
    <3>1. ASSUME NEW m \in Positions(ir, "Line"), m < i PROVE m <= l
      <4>0. m \in Nat  BY <1>0, PositionsAre
      <4>1. CASE f < m
        <5>1. m \in BodyOf(ir, f)  BY <1>0, <1>3, <2>3, <2>5, <3>1, <4>0, <4>1, OwnBody
        <5>2. QED  BY <2>9, <5>1 DEF LinesOf
      <4>2. CASE ~(f < m)  BY <1>0, <2>6, <4>0, <4>2
      <4>3. QED  BY <4>1, <4>2
    <3>2. IsIn(ir, f, i) /\ l \in Positions(ir, "Line") /\ f < l /\ l < i
      BY <2>3, <2>5, <2>6
    <3>3. lastOpLine = ir[l].line  BY <3>1, <3>2 DEF FunctionsInv, PlaceRead
    <3>4. QED  BY <3>3
  <2>10. func.ret_type = Declared(ir, "", ir[f].type)
         /\ func.index = Cardinality({KeyOf(ir, g) :
                                g \in {h_ \in Positions(ir, "Function") : h_ < f}})
    BY <2>2 DEF OwnRead
  <2>11. QED  BY <2>2, <2>6, <2>7, <2>8, <2>9, <2>10 DEF OwnRead
<1>4. QED  BY <1>2, <1>3 DEF FunctionRead

-----------------------------------------------------------------------------
\* What OpFunction files.
Made(func, type, index) ==
    [func EXCEPT !.ret_type = FetchType(@, type), !.line_start = -1, !.index = index]

LEMMA MadeFields ==
  ASSUME NEW func \in Functions, NEW type, NEW index
  PROVE  LET made == Made(func, type, index) IN
         /\ made.arguments = func.arguments /\ made.locals = func.locals
         /\ made.ret_type = FetchType(func.ret_type, type)
         /\ made.line_start = -1 /\ made.index = index
<1> DEFINE ret == FetchType(func.ret_type, type)
<1>1. Made(func, type, index) = [func EXCEPT !.ret_type = ret, !.line_start = -1, !.index = index]
  BY DEF Made
<1> HIDE DEF ret
<1>2. QED  BY <1>1 DEF Functions, ret

\* A function that is the first of its name is filed as it was declared.
LEMMA FirstOfName ==
  ASSUME FunctionsInv, i \in Positions(ir, "Function"), SameKey(ir, i) = {i},
         NEW made, NEW count,
         made = Made(FiledAs(module.functions, KeyOf(ir, i)), ir[i].type, count),
         count = Cardinality(DOMAIN module.functions \cup {KeyOf(ir, i)}) - 1
  PROVE  OwnRead(ir, i + 1, i, made)
<1>0. TablesInv /\ TypeInv /\ IsProgram(ir) /\ i \in Nat /\ i \in DOMAIN ir
      /\ FunctionsRead(ir, i, module.functions)
  BY ScanPosition DEF FunctionsInv, TablesInv, Positions
<1>1. KeyOf(ir, i) \notin DOMAIN module.functions
  <2> SUFFICES ASSUME KeyOf(ir, i) \in DOMAIN module.functions PROVE FALSE  OBVIOUS
  <2>1. PICK g \in Positions(ir, "Function") : g < i /\ KeyOf(ir, i) = KeyOf(ir, g)
    BY <1>0 DEF FunctionsRead
  <2>2. g = i  BY <2>1 DEF SameKey
  <2>3. QED  BY <1>0, <2>1, <2>2
<1>2. made = Made(NewFunction, ir[i].type, count)  BY <1>1 DEF FiledAs, At
<1>3. NewFunction.ret_type = NewVariable  BY DEF NewFunction
<1>4. made.ret_type = FetchType(NewVariable, ir[i].type)
      /\ made.line_start = -1 /\ made.index = count
  BY <1>2, <1>3, NewTypes, MadeFields
<1>5. FetchType(NewVariable, ir[i].type) = Declared(ir, "", ir[i].type)
  <2>1. ir[i].op = "Function"  BY DEF Positions
  <2>2. ir[i].op \in TypeOps \cup OfAType /\ Mentions(ir[i], ir[i].type)
    BY <2>1 DEF OfAType, Mentions
  <2>3. KnownId(ir[i].type) /\ \A k \in Positions(ir, "Name") : k < i
    BY <1>0, <2>2, NamesFirst DEF KnownId
  <2>4. Named("", ir[i].type) = Declared(ir, "", ir[i].type)
    BY <1>0, <2>3, NamedIsDeclared
  <2>5. Named("", ir[i].type) = FetchType(NewVariable, ir[i].type)
    BY UnfilledIsNew DEF Named, Unfilled
  <2>6. QED  BY <2>4, <2>5
<1>6. count = Cardinality({KeyOf(ir, g) : g \in {h \in Positions(ir, "Function") : h < i}})
  <2> DEFINE D == DOMAIN module.functions
  <2>1. IsFiniteSet(D)  BY <1>0 DEF TypeInv, Shape
  <2>2. D = {KeyOf(ir, g) : g \in {h \in Positions(ir, "Function") : h < i}}
    BY <1>0 DEF FunctionsRead
  <2>3. KeyOf(ir, i) \notin D  BY <1>1
  <2> HIDE DEF D
  <2>4. Cardinality(D) \in Nat /\ Cardinality(D \cup {KeyOf(ir, i)}) = Cardinality(D) + 1
    BY <2>1, <2>3, FS_CardinalityType, FS_AddElement
  <2> DEFINE c == Cardinality(D)
             d == Cardinality(D \cup {KeyOf(ir, i)})
  <2>5. count = d - 1  BY DEF D
  <2>6. d = c + 1 /\ c \in Nat  BY <2>4
  <2> HIDE DEF c, d
  <2>7. count = c  BY <2>5, <2>6
  <2>8. QED  BY <2>2, <2>7 DEF c
<1>7. ASSUME NEW l \in LinesOf(ir, i)
      PROVE  l >= i + 1 /\ ~(l < i + 1) /\ ~(EndOf(ir, i) < i + 1)
  <2>1. l \in Nat /\ l \in BodyOf(ir, i)  BY <1>0, PositionsAre DEF LinesOf
  <2>2. i < l /\ l < EndOf(ir, i)  BY <1>0, <2>1, OwnBody
  <2>3. EndOf(ir, i) \in Nat  BY <1>0, EndIs
  <2>4. QED  BY <1>0, <2>1, <2>2, <2>3
<1>8. QED  BY <1>4, <1>5, <1>6, <1>7 DEF OwnRead

LEMMA FunctionStarts ==
  ASSUME FunctionsInv, OpFunction
  PROVE  FunctionsRead(ir, i + 1, module'.functions) /\ curFunc' = KeyOf(ir, i)
<1> DEFINE key == KeyOf(ir, i)
           func == FiledAs(module.functions, key)
           count == Cardinality(DOMAIN module.functions \cup {key}) - 1
           made == Made(func, ir[i].type, count)
           fs == Put(module.functions, key, made)
<1>0. /\ TablesInv /\ TypeInv /\ IsProgram(ir) /\ Shape
      /\ FunctionsRead(ir, i, module.functions)
  BY ScanPosition DEF FunctionsInv, TablesInv, TypeInv
<1>1. i \in DOMAIN ir /\ ir[i].op = "Function" /\ i \in Positions(ir, "Function") /\ i \in Nat
  BY <1>0, NextInstruction, ScanPosition DEF OpFunction
<1>2. NameOf(ir[i].id) = DeclaredName(ir, ir[i].id)
  <2>1. ir[i].op \in TypeOps \cup OfAType  BY <1>1 DEF OfAType
  <2>2. \A k \in Positions(ir, "Name") : k < i  BY <1>0, <1>1, <2>1, NamesFirst
  <2>3. QED  BY <1>0, <2>2, NameKnown
<1>3. curFunc' = key /\ module' = [module EXCEPT !.functions = fs]
  BY <1>2 DEF OpFunction, KeyOf, Made, FiledAs
<1>4. module'.functions = fs
  <2> HIDE DEF fs
  <2>1. QED  BY <1>0, <1>3 DEF Shape
<1>5. DOMAIN fs = DOMAIN module.functions \cup {key} /\ fs[key] = made
      /\ \A k \in DOMAIN module.functions : k # key => fs[k] = module.functions[k]
  <2> HIDE DEF made, key
  <2>1. QED  BY DEF Put
<1>6. func \in Functions
  BY <1>0, NewTypes DEF FiledAs, At, TypeInv, TypeOK
<1> HIDE DEF fs, func
<1>7. made.arguments = func.arguments /\ made.locals = func.locals
  BY <1>6, MadeFields
<1>8. DOMAIN fs = {KeyOf(ir, f) : f \in {g \in Positions(ir, "Function") : g < i + 1}}
  <2>1. Positions(ir, "Function") \subseteq Nat  BY <1>0, PositionsAre
  <2>2. \A g \in Positions(ir, "Function") : g < i + 1 <=> g < i \/ g = i  BY <1>1, <2>1
  <2>3. DOMAIN module.functions = {KeyOf(ir, f) : f \in {g \in Positions(ir, "Function") : g < i}}
    BY <1>0 DEF FunctionsRead
  <2>4. QED  BY <1>1, <1>5, <2>2, <2>3
<1>9. \A g : ~IsIn(ir, g, i)
  <2> SUFFICES ASSUME NEW g, IsIn(ir, g, i) PROVE FALSE  OBVIOUS
  <2>1. EndOf(ir, g) < i /\ EndOf(ir, g) \in Nat  BY <1>0, <1>1, EndIs DEF IsIn
  <2>2. QED  BY <1>1, <2>1 DEF IsIn
<1>10. ASSUME NEW f \in Positions(ir, "Function"), KeyOf(ir, f) # "", KeyOf(ir, f) # key
       PROVE  FunctionRead(ir, i + 1, f, FiledAs(fs, KeyOf(ir, f)))
  <2>1. FiledAs(fs, KeyOf(ir, f)) = FiledAs(module.functions, KeyOf(ir, f))
    <3> HIDE DEF made, key
    <3>1. QED  BY <1>5, <1>10 DEF FiledAs, At
  <2>2. FunctionRead(ir, i, f, FiledAs(module.functions, KeyOf(ir, f)))
    BY <1>0, <1>10 DEF FunctionsRead
  <2>3. i # f  BY <1>10
  <2>4. QED  BY <1>0, <1>1, <1>9, <2>1, <2>2, <2>3, FunctionKept
<1>11. ASSUME NEW f \in Positions(ir, "Function"), KeyOf(ir, f) # "", KeyOf(ir, f) = key
       PROVE  FunctionRead(ir, i + 1, f, FiledAs(fs, KeyOf(ir, f)))
  <2>1. FiledAs(fs, KeyOf(ir, f)) = made
    <3> HIDE DEF made, key
    <3>1. QED  BY <1>5, <1>11 DEF FiledAs, At
  <2>2. FunctionRead(ir, i, f, func)
    BY <1>0, <1>11 DEF FunctionsRead, func
  <2>3. i \notin Positions(ir, "FunctionParameter") /\ i \notin Positions(ir, "Variable")
    BY <1>1 DEF Positions
  <2>4. ListsRead(ir, i + 1, f, made)
    <3> HIDE DEF made
    <3>1. QED  BY <1>0, <1>1, <1>7, <2>2, <2>3, ListsKept DEF FunctionRead
  <2>5. ASSUME SameKey(ir, f) = {f} PROVE OwnRead(ir, i + 1, f, made)
    <3>1. i = f  BY <1>1, <1>11, <2>5 DEF SameKey
    <3>2. SameKey(ir, i) = {i}  BY <2>5, <3>1
    <3>3. OwnRead(ir, i + 1, i, made)
      BY <1>1, <3>2, FirstOfName DEF func
    <3>4. QED  BY <3>1, <3>3
  <2>6. QED  BY <2>1, <2>4, <2>5 DEF FunctionRead
<1>12. FunctionsRead(ir, i + 1, fs)  BY <1>8, <1>10, <1>11 DEF FunctionsRead
<1>13. QED  BY <1>3, <1>4, <1>12

-----------------------------------------------------------------------------
\* One instruction more, as far as functions go.
FunctionsGoOn ==
    /\ i \in DOMAIN ir /\ i' = i + 1 /\ ir' = ir
    /\ PlaceMoves(ir, i, curFunc, lastOpLine, curFunc', lastOpLine')
    /\ FunctionsRead(ir, i + 1, module'.functions)

LEMMA FunctionEnds ==
  ASSUME FunctionsInv, OpFunctionEnd
  PROVE  FunctionsGoOn
<1>0. TypeInv /\ Shape  BY DEF FunctionsInv, TablesInv, TypeInv
<1>1. i \in DOMAIN ir /\ ir[i].op = "FunctionEnd" /\ i' = i + 1 /\ ir' = ir
  <2>1. Reads("FunctionEnd")  BY DEF OpFunctionEnd
  <2>2. QED  BY <1>0, <2>1, NextInstruction
<1>2. i \notin Positions(ir, "Function")  BY <1>1 DEF Positions
<1> DEFINE func == [module.functions[curFunc] EXCEPT !.line_end = lastOpLine]
<1>3. module' = [module EXCEPT !.functions = [@ EXCEPT ![curFunc] = func]]
  BY DEF OpFunctionEnd
<1>4. /\ DOMAIN module'.functions = DOMAIN module.functions
      /\ \A k \in DOMAIN module.functions :
            k # curFunc => module'.functions[k] = module.functions[k]
      /\ curFunc \in DOMAIN module.functions => module'.functions[curFunc] = func
  <2> HIDE DEF func
  <2>1. QED  BY <1>0, <1>3, EntryChanged
<1>5. ASSUME NEW f \in Positions(ir, "Function"), IsCurrent(f)
      PROVE  FunctionRead(ir, i + 1, f, module'.functions[curFunc])
  <2> DEFINE read == module.functions[curFunc]
  <2>1. /\ curFunc \in DOMAIN module.functions /\ read \in Functions
        /\ FunctionRead(ir, i, f, read)
    BY <1>5, CurrentRead
  <2> HIDE DEF read
  <2>2. func.arguments = read.arguments /\ func.locals = read.locals
        /\ func.ret_type = read.ret_type /\ func.index = read.index
        /\ func.line_start = read.line_start /\ func.line_end = lastOpLine
    BY <2>1, FieldChanges DEF read
  <2> HIDE DEF func
  <2>3. FunctionRead(ir, i + 1, f, func)  BY <1>1, <1>5, <2>1, <2>2, LineEnds
  <2>4. QED  BY <1>4, <2>1, <2>3
<1>6. FunctionsRead(ir, i + 1, module'.functions)
  BY <1>1, <1>2, <1>4, <1>5, CurrentChanged
<1>7. PlaceMoves(ir, i, curFunc, lastOpLine, curFunc', lastOpLine')
  BY <1>1 DEF PlaceMoves, OpFunctionEnd
<1>8. QED  BY <1>1, <1>6, <1>7 DEF FunctionsGoOn

LEMMA LineReads ==
  ASSUME FunctionsInv, OpLine
  PROVE  FunctionsGoOn
<1>0. TypeInv /\ Shape  BY DEF FunctionsInv, TablesInv, TypeInv
<1>1. i \in DOMAIN ir /\ ir[i].op = "Line" /\ i' = i + 1 /\ ir' = ir
  <2>1. Reads("Line")  BY DEF OpLine
  <2>2. QED  BY <1>0, <2>1, NextInstruction
<1>2. i \notin Positions(ir, "Function")  BY <1>1 DEF Positions
<1> DEFINE read == module.functions[curFunc]
           func == [read EXCEPT !.line_start = ir[i].line]
<1>3. IF curFunc # "" /\ read.line_start = -1
      THEN module' = [module EXCEPT !.functions = [@ EXCEPT ![curFunc] = func]]
      ELSE module' = module
  BY DEF OpLine
<1>4. FunctionsRead(ir, i + 1, module'.functions)
  <2>1. CASE curFunc = ""
    <3>1. module'.functions = module.functions  BY <1>3, <2>1
    <3>2. QED  BY <1>1, <1>2, <2>1, <3>1, FunctionsKept
  <2>2. CASE curFunc # "" /\ read.line_start = -1
    <3>1. /\ DOMAIN module'.functions = DOMAIN module.functions
          /\ \A k \in DOMAIN module.functions :
                k # curFunc => module'.functions[k] = module.functions[k]
          /\ curFunc \in DOMAIN module.functions => module'.functions[curFunc] = func
      <4>1. module' = [module EXCEPT !.functions = [@ EXCEPT ![curFunc] = func]]
        BY <1>3, <2>2
      <4> HIDE DEF func
      <4>2. QED  BY <1>0, <4>1, EntryChanged
    <3>2. ASSUME NEW f \in Positions(ir, "Function"), IsCurrent(f)
          PROVE  FunctionRead(ir, i + 1, f, module'.functions[curFunc])
      <4>1. /\ curFunc \in DOMAIN module.functions /\ read \in Functions
            /\ FunctionRead(ir, i, f, read)
        BY <3>2, CurrentRead
      <4> HIDE DEF read
      <4>2. func.arguments = read.arguments /\ func.locals = read.locals
            /\ func.ret_type = read.ret_type /\ func.index = read.index
            /\ func.line_start = ir[i].line /\ func.line_end = read.line_end
        BY <4>1, FieldChanges
      <4>3. func.line_start = IF read.line_start = -1 THEN ir[i].line ELSE read.line_start
        BY <2>2, <4>2
      <4> HIDE DEF func
      <4>4. FunctionRead(ir, i + 1, f, func)  BY <1>1, <3>2, <4>1, <4>2, <4>3, LineStarts
      <4>5. QED  BY <3>1, <4>1, <4>4
    <3>3. QED  BY <1>1, <1>2, <3>1, <3>2, CurrentChanged
  <2>3. CASE curFunc # "" /\ read.line_start # -1
    <3>1. module' = module  BY <1>3, <2>3
    <3>2. ASSUME NEW f \in Positions(ir, "Function"), IsCurrent(f)
          PROVE  FunctionRead(ir, i + 1, f, read)
      <4>1. FunctionRead(ir, i, f, read)  BY <3>2, CurrentRead
      <4>2. read.line_start = IF read.line_start = -1 THEN ir[i].line ELSE read.line_start
        BY <2>3
      <4> HIDE DEF read
      <4>3. QED  BY <1>1, <3>2, <4>1, <4>2, LineStarts
    <3>3. QED  BY <1>1, <1>2, <3>1, <3>2, CurrentChanged
  <2>4. QED  BY <2>1, <2>2, <2>3
<1>5. PlaceMoves(ir, i, curFunc, lastOpLine, curFunc', lastOpLine')
  BY <1>1 DEF PlaceMoves, OpLine
<1>6. QED  BY <1>1, <1>4, <1>5 DEF FunctionsGoOn

LEMMA VariableReads ==
  ASSUME FunctionsInv, OpVariable \/ OpFunctionParameter
  PROVE  FunctionsGoOn
<1>0. TypeInv /\ Shape /\ TablesInv  BY DEF FunctionsInv, TablesInv, TypeInv
<1>1. i \in DOMAIN ir /\ ir[i].op \in {"Variable", "FunctionParameter"} /\ i' = i + 1 /\ ir' = ir
  <2>1. PICK op \in {"Variable", "FunctionParameter"} : Reads(op)
    BY DEF OpVariable, OpFunctionParameter
  <2>2. QED  BY <1>0, <2>1, NextInstruction
<1>2. i \notin Positions(ir, "Function")  BY <1>1 DEF Positions
<1> DEFINE read == module.functions[curFunc]
           var == Named(NameOf(ir[i].id), ir[i].type)
<1>3. var = DeclaredAt(ir, i)  BY <1>0, <1>1, VariableRead
<1>4. \/ \E func : /\ GrownBy(func, read, ir[i].op, var)
                   /\ module' = [module EXCEPT !.functions = [@ EXCEPT ![curFunc] = func]]
      \/ curFunc = "" /\ module'.functions = module.functions
  <2>1. CASE OpVariable /\ curFunc # ""
    <3> DEFINE func == [read EXCEPT !.locals = Append(@, var)]
    <3>1. module' = [module EXCEPT !.functions = [@ EXCEPT ![curFunc] = func]]
      BY <2>1 DEF OpVariable
    <3>2. ir[i].op = "Variable"  BY <2>1 DEF OpVariable, Reads
    <3>3. GrownBy(func, read, ir[i].op, var)  BY <3>2 DEF GrownBy
    <3> HIDE DEF func, read, var
    <3>4. QED  BY <3>1, <3>3
  <2>2. CASE OpVariable /\ curFunc = ""
    <3> DEFINE unis == module.uniforms \o UniformsOf(var)
               globs == Append(module.globals, var)
    <3>1. \/ module' = [module EXCEPT !.uniforms = unis]
          \/ module' = [module EXCEPT !.globals = globs]
          \/ module' = module
      BY <2>2 DEF OpVariable
    <3> HIDE DEF unis, globs
    <3>2. module'.functions = module.functions  BY <1>0, <3>1 DEF Shape
    <3>3. QED  BY <2>2, <3>2
  <2>3. CASE OpFunctionParameter
    <3> DEFINE func == [read EXCEPT !.arguments = Append(@, var)]
    <3>1. module' = [module EXCEPT !.functions = [@ EXCEPT ![curFunc] = func]]
      BY <2>3 DEF OpFunctionParameter
    <3>2. ir[i].op = "FunctionParameter"  BY <2>3 DEF OpFunctionParameter, Reads
    <3>3. GrownBy(func, read, ir[i].op, var)  BY <3>2 DEF GrownBy
    <3> HIDE DEF func, read, var
    <3>4. QED  BY <3>1, <3>3
  <2>4. QED  BY <2>1, <2>2, <2>3
<1> HIDE DEF var
<1>5. ASSUME curFunc = "", module'.functions = module.functions
      PROVE  FunctionsRead(ir, i + 1, module'.functions)
  BY <1>1, <1>2, <1>5, FunctionsKept
<1>6. ASSUME NEW func, GrownBy(func, read, ir[i].op, var),
             module' = [module EXCEPT !.functions = [@ EXCEPT ![curFunc] = func]]
      PROVE  FunctionsRead(ir, i + 1, module'.functions)
  <2>1. Grows(func)  BY <1>3, <1>6 DEF Grows
  <2>2. ASSUME NEW f \in Positions(ir, "Function"), IsCurrent(f)
        PROVE  FunctionRead(ir, i + 1, f, func) /\ curFunc \in DOMAIN module.functions
    BY <1>1, <2>1, <2>2, FunctionGrows, CurrentRead
  <2>3. /\ DOMAIN module'.functions = DOMAIN module.functions
        /\ \A k \in DOMAIN module.functions :
              k # curFunc => module'.functions[k] = module.functions[k]
        /\ curFunc \in DOMAIN module.functions => module'.functions[curFunc] = func
    BY <1>0, <1>6, EntryChanged
  <2>4. ASSUME NEW f \in Positions(ir, "Function"), IsCurrent(f)
        PROVE  FunctionRead(ir, i + 1, f, module'.functions[curFunc])
    BY <2>2, <2>3, <2>4
  <2>5. QED  BY <1>1, <1>2, <2>3, <2>4, CurrentChanged
<1>7. FunctionsRead(ir, i + 1, module'.functions)  BY <1>4, <1>5, <1>6
<1>8. curFunc' = curFunc /\ lastOpLine' = lastOpLine
  BY DEF OpVariable, OpFunctionParameter, tables
<1>9. PlaceMoves(ir, i, curFunc, lastOpLine, curFunc', lastOpLine')
  BY <1>1, <1>8 DEF PlaceMoves
<1>10. QED  BY <1>1, <1>7, <1>9 DEF FunctionsGoOn

LEMMA OthersRead ==
  ASSUME FunctionsInv, Scan, ~OpFunction, ~OpFunctionEnd, ~OpLine, ~OpVariable,
         ~OpFunctionParameter
  PROVE  UNCHANGED vars \/ FunctionsGoOn
<1>0. TypeInv /\ TablesInv /\ Shape  BY DEF FunctionsInv, TablesInv, TypeInv
<1>1. module'.functions = module.functions
  BY <1>0 DEF Scan, Shape, OpName, OpTypeStruct, OpMemberName, OpTypePointer, OpTypeScalar,
              OpTypeVector, OpTypeMatrix, OpExecutionMode, OpBarrier, Count, Skip
<1>2. curFunc' = curFunc /\ lastOpLine' = lastOpLine
  BY DEF Scan, OpName, OpTypeStruct, OpMemberName, OpTypePointer, OpTypeScalar,
         OpTypeVector, OpTypeMatrix, OpExecutionMode, OpBarrier, Count, Skip, tables
<1>3. PICK op : Reads(op) /\ op \notin {"Function", "FunctionEnd", "FunctionParameter",
                                        "Variable", "Line"}
  BY DEF Scan, OpName, OpTypeStruct, OpMemberName, OpTypePointer, OpTypeScalar,
         OpTypeVector, OpTypeMatrix, OpExecutionMode, OpBarrier, Count, Skip, Scalars, Counters
<1>4. ir[i].op \notin {"Function", "FunctionEnd", "FunctionParameter", "Variable", "Line"}
  BY <1>3 DEF Reads
<1>5. ASSUME ~UNCHANGED vars PROVE FunctionsGoOn
  <2>1. i \in DOMAIN ir /\ i' = i + 1 /\ ir' = ir
    BY <1>0, <1>5, ScanGoesOn DEF TablesGoOn
  <2>2. i \notin Positions(ir, "Function")  BY <1>4 DEF Positions
  <2>3. FunctionsRead(ir, i + 1, module'.functions)
    BY <1>1, <1>4, <2>1, <2>2, FunctionsKept
  <2>4. PlaceMoves(ir, i, curFunc, lastOpLine, curFunc', lastOpLine')
    BY <1>2, <1>4 DEF PlaceMoves
  <2>5. QED  BY <2>1, <2>3, <2>4 DEF FunctionsGoOn
<1>6. QED  BY <1>5

LEMMA FunctionsNone ==
  ASSUME NEW p, IsProgram(p)
  PROVE  PlaceRead(p, 1, "", -1) /\ FunctionsRead(p, 1, Empty)
<1>1. \A f \in Positions(p, "Function") : ~(f < 1)
  <2>1. DOMAIN p = 1..Len(p) /\ Positions(p, "Function") \subseteq DOMAIN p  BY PositionsAre
  <2>2. QED  BY <2>1
<1>2. PlaceRead(p, 1, "", -1)  BY <1>1 DEF PlaceRead, IsIn
<1>3. DOMAIN Empty = {}  BY DEF Empty
<1>4. \A key : FiledAs(Empty, key) = NewFunction  BY <1>3 DEF FiledAs, At
<1>5. NewFunction.arguments = <<>> /\ NewFunction.locals = <<>>  BY DEF NewFunction
<1>6. \A at : VariablesAt(p, at)[1 - 1] = <<>>
  <2>1. \A at : VariablesAt(p, at)[0] = <<>>  BY VariablesUnfold
  <2>2. 1 - 1 = 0  OBVIOUS
  <2>3. QED  BY <2>1, <2>2
<1>7. \A f \in Positions(p, "Function") : FunctionRead(p, 1, f, NewFunction)
  BY <1>1, <1>5, <1>6 DEF FunctionRead, ListsRead
<1>8. QED  BY <1>1, <1>2, <1>3, <1>4, <1>7 DEF FunctionsRead

LEMMA FunctionsInit == Init => FunctionsInv
<1> SUFFICES ASSUME Init PROVE FunctionsInv  OBVIOUS
<1>1. ir = <<>> /\ i = 1 /\ curFunc = "" /\ lastOpLine = -1 /\ module.functions = Empty
  BY DEF Init, Cleared
<1>2. QED  BY <1>1, TablesInit, FunctionsNone, ProgramsArePrograms DEF FunctionsInv

LEMMA FunctionsStep == FunctionsInv /\ [Next]_vars => FunctionsInv'
<1> SUFFICES ASSUME FunctionsInv, [Next]_vars PROVE FunctionsInv'  OBVIOUS
<1>0. TypeInv /\ TablesInv /\ TablesInv' /\ IsProgram(ir)
  BY TablesStep DEF FunctionsInv, TablesInv, TypeInv
<1>1. CASE UNCHANGED vars
  <2>1. ir' = ir /\ i' = i /\ module' = module /\ curFunc' = curFunc /\ lastOpLine' = lastOpLine
    BY <1>1 DEF vars, tables
  <2>2. QED  BY <1>0, <2>1 DEF FunctionsInv
<1>2. CASE FunctionsGoOn
  <2>1. PlaceRead(ir, i + 1, curFunc', lastOpLine')
    BY <1>0, <1>2, PlaceNext DEF FunctionsInv, FunctionsGoOn
  <2>2. QED  BY <1>0, <1>2, <2>1 DEF FunctionsInv, FunctionsGoOn
<1>3. ASSUME NEW p \in Programs, Parse(p) PROVE FunctionsInv'
  <2>1. ir' = p /\ i' = 1 /\ curFunc' = "" /\ lastOpLine' = -1 /\ module'.functions = Empty
    BY <1>3 DEF Parse, Cleared
  <2>2. QED  BY <1>0, <2>1, FunctionsNone, ProgramsArePrograms DEF FunctionsInv
<1>4. CASE OpFunction
  <2>1. i \in DOMAIN ir /\ ir[i].op = "Function" /\ i' = i + 1 /\ ir' = ir
    BY <1>0, <1>4, NextInstruction DEF OpFunction
  <2>2. FunctionsRead(ir, i + 1, module'.functions) /\ curFunc' = KeyOf(ir, i)
    BY <1>4, FunctionStarts
  <2>3. PlaceMoves(ir, i, curFunc, lastOpLine, curFunc', lastOpLine')
    BY <1>4, <2>1, <2>2 DEF PlaceMoves, OpFunction
  <2>4. QED  BY <1>2, <2>1, <2>2, <2>3 DEF FunctionsGoOn
<1>5. CASE OpFunctionEnd  BY <1>2, <1>5, FunctionEnds
<1>6. CASE OpLine  BY <1>2, <1>6, LineReads
<1>7. CASE OpVariable \/ OpFunctionParameter  BY <1>2, <1>7, VariableReads
<1>8. CASE /\ Scan /\ ~OpFunction /\ ~OpFunctionEnd /\ ~OpLine
           /\ ~OpVariable /\ ~OpFunctionParameter
  BY <1>1, <1>2, <1>8, OthersRead
<1>9. QED  BY <1>1, <1>3, <1>4, <1>5, <1>6, <1>7, <1>8 DEF Next

\* When the scan is over, the functions are those the program has, by their trimmed
\* names; each has the arguments and locals of all functions of its name, in order,
\* and one that is alone under its name its own return type, place and lines.
THEOREM FunctionsAlwaysAsDeclared == Spec => []FunctionsAsDeclared
<1>1. FunctionsInv => FunctionsAsDeclared
  <2> SUFFICES ASSUME FunctionsInv, Done PROVE FunctionsAsDeclared
    BY DEF FunctionsAsDeclared
  <2> DEFINE heads == Positions(ir, "Function")
             In(at) == VariablesAt(ir, at)[Len(ir)]
             same(f) == {g \in heads : KeyOf(ir, g) = KeyOf(ir, f)}
             body(f) == UNION {(g + 1)..(EndOf(ir, g) - 1) : g \in same(f)}
             lines(f) == body(f) \cap Positions(ir, "Line")
             read(f) == module.functions[KeyOf(ir, f)]
  <2>0. /\ IsProgram(ir) /\ DOMAIN ir = 1..Len(ir) /\ Len(ir) \in Nat /\ i = Len(ir) + 1
        /\ FunctionsRead(ir, i, module.functions)
    BY ScanPosition DEF FunctionsInv, TablesInv, Done
  <2>1. \A op : \A k \in Positions(ir, op) : k \in Nat /\ k < i
    <3> SUFFICES ASSUME NEW op, NEW k \in Positions(ir, op) PROVE k \in Nat /\ k < i  OBVIOUS
    <3>1. k \in 1..Len(ir)  BY <2>0 DEF Positions
    <3>2. QED  BY <2>0, <3>1
  <2>2. \A f \in heads : same(f) = SameKey(ir, f) /\ body(f) = BodyOf(ir, f)
                         /\ lines(f) = LinesOf(ir, f)
    BY DEF SameKey, BodyOf, LinesOf
  <2>3. DOMAIN module.functions = {KeyOf(ir, f) : f \in heads}
    BY <2>0, <2>1 DEF FunctionsRead
  <2>4. ASSUME NEW f \in heads, KeyOf(ir, f) # ""
        PROVE  /\ read(f).arguments = In(body(f) \cap Positions(ir, "FunctionParameter"))
               /\ read(f).locals = In(body(f) \cap Positions(ir, "Variable"))
               /\ same(f) = {f} =>
                  /\ read(f).ret_type = Declared(ir, "", ir[f].type)
                  /\ read(f).index = Cardinality({KeyOf(ir, g) : g \in {h \in heads : h < f}})
                  /\ \A l \in lines(f) :
                        /\ (\A m \in lines(f) : l <= m) => read(f).line_start = ir[l].line
                        /\ (\A m \in lines(f) : m <= l) => read(f).line_end = ir[l].line
    <3>1. KeyOf(ir, f) \in DOMAIN module.functions  BY <2>3, <2>4
    <3>2. FiledAs(module.functions, KeyOf(ir, f)) = read(f)  BY <3>1 DEF FiledAs, At
    <3>3. FunctionRead(ir, i, f, read(f))
      <4> HIDE DEF read
      <4>1. QED  BY <2>0, <2>4, <3>2 DEF FunctionsRead
    <3>4. i - 1 = Len(ir)  BY <2>0
    <3>5. /\ f < i /\ EndOf(ir, f) < i /\ \A l \in LinesOf(ir, f) : l < i
      <4>1. EndOf(ir, f) \in Positions(ir, "FunctionEnd")  BY <2>0, EndIs
      <4>2. QED  BY <2>1, <4>1 DEF LinesOf
    <3> HIDE DEF read, body, same, lines
    <3>6. read(f).arguments = In(body(f) \cap Positions(ir, "FunctionParameter"))
          /\ read(f).locals = In(body(f) \cap Positions(ir, "Variable"))
      BY <2>2, <2>4, <3>3, <3>4 DEF FunctionRead, ListsRead
    <3>7. ASSUME same(f) = {f} PROVE OwnRead(ir, i, f, read(f))
      BY <2>2, <2>4, <3>3, <3>5, <3>7 DEF FunctionRead
    <3>8. ASSUME same(f) = {f}
          PROVE  /\ read(f).ret_type = Declared(ir, "", ir[f].type)
                 /\ read(f).index = Cardinality({KeyOf(ir, g) : g \in {h \in heads : h < f}})
                 /\ \A l \in lines(f) :
                       /\ (\A m \in lines(f) : l <= m) => read(f).line_start = ir[l].line
                       /\ (\A m \in lines(f) : m <= l) => read(f).line_end = ir[l].line
      BY <2>2, <2>4, <3>5, <3>7, <3>8 DEF OwnRead
    <3>9. QED  BY <3>6, <3>8
  <2>5. QED  BY <2>3, <2>4 DEF FunctionsAsDeclared
<1>2. QED  BY <1>1, FunctionsInit, FunctionsStep, PTL DEF Spec

-----------------------------------------------------------------------------
\* The programs whose uniforms are read as they are declared: names of structs are
\* orderly, every function has a name, and a uniform without a name is a buffer, or
\* no struct is without a name.
Plain(p) ==
    /\ \A s \in Positions(p, "TypeStruct") : Orderly(p, s)
    /\ \A f \in Positions(p, "Function") : KeyOf(p, f) # ""
    /\ \/ \A k \in UniformsAt(p) \ NamedAt(p) : \E s \in DOMAIN p : IsBlock(p, k, s)
       \/ \A s \in Positions(p, "TypeStruct") : DeclaredName(p, p[s].id) # ""

\* The parser knows members of structs only.
StructNames(p) == {DeclaredName(p, p[s].id) : s \in Positions(p, "TypeStruct")}

\* The globals and uniforms of the instructions that were read.
GlobalsAt(p) == NamedAt(p) \ UniformsAt(p)
UniformsRead(p, n, uniforms, globals) ==
    /\ uniforms = DeclaredUniforms(p)[n - 1]
    /\ globals = VariablesAt(p, GlobalsAt(p))[n - 1]

UniformsInv ==
    /\ StructsInv /\ FunctionsInv
    /\ DOMAIN module.user_types \subseteq StructNames(ir)
    /\ Plain(ir) => UniformsRead(ir, i, module.uniforms, module.globals)

-----------------------------------------------------------------------------
\* The name of the struct that a type is, and "" if it is none.
StructName(p, q) ==
    IF IsDeclared(p, q) /\ ~IsPointer(p, q) /\ p[TypeAt(p, q)].op = "TypeStruct"
    THEN DeclaredName(p, p[TypeAt(p, q)].id) ELSE ""

\* The name and the struct of a variable.
LEMMA FieldsParts ==
  ASSUME NEW a, NEW b, NEW c, NEW d, NEW e
  PROVE  Fields(a, b, c, d, e).name = a /\ Fields(a, b, c, d, e).type_name = e
BY DEF Fields

\* The name of what is declared, and of its struct.
LEMMA DeclaredParts ==
  ASSUME NEW p, NEW name, NEW id
  PROVE  /\ Declared(p, name, id).name = name
         /\ Declared(p, name, id).type_name = StructName(p, Pointee(p, id))
<1> DEFINE q == Pointee(p, id)
           t == p[TypeAt(p, q)]
<1>1. PICK var : var = Unfilled(name)  OBVIOUS
<1>2. /\ \A a, b : Typed(var, a, b) = Fields(name, a, b, 1, "")
      /\ \A a, b, c, d : Filled(var, a, b, c, d) = Fields(name, a, b, c, d)
  BY <1>1, VariableFields
<1>3. CASE ~IsDeclared(p, q) \/ IsPointer(p, q)
  <2>1. Declared(p, name, id) = Typed(var, "Void", "Void")
    BY <1>1, <1>3 DEF Declared, Typed, Unfilled
  <2>2. Declared(p, name, id) = Fields(name, "Void", "Void", 1, "")  BY <1>2, <2>1
  <2>3. Declared(p, name, id).name = name /\ Declared(p, name, id).type_name = ""
    <3> DEFINE void == "Void"
               none == ""
    <3>1. Declared(p, name, id) = Fields(name, void, void, 1, none)  BY <2>2
    <3> HIDE DEF void, none
    <3>2. Declared(p, name, id).name = name /\ Declared(p, name, id).type_name = none
      BY <3>1, FieldsParts
    <3>3. QED  BY <3>2 DEF none
  <2>4. QED  BY <1>3, <2>3 DEF StructName
<1>4. CASE IsDeclared(p, q) /\ ~IsPointer(p, q)
  <2> DEFINE type == CASE t.op = "TypeStruct" -> "Struct"
                       [] t.op = "TypeVector" -> "Vector"
                       [] t.op = "TypeMatrix" -> "Matrix"
                       [] OTHER -> t.op
             base == CASE t.op = "TypeStruct" -> "Struct"
                       [] t.op = "TypeVector" -> p[TypeAt(p, t.type)].op
                       [] t.op = "TypeMatrix" -> "Matrix"
                       [] OTHER -> t.op
             count == IF t.op \in {"TypeVector", "TypeMatrix"} THEN t.count ELSE 1
             of == IF t.op = "TypeStruct" THEN DeclaredName(p, t.id) ELSE ""
  <2>1. Declared(p, name, id) = Filled(var, type, base, count, of)
    BY <1>1, <1>4 DEF Declared, Filled, Unfilled
  <2>2. Declared(p, name, id) = Fields(name, type, base, count, of)
    <3> HIDE DEF type, base, count, of
    <3>1. QED  BY <1>2, <2>1
  <2> HIDE DEF type, base, count
  <2>3. Declared(p, name, id).name = name /\ Declared(p, name, id).type_name = of
    <3> HIDE DEF of
    <3>1. QED  BY <2>2, FieldsParts
  <2>4. QED  BY <1>4, <2>3 DEF StructName
<1>5. QED  BY <1>3, <1>4

\* DeclaredUniforms, unfolded: an instruction at a time.
LEMMA UniformsUnfold ==
  ASSUME NEW p, IsProgram(p)
  PROVE  /\ DeclaredUniforms(p)[0] = <<>>
         /\ \A n \in 1..Len(p) :
               DeclaredUniforms(p)[n] = DeclaredUniforms(p)[n - 1] \o UniformsFrom(p, n)
<1> DEFINE N == Len(p)
           D == {DeclaredAt(p, k) : k \in DOMAIN p}
                \cup UNION {{MembersOf(p, s)[m] : m \in DOMAIN MembersOf(p, s)} : s \in DOMAIN p}
           step == [n \in 1..N |-> [s \in Seq(D) |-> s \o UniformsFrom(p, n)]]
           IsUpTo(f) == f = [n \in 0..N |-> IF n = 0 THEN <<>>
                                            ELSE f[n - 1] \o UniformsFrom(p, n)]
<1>0. DOMAIN p = 1..N /\ N \in Nat  BY PositionsAre
<1>1. N \in Nat /\ <<>> \in Seq(D)  BY <1>0
<1>2. ASSUME NEW n \in 1..N PROVE UniformsFrom(p, n) \in Seq(D)
  <2>1. CASE n \in UniformsAt(p) \cap NamedAt(p)
    <3>1. UniformsFrom(p, n) = <<DeclaredAt(p, n)>>  BY <2>1 DEF UniformsFrom
    <3>2. DeclaredAt(p, n) \in D  BY <1>0
    <3> HIDE DEF D
    <3>3. QED  BY <3>1, <3>2
  <2>2. CASE /\ n \in UniformsAt(p) \ NamedAt(p)
             /\ \E s \in DOMAIN p : IsBlock(p, n, s)
    <3> DEFINE s == CHOOSE s \in DOMAIN p : IsBlock(p, n, s)
    <3>1. s \in DOMAIN p /\ IsBlock(p, n, s)  BY <2>2
    <3>2. UniformsFrom(p, n) = MembersOf(p, s)
      BY <2>2 DEF UniformsFrom
    <3> HIDE DEF s
    <3>3. p[s].members \in Seq(Nat)
      BY <3>1, PositionsAre DEF IsBlock, IsInstruction, Positions
    <3>4. DOMAIN MembersOf(p, s) = 1..Len(p[s].members) /\ Len(p[s].members) \in Nat
      BY <3>3 DEF MembersOf
    <3>5. \A m \in DOMAIN MembersOf(p, s) : MembersOf(p, s)[m] \in D  BY <3>1
    <3> DEFINE mems == MembersOf(p, s)
               size == Len(p[s].members)
    <3> HIDE DEF D
    <3>6. mems = [m \in 1..size |-> mems[m]]  BY <3>4 DEF MembersOf
    <3>7. \A m \in 1..size : mems[m] \in D  BY <3>4, <3>5
    <3>8. size \in Nat  BY <3>4
    <3> HIDE DEF mems, size
    <3>9. mems \in [1..size -> D]  BY <3>6, <3>7
    <3>10. mems \in Seq(D)  BY <3>8, <3>9, FunctionIsSeq
    <3>11. QED  BY <3>2, <3>10 DEF mems
  <2>3. CASE /\ n \notin UniformsAt(p) \cap NamedAt(p)
             /\ ~(/\ n \in UniformsAt(p) \ NamedAt(p)
                  /\ \E s \in DOMAIN p : IsBlock(p, n, s))
    <3>1. UniformsFrom(p, n) = <<>>  BY <2>3 DEF UniformsFrom
    <3>2. QED  BY <1>1, <3>1
  <2>4. QED  BY <2>1, <2>2, <2>3
<1>3. step \in [1..N -> [Seq(D) -> Seq(D)]]
  <2> HIDE DEF D
  <2>1. \A n \in 1..N : \A s \in Seq(D) : s \o UniformsFrom(p, n) \in Seq(D)
    BY <1>2, ConcatProperties
  <2>2. QED  BY <2>1
<1>4. PICK f : SolvesRecursion(f, N, Seq(D), <<>>, step)
  <2> HIDE DEF step, N, D
  <2>1. QED  BY <1>1, <1>3, RecursionExists
<1>5. /\ f \in [0..N -> Seq(D)] /\ f[0] = <<>>
      /\ \A n \in 1..N : f[n] = step[n][f[n - 1]]
  BY <1>4 DEF SolvesRecursion
<1>6. ASSUME NEW n \in 1..N PROVE f[n] = f[n - 1] \o UniformsFrom(p, n)
  <2>1. n - 1 \in 0..N  BY <1>1
  <2> HIDE DEF D
  <2>2. f[n - 1] \in Seq(D)  BY <1>5, <2>1
  <2>3. step[n][f[n - 1]] = f[n - 1] \o UniformsFrom(p, n)  BY <2>2
  <2>4. QED  BY <1>5, <2>3
<1>7. IsUpTo(f)
  <2>1. f = [n \in 0..N |-> f[n]]  BY <1>5
  <2>2. ASSUME NEW n \in 0..N
        PROVE  f[n] = IF n = 0 THEN <<>> ELSE f[n - 1] \o UniformsFrom(p, n)
    <3>1. CASE n = 0  BY <1>5, <3>1
    <3>2. CASE n # 0
      <4>1. n \in 1..N  BY <1>1, <3>2
      <4>2. QED  BY <1>6, <3>2, <4>1
    <3>3. QED  BY <3>1, <3>2
  <2> HIDE DEF N
  <2>3. QED  BY <2>1, <2>2
<1>8. DeclaredUniforms(p) = CHOOSE g : IsUpTo(g)  BY Zenon DEF DeclaredUniforms
<1>9. IsUpTo(DeclaredUniforms(p))
  <2> HIDE DEF IsUpTo
  <2>1. QED  BY <1>7, <1>8
<1> DEFINE E == DeclaredUniforms(p)
<1> HIDE DEF E
<1>10. IsUpTo(E)  BY <1>9 DEF E
<1>11. E[0] = <<>>  BY <1>1, <1>10
<1>12. \A n \in 1..N : E[n] = E[n - 1] \o UniformsFrom(p, n)
  <2> SUFFICES ASSUME NEW n \in 1..N PROVE E[n] = E[n - 1] \o UniformsFrom(p, n)  OBVIOUS
  <2> HIDE DEF N
  <2>1. n \in 0..N /\ n # 0  BY <1>1
  <2> HIDE DEF IsUpTo
  <2>2. QED  BY <1>10, <2>1 DEF IsUpTo
<1>13. QED  BY <1>11, <1>12 DEF E

\* An instruction that is no variable outside of functions adds nothing.
LEMMA UniformsKept ==
  ASSUME NEW p, IsProgram(p), NEW n \in DOMAIN p, NEW uniforms \in Seq(Variables), NEW globals,
         UniformsRead(p, n, uniforms, globals), n \notin Outside(p)
  PROVE  UniformsRead(p, n + 1, uniforms, globals)
<1>1. n \in 1..Len(p) /\ (n + 1) - 1 = n  BY PositionsAre
<1>2. n \notin UniformsAt(p) /\ n \notin NamedAt(p)  BY DEF UniformsAt, NamedAt
<1>3. UniformsFrom(p, n) = <<>>  BY <1>2 DEF UniformsFrom
<1>4. uniforms \o <<>> = uniforms  BY ConcatProperties
<1>5. DeclaredUniforms(p)[n] = uniforms  BY <1>1, <1>3, <1>4, UniformsUnfold DEF UniformsRead
<1>6. VariablesAt(p, GlobalsAt(p))[n] = globals
  BY <1>1, <1>2, VariablesUnfold DEF UniformsRead, GlobalsAt
<1>7. QED  BY <1>1, <1>5, <1>6 DEF UniformsRead

\* The scan is outside of functions when it has no name of one.
LEMMA OutsideIs ==
  ASSUME FunctionsInv, Plain(ir), i \in DOMAIN ir, ir[i].op = "Variable"
  PROVE  i \in Outside(ir) <=> curFunc = ""
<1>0. IsProgram(ir) /\ i \in Nat  BY ScanPosition DEF FunctionsInv, TablesInv
<1>1. i \in Positions(ir, "Variable")  BY DEF Positions
<1>2. ASSUME curFunc # "" PROVE InFunction(ir, i)
  <2>1. PICK h : IsIn(ir, h, i)  BY <1>2, HeadIs
  <2>2. EndOf(ir, h) \in Positions(ir, "FunctionEnd") /\ EndOf(ir, h) \in Nat
    BY <1>0, <2>1, EndIs DEF IsIn
  <2>3. i # EndOf(ir, h)  BY <2>2 DEF Positions
  <2>4. i < EndOf(ir, h)  BY <1>0, <2>1, <2>2, <2>3 DEF IsIn
  <2>5. QED  BY <2>1, <2>4 DEF InFunction, IsIn
<1>3. ASSUME InFunction(ir, i) PROVE curFunc # ""
  <2>1. PICK f \in Positions(ir, "Function") : f < i /\ i < EndOf(ir, f)
    BY <1>3 DEF InFunction
  <2>2. EndOf(ir, f) \in Nat  BY <1>0, EndIs
  <2>3. IsIn(ir, f, i)  BY <1>0, <2>1, <2>2 DEF IsIn
  <2>4. QED  BY <2>3, HeadIs DEF Plain, IsIn
<1>4. QED  BY <1>1, <1>2, <1>3 DEF Outside

\* A uniform is read as what its instruction adds.
LEMMA UniformRead ==
  ASSUME UniformsInv, Plain(ir), i \in DOMAIN ir, ir[i].op = "Variable", i \in UniformsAt(ir)
  PROVE  UniformsOf(DeclaredAt(ir, i)) = UniformsFrom(ir, i)
<1> DEFINE var == DeclaredAt(ir, i)
           q == Pointee(ir, ir[i].type)
           t == ir[TypeAt(ir, q)]
<1>0. TablesInv /\ IsProgram(ir) /\ i \in Outside(ir)
  BY DEF UniformsInv, StructsInv, TablesInv, TypeInv, UniformsAt
<1>1. var.name = DeclaredName(ir, ir[i].id) /\ var.type_name = StructName(ir, q)
  BY DeclaredParts DEF DeclaredAt
<1> HIDE DEF var
<1>2. i \in NamedAt(ir) <=> var.name # ""  BY <1>0, <1>1 DEF NamedAt
<1>3. CASE var.name # ""
  <2>1. UniformsFrom(ir, i) = <<var>>  BY <1>2, <1>3 DEF UniformsFrom, var
  <2>2. UniformsOf(var) = <<var>>  BY <1>3 DEF UniformsOf
  <2>3. QED  BY <2>1, <2>2 DEF var
<1>4. CASE var.name = "" /\ \E s \in DOMAIN ir : IsBlock(ir, i, s)
  <2> DEFINE s == CHOOSE s \in DOMAIN ir : IsBlock(ir, i, s)
  <2>1. s \in DOMAIN ir /\ IsBlock(ir, i, s)  BY <1>4
  <2>2. UniformsFrom(ir, i) = MembersOf(ir, s)  BY <1>2, <1>4 DEF UniformsFrom
  <2> HIDE DEF s
  <2>3. /\ s \in Positions(ir, "TypeStruct") /\ ir[s].id = q
        /\ ir[s].op = "TypeStruct" /\ ir[s].op \in TypeOps
    BY <2>1 DEF IsBlock, Positions, TypeOps
  <2>4. IsDeclared(ir, q) /\ TypeAt(ir, q) = s  BY <1>0, <2>1, <2>3, TypeIs
  <2>5. ~IsPointer(ir, q)  BY <2>3, <2>4 DEF IsPointer
  <2>6. var.type_name = DeclaredName(ir, ir[s].id)
    BY <1>1, <2>3, <2>4, <2>5 DEF StructName
  <2>7. s < i
    <3>1. KnownId(ir[i].type)  BY <1>0, VariableRead
    <3>2. KnownId(q)  BY <1>0, <3>1, PointeeKnown
    <3>3. QED  BY <2>1, <2>3, <3>2 DEF KnownId
  <2>8. StructRead(ir, s, i, module.user_types)
    BY <2>3 DEF UniformsInv, StructsInv, StructsRead, Plain
  <2>9. /\ var.type_name \in DOMAIN module.user_types
        /\ module.user_types[var.type_name] = MembersOf(ir, s)
    BY <2>6, <2>7, <2>8 DEF StructRead
  <2>10. UniformsOf(var) = MembersOf(ir, s)  BY <1>4, <2>9 DEF UniformsOf, At
  <2>11. QED  BY <2>2, <2>10 DEF var
<1>5. CASE var.name = "" /\ ~\E s \in DOMAIN ir : IsBlock(ir, i, s)
  <2>1. UniformsFrom(ir, i) = <<>>  BY <1>2, <1>5 DEF UniformsFrom
  <2>2. ~(IsDeclared(ir, q) /\ t.op = "TypeStruct")
    <3> SUFFICES ASSUME IsDeclared(ir, q), t.op = "TypeStruct" PROVE FALSE  OBVIOUS
    <3>1. TypeAt(ir, q) \in DOMAIN ir /\ ir[TypeAt(ir, q)].id = q  BY DeclaredBy
    <3>2. IsBlock(ir, i, TypeAt(ir, q))  BY <3>1 DEF IsBlock, Positions
    <3>3. QED  BY <1>5, <3>1, <3>2
  <2>3. var.type_name = ""  BY <1>1, <2>2 DEF StructName
  <2>4. \A s \in Positions(ir, "TypeStruct") : DeclaredName(ir, ir[s].id) # ""
    BY <1>2, <1>5 DEF Plain
  <2>5. "" \notin DOMAIN module.user_types  BY <2>4 DEF UniformsInv, StructNames
  <2>6. UniformsOf(var) = <<>>  BY <1>5, <2>3, <2>5 DEF UniformsOf, At
  <2>7. QED  BY <2>1, <2>6 DEF var
<1>6. QED  BY <1>3, <1>4, <1>5

\* Only a variable outside of functions changes the uniforms and the globals.
LEMMA UniformsUnchanged ==
  ASSUME TypeInv, Scan, ~OpVariable
  PROVE  /\ module'.uniforms = module.uniforms /\ module'.globals = module.globals
         /\ i \notin Outside(ir)
<1>0. Shape  BY DEF TypeInv
<1>1. module'.uniforms = module.uniforms /\ module'.globals = module.globals
  <2>1. CASE OpTypeStruct  BY <1>0, <2>1 DEF OpTypeStruct, Shape
  <2>2. CASE OpMemberName  BY <1>0, <2>2 DEF OpMemberName, Shape
  <2>3. CASE OpFunction  BY <1>0, <2>3 DEF OpFunction, Shape
  <2>4. CASE OpFunctionEnd \/ OpFunctionParameter \/ OpLine
    BY <1>0, <2>4 DEF OpFunctionEnd, OpFunctionParameter, OpLine, Shape
  <2>5. CASE OpExecutionMode \/ OpBarrier \/ Count
    BY <1>0, <2>5 DEF OpExecutionMode, OpBarrier, Count, Shape
  <2>6. CASE \/ OpName \/ OpTypePointer \/ OpTypeScalar \/ OpTypeVector \/ OpTypeMatrix
             \/ Skip
    BY <2>6 DEF OpName, OpTypePointer, OpTypeScalar, OpTypeVector, OpTypeMatrix, Skip
  <2>7. QED  BY <2>1, <2>2, <2>3, <2>4, <2>5, <2>6 DEF Scan
<1>2. PICK op : Reads(op) /\ op # "Variable"
  <2>1. CASE OpTypeStruct \/ OpMemberName \/ OpFunction
    BY <2>1 DEF OpTypeStruct, OpMemberName, OpFunction
  <2>2. CASE OpFunctionEnd \/ OpFunctionParameter \/ OpLine
    <3>1. OpFunctionEnd => Reads("FunctionEnd")  BY DEF OpFunctionEnd
    <3>2. OpFunctionParameter => Reads("FunctionParameter")  BY DEF OpFunctionParameter
    <3>3. OpLine => Reads("Line")  BY DEF OpLine
    <3>4. QED  BY <2>2, <3>1, <3>2, <3>3
  <2>3. CASE OpExecutionMode \/ OpBarrier \/ Count
    BY <2>3 DEF OpExecutionMode, OpBarrier, Count, Counters
  <2>4. CASE \/ OpName \/ OpTypePointer \/ OpTypeScalar \/ OpTypeVector \/ OpTypeMatrix
             \/ Skip
    BY <2>4 DEF OpName, OpTypePointer, OpTypeScalar, OpTypeVector, OpTypeMatrix, Skip, Scalars
  <2>5. QED  BY <2>1, <2>2, <2>3, <2>4 DEF Scan
<1>3. ir[i].op # "Variable"  BY <1>2 DEF Reads
<1>4. QED  BY <1>1, <1>3 DEF Outside, Positions

\* What an instruction adds to the uniforms and the globals.
LEMMA UniformsGrow ==
  ASSUME NEW p, IsProgram(p), NEW n \in DOMAIN p, NEW uniforms, NEW globals,
         UniformsRead(p, n, uniforms, globals)
  PROVE  UniformsRead(p, n + 1, uniforms \o UniformsFrom(p, n),
                      IF n \in GlobalsAt(p) THEN Append(globals, DeclaredAt(p, n)) ELSE globals)
<1>1. n \in 1..Len(p) /\ (n + 1) - 1 = n  BY PositionsAre
<1>2. DeclaredUniforms(p)[n] = uniforms \o UniformsFrom(p, n)
  BY <1>1, UniformsUnfold DEF UniformsRead
<1>3. VariablesAt(p, GlobalsAt(p))[n]
         = IF n \in GlobalsAt(p) THEN Append(globals, DeclaredAt(p, n)) ELSE globals
  BY <1>1, VariablesUnfold DEF UniformsRead
<1>4. QED  BY <1>1, <1>2, <1>3 DEF UniformsRead

\* A variable is one of the uniforms, one of the globals, or neither.
LEMMA VariableAdds ==
  ASSUME UniformsInv, Plain(ir), OpVariable
  PROVE  UniformsRead(ir, i + 1, module'.uniforms, module'.globals)
<1> DEFINE var == DeclaredAt(ir, i)
           unis == module.uniforms \o UniformsOf(var)
           globs == Append(module.globals, var)
<1>0. /\ TypeInv /\ TablesInv /\ FunctionsInv /\ Shape /\ IsProgram(ir)
      /\ module.uniforms \in Seq(Variables)
      /\ UniformsRead(ir, i, module.uniforms, module.globals)
  BY DEF UniformsInv, FunctionsInv, TablesInv, TypeInv, TypeOK
<1>1. i \in DOMAIN ir /\ ir[i].op = "Variable"
  <2>1. Reads("Variable")  BY DEF OpVariable
  <2>2. QED  BY <1>0, <2>1, NextInstruction
<1>2. Named(NameOf(ir[i].id), ir[i].type) = var  BY <1>0, <1>1, VariableRead
<1>3. var.name = DeclaredName(ir, ir[i].id)  BY DeclaredParts DEF DeclaredAt
<1>4. i \in Outside(ir) <=> curFunc = ""  BY <1>0, <1>1, OutsideIs
<1> HIDE DEF var
<1>5. module' = CASE curFunc # "" ->
                       [module EXCEPT !.functions[curFunc].locals = Append(@, var)]
                  [] curFunc = "" /\ ir[i].storage = "Uniform" ->
                       [module EXCEPT !.uniforms = unis]
                  [] curFunc = "" /\ ir[i].storage # "Uniform" /\ var.name # "" ->
                       [module EXCEPT !.globals = globs]
                  [] OTHER -> module
  BY <1>2 DEF OpVariable
<1>6. CASE curFunc # ""
  <2> DEFINE funs == [module.functions EXCEPT ![curFunc].locals = Append(@, var)]
  <2>1. module' = [module EXCEPT !.functions = funs]  BY <1>5, <1>6
  <2> HIDE DEF funs
  <2>2. module'.uniforms = module.uniforms /\ module'.globals = module.globals
    BY <1>0, <2>1 DEF Shape
  <2>3. QED  BY <1>0, <1>1, <1>4, <1>6, <2>2, UniformsKept
<1>7. CASE curFunc = "" /\ ir[i].storage = "Uniform"
  <2>1. module' = [module EXCEPT !.uniforms = unis]  BY <1>5, <1>7
  <2>2. i \in UniformsAt(ir) /\ i \notin GlobalsAt(ir)
    BY <1>4, <1>7 DEF UniformsAt, GlobalsAt
  <2>3. UniformsOf(var) = UniformsFrom(ir, i)  BY <1>1, <2>2, UniformRead DEF var
  <2>4. unis = module.uniforms \o UniformsFrom(ir, i)  BY <2>3
  <2> HIDE DEF unis
  <2>5. module'.uniforms = unis /\ module'.globals = module.globals
    BY <1>0, <2>1 DEF Shape
  <2>6. UniformsRead(ir, i + 1, module.uniforms \o UniformsFrom(ir, i), module.globals)
    BY <1>0, <1>1, <2>2, UniformsGrow
  <2>7. QED  BY <2>4, <2>5, <2>6
<1>8. CASE curFunc = "" /\ ir[i].storage # "Uniform"
  <2>1. i \notin UniformsAt(ir) /\ (i \in GlobalsAt(ir) <=> var.name # "")
    BY <1>3, <1>4, <1>8 DEF UniformsAt, GlobalsAt, NamedAt
  <2>2. UniformsFrom(ir, i) = <<>>  BY <2>1 DEF UniformsFrom
  <2>3. module.uniforms \o <<>> = module.uniforms  BY <1>0, ConcatProperties
  <2>4. UniformsRead(ir, i + 1, module.uniforms,
                     IF i \in GlobalsAt(ir) THEN globs ELSE module.globals)
    BY <1>0, <1>1, <2>2, <2>3, UniformsGrow DEF var
  <2>5. CASE var.name # ""
    <3>1. module' = [module EXCEPT !.globals = globs]  BY <1>5, <1>8, <2>5
    <3> HIDE DEF globs
    <3>2. module'.uniforms = module.uniforms /\ module'.globals = globs
      BY <1>0, <3>1 DEF Shape
    <3>3. QED  BY <2>1, <2>4, <2>5, <3>2
  <2>6. CASE var.name = ""
    <3>1. module' = module  BY <1>5, <1>8, <2>6
    <3> HIDE DEF globs
    <3>2. QED  BY <2>1, <2>4, <2>6, <3>1
  <2>7. QED  BY <2>5, <2>6
<1>9. QED  BY <1>6, <1>7, <1>8

\* The structs that are known are the program's.
LEMMA StructNamesStep ==
  ASSUME StructsInv, Scan, DOMAIN module.user_types \subseteq StructNames(ir)
  PROVE  DOMAIN module'.user_types \subseteq StructNames(ir)
<1>0. TypeInv /\ TablesInv /\ Shape /\ IsProgram(ir) /\ DOMAIN ir \subseteq Nat
  BY ScanPosition DEF StructsInv, TablesInv, TypeInv
<1>1. CASE OpTypeStruct
  <2> DEFINE name == NameOf(ir[i].id)
             mems == StructMembers(name, ir[i].members)
  <2>1. i \in Positions(ir, "TypeStruct") /\ i \in DOMAIN ir
    BY <1>0, <1>1, NextInstruction DEF OpTypeStruct
  <2>2. ir[i].op \in TypeOps  BY <2>1 DEF Positions, TypeOps
  <2>3. \A k \in Positions(ir, "Name") : k < i
    BY <1>0, <2>1, <2>2 DEF IsProgram, DeclaredFirst, Positions
  <2>4. name = DeclaredName(ir, ir[i].id)  BY <1>0, <2>3, NameKnown
  <2>5. module' = [module EXCEPT !.user_types = Put(@, name, mems)]
    BY <1>1 DEF OpTypeStruct
  <2>6. name \in StructNames(ir)  BY <2>1, <2>4 DEF StructNames
  <2> HIDE DEF name, mems
  <2>7. module'.user_types = Put(module.user_types, name, mems)  BY <1>0, <2>5 DEF Shape
  <2>8. DOMAIN Put(module.user_types, name, mems) = DOMAIN module.user_types \cup {name}
    BY PutEntry
  <2>9. QED  BY <2>6, <2>7, <2>8
<1>2. CASE OpMemberName
  <2> DEFINE name == NameOf(ir[i].id)
             known == At(module.user_types, name, <<>>)
             at    == ir[i].index + 1
             room  == IF at > Len(known) THEN at ELSE Len(known)
             mems  == [j \in 1..room |-> IF j \in DOMAIN known THEN known[j] ELSE NewVariable]
             new   == [mems EXCEPT ![at].name = ir[i].name]
  <2>1. i \in Positions(ir, "MemberName") /\ i \in DOMAIN ir
    BY <1>0, <1>2, NextInstruction DEF OpMemberName
  <2>2. PICK s \in Positions(ir, "TypeStruct") : ir[s].id = ir[i].id
    BY <1>0, <2>1 DEF IsProgram, WellTyped
  <2>3. \A k \in Positions(ir, "Name") : ir[k].id = ir[i].id => k < i
    BY <1>0, <2>1 DEF IsProgram, DeclaredFirst
  <2>4. name = DeclaredName(ir, ir[i].id)  BY <1>0, <2>3, NameKnown
  <2>5. module' = [module EXCEPT !.user_types = Put(@, name, new)]
    BY <1>2 DEF OpMemberName
  <2>6. name \in StructNames(ir)  BY <2>2, <2>4 DEF StructNames
  <2> HIDE DEF name, new
  <2>7. module'.user_types = Put(module.user_types, name, new)  BY <1>0, <2>5 DEF Shape
  <2>8. DOMAIN Put(module.user_types, name, new) = DOMAIN module.user_types \cup {name}
    BY PutEntry
  <2>9. QED  BY <2>6, <2>7, <2>8
<1>3. CASE ~OpTypeStruct /\ ~OpMemberName
  BY <1>0, <1>3, StructsUnchanged
<1>4. QED  BY <1>1, <1>2, <1>3

\* Before the first instruction there is no uniform and no global.
LEMMA UniformsNone ==
  ASSUME NEW p, IsProgram(p)
  PROVE  UniformsRead(p, 1, <<>>, <<>>) /\ DOMAIN Empty \subseteq StructNames(p)
<1>1. DeclaredUniforms(p)[0] = <<>> /\ VariablesAt(p, GlobalsAt(p))[0] = <<>> /\ 1 - 1 = 0
  BY UniformsUnfold, VariablesUnfold
<1>2. DOMAIN Empty = {}  BY DEF Empty
<1>3. QED  BY <1>1, <1>2 DEF UniformsRead

LEMMA UniformsInit == Init => UniformsInv
<1> SUFFICES ASSUME Init PROVE UniformsInv  OBVIOUS
<1>1. /\ ir = <<>> /\ i = 1 /\ module.user_types = Empty
      /\ module.uniforms = <<>> /\ module.globals = <<>>
  BY DEF Init, Cleared
<1>2. QED  BY <1>1, StructsInit, FunctionsInit, UniformsNone, ProgramsArePrograms DEF UniformsInv

LEMMA UniformsStep == UniformsInv /\ [Next]_vars => UniformsInv'
<1> SUFFICES ASSUME UniformsInv, [Next]_vars PROVE UniformsInv'  OBVIOUS
<1>0. /\ TypeInv /\ TablesInv /\ StructsInv /\ IsProgram(ir) /\ StructsInv' /\ FunctionsInv'
      /\ module.uniforms \in Seq(Variables)
  BY StructsStep, FunctionsStep DEF UniformsInv, StructsInv, TablesInv, TypeInv, TypeOK
<1>1. CASE UNCHANGED vars
  <2>1. ir' = ir /\ i' = i /\ module' = module  BY <1>1 DEF vars
  <2>2. QED  BY <1>0, <2>1 DEF UniformsInv
<1>2. ASSUME NEW p \in Programs, Parse(p) PROVE UniformsInv'
  <2>1. /\ ir' = p /\ i' = 1 /\ module'.user_types = Empty
        /\ module'.uniforms = <<>> /\ module'.globals = <<>>
    BY <1>2 DEF Parse, Cleared
  <2>2. QED  BY <1>0, <2>1, UniformsNone, ProgramsArePrograms DEF UniformsInv
<1>3. ASSUME Scan, ~UNCHANGED vars PROVE UniformsInv'
  <2>1. i \in DOMAIN ir /\ i' = i + 1 /\ ir' = ir
    BY <1>0, <1>3, ScanGoesOn DEF TablesGoOn
  <2>2. DOMAIN module'.user_types \subseteq StructNames(ir)
    BY <1>0, <1>3, StructNamesStep DEF UniformsInv
  <2>3. ASSUME Plain(ir), OpVariable
        PROVE  UniformsRead(ir, i + 1, module'.uniforms, module'.globals)
    BY <2>3, VariableAdds
  <2>4. ASSUME Plain(ir), ~OpVariable
        PROVE  UniformsRead(ir, i + 1, module'.uniforms, module'.globals)
    <3>1. /\ module'.uniforms = module.uniforms /\ module'.globals = module.globals
          /\ i \notin Outside(ir)
      BY <1>0, <1>3, <2>4, UniformsUnchanged
    <3>2. UniformsRead(ir, i, module.uniforms, module.globals)  BY <2>4 DEF UniformsInv
    <3>3. QED  BY <1>0, <2>1, <3>1, <3>2, UniformsKept
  <2>5. QED  BY <1>0, <2>1, <2>2, <2>3, <2>4 DEF UniformsInv
<1>4. QED  BY <1>1, <1>2, <1>3 DEF Next

\* When the scan of a program is over in which the names of structs are orderly and
\* functions have names, the uniforms are the declared ones, in order, a buffer
\* without a name being its members, and the globals the other named variables.
THEOREM UniformsAlwaysAsDeclared == Spec => []UniformsAsDeclared
<1>1. UniformsInv => UniformsAsDeclared
  <2> SUFFICES ASSUME UniformsInv, Done, Plain(ir)
               PROVE  /\ module.uniforms = DeclaredUniforms(ir)[Len(ir)]
                      /\ module.globals = VariablesAt(ir, GlobalsAt(ir))[Len(ir)]
    BY DEF UniformsAsDeclared, Plain, GlobalsAt
  <2>1. i \in 1..(Len(ir) + 1) /\ Len(ir) \in Nat
    BY ScanPosition DEF UniformsInv, StructsInv, TablesInv
  <2>2. i - 1 = Len(ir)  BY <2>1 DEF Done
  <2>3. QED  BY <2>2 DEF UniformsInv, UniformsRead
<1>2. QED  BY <1>1, UniformsInit, UniformsStep, PTL DEF Spec

-----------------------------------------------------------------------------
(* What spvgentwo and the parser tell of the same type.                     *)

\* An id is of one type: none that the parser knows when it is of another, and
\* of one other at most.
LEMMA OthersAre ==
  ASSUME ir \in Programs, NEW id
  PROVE  /\ \A kind \in OtherTypes : IsKind(id, kind) => ~IsDeclared(ir, id)
         /\ \A kind, kind2 \in OtherTypes : IsKind(id, kind) /\ IsKind(id, kind2) => kind = kind2
<1>1. ASSUME NEW kind \in OtherTypes, IsKind(id, kind)
      PROVE  /\ ~IsDeclared(ir, id)
             /\ \A kind2 \in OtherTypes : IsKind(id, kind2) => kind = kind2
  <2>1. PICK k \in Positions(ir, "Other") : ir[k].kind = kind /\ ir[k].id = id
    BY <1>1 DEF IsKind
  <2>2. \A l \in DOMAIN ir :
          /\ ir[l].op \in TypeOps => ir[l].id # id
          /\ (ir[l].op = "Other" /\ ir[l].kind \in OtherTypes /\ l # k) => ir[l].id # id
    BY <1>1, <2>1, OthersAssumption
  <2>3. ~IsDeclared(ir, id)  BY <2>2 DEF IsDeclared
  <2>4. ASSUME NEW kind2 \in OtherTypes, IsKind(id, kind2) PROVE kind = kind2
    <3>1. PICK l \in Positions(ir, "Other") : ir[l].kind = kind2 /\ ir[l].id = id
      BY <2>4 DEF IsKind
    <3>2. l \in DOMAIN ir /\ ir[l].op = "Other"  BY DEF Positions
    <3>3. l = k  BY <2>2, <2>4, <3>1, <3>2
    <3>4. QED  BY <2>1, <3>1, <3>3
  <2>5. QED  BY <2>3, <2>4
<1>2. QED  BY <1>1

\* The type that is declared, by the instruction that declares it.
LEMMA FieldsTypes ==
  ASSUME NEW a, NEW b, NEW c, NEW d, NEW e
  PROVE  /\ Fields(a, b, c, d, e).type = b /\ Fields(a, b, c, d, e).base = c
         /\ Fields(a, b, c, d, e).comp_count = d
BY DEF Fields

LEMMA DeclaredTypes ==
  ASSUME NEW name, NEW id
  PROVE  LET var == Declared(ir, name, id)
             q == Pointee(ir, id)
             t == ir[TypeAt(ir, q)]
         IN
         IF ~IsDeclared(ir, q) \/ IsPointer(ir, q)
         THEN var.base = "Void" /\ var.type = "Void"
         ELSE /\ t.op \in Scalars => var.base = t.op /\ var.comp_count = 1
              /\ t.op = "TypeStruct" => var.base = "Struct"
              /\ t.op = "TypeMatrix" => var.base = "Matrix" /\ var.comp_count = t.count
              /\ t.op = "TypeVector" => /\ var.base = ir[TypeAt(ir, t.type)].op
                                        /\ var.comp_count = t.count
<1> DEFINE q == Pointee(ir, id)
           t == ir[TypeAt(ir, q)]
<1>1. PICK var : var = Unfilled(name)  OBVIOUS
<1>2. /\ \A a, b : Typed(var, a, b) = Fields(name, a, b, 1, "")
      /\ \A a, b, c, d : Filled(var, a, b, c, d) = Fields(name, a, b, c, d)
  BY <1>1, VariableFields
<1>3. CASE ~IsDeclared(ir, q) \/ IsPointer(ir, q)
  <2>1. Declared(ir, name, id) = Typed(var, "Void", "Void")
    BY <1>1, <1>3 DEF Declared, Typed, Unfilled
  <2> DEFINE void == "Void"
             none == ""
  <2>2. Declared(ir, name, id) = Fields(name, void, void, 1, none)  BY <1>2, <2>1
  <2> HIDE DEF void, none
  <2>3. Declared(ir, name, id).type = void /\ Declared(ir, name, id).base = void
    BY <2>2, FieldsTypes
  <2>4. QED  BY <1>3, <2>3 DEF void
<1>4. CASE IsDeclared(ir, q) /\ ~IsPointer(ir, q)
  <2> DEFINE type == CASE t.op = "TypeStruct" -> "Struct"
                       [] t.op = "TypeVector" -> "Vector"
                       [] t.op = "TypeMatrix" -> "Matrix"
                       [] OTHER -> t.op
             comp == ir[TypeAt(ir, t.type)].op
             base == CASE t.op = "TypeStruct" -> "Struct"
                       [] t.op = "TypeVector" -> comp
                       [] t.op = "TypeMatrix" -> "Matrix"
                       [] OTHER -> t.op
             count == IF t.op \in {"TypeVector", "TypeMatrix"} THEN t.count ELSE 1
             of == IF t.op = "TypeStruct" THEN DeclaredName(ir, t.id) ELSE ""
  <2>1. Declared(ir, name, id) = Filled(var, type, base, count, of)
    BY <1>1, <1>4 DEF Declared, Filled, Unfilled
  <2>2. Declared(ir, name, id) = Fields(name, type, base, count, of)
    <3> HIDE DEF type, base, count, of
    <3>1. QED  BY <1>2, <2>1
  <2>3. Declared(ir, name, id).base = base /\ Declared(ir, name, id).comp_count = count
    <3> HIDE DEF type, base, count, of
    <3>1. QED  BY <2>2, FieldsTypes
  <2> HIDE DEF comp, t
  <2>4. /\ t.op \in Scalars => base = t.op /\ count = 1
        /\ t.op = "TypeStruct" => base = "Struct"
        /\ t.op = "TypeMatrix" => base = "Matrix" /\ count = t.count
        /\ t.op = "TypeVector" => base = comp /\ count = t.count
    BY DEF Scalars
  <2> HIDE DEF base, count
  <2>5. QED  BY <1>4, <2>3, <2>4 DEF comp, t
<1>5. QED  BY <1>3, <1>4

\* Of a type that both know, the two say the same.
LEMMA TypesAgree ==
  ASSUME IsProgram(ir), ir \in Programs, NEW name, NEW id, Known(id)
  PROVE  VarType(Declared(ir, name, id)) = SpvgentwoType(id)
<1> DEFINE var == Declared(ir, name, id)
           q == Pointee(ir, id)
           t == ir[TypeAt(ir, q)]
           comp == ir[TypeAt(ir, t.type)].op
<1>0. /\ \A kind \in OtherTypes : IsKind(q, kind) => ~IsDeclared(ir, q)
      /\ \A kind, kind2 \in OtherTypes : IsKind(q, kind) /\ IsKind(q, kind2) => kind = kind2
  BY OthersAre
<1>1. CASE IsKind(q, "Void")
  <2>1. ~IsDeclared(ir, q) /\ ~IsKind(q, "Array") /\ ~IsKind(q, "SampledImage")
    BY <1>0, <1>1 DEF OtherTypes
  <2>2. SpvgentwoType(id) = <<"Void", 0>>  BY <1>1, <2>1 DEF SpvgentwoType, IsArray
  <2>3. var.base = "Void" /\ var.type = "Void"  BY <2>1, DeclaredTypes
  <2> HIDE DEF var
  <2>4. VarType(var) = <<"Void", 0>>  BY <2>3 DEF VarType
  <2>5. QED  BY <2>2, <2>4 DEF var
<1>2. CASE /\ IsDeclared(ir, q) /\ ~IsPointer(ir, q)
           /\ t.op = "TypeVector" => comp # "Bool"
  <2>1. \A kind \in OtherTypes : ~IsKind(q, kind)  BY <1>0, <1>2
  <2>2. ~IsKind(q, "Array") /\ ~IsKind(q, "SampledImage") /\ ~IsKind(q, "Void")
    BY <2>1 DEF OtherTypes
  <2>3. TypeAt(ir, q) \in DOMAIN ir /\ t.op \in TypeOps /\ t.op # "TypePointer"
    BY <1>2, DeclaredBy DEF IsPointer
  <2>4. t.op = "TypeVector" => comp \in Scalars
    <3> SUFFICES ASSUME t.op = "TypeVector" PROVE comp \in Scalars  OBVIOUS
    <3>1. TypeAt(ir, q) \in Positions(ir, "TypeVector")  BY <2>3 DEF Positions
    <3>2. PICK l \in DOMAIN ir : ir[l].op \in Scalars /\ ir[l].id = t.type
      BY <3>1 DEF IsProgram, WellTyped
    <3>3. TypeAt(ir, t.type) = l  BY <3>2, TypeIs DEF TypeOps
    <3>4. QED  BY <3>2, <3>3
  <2>5. SpvgentwoType(id) =
          CASE t.op \in Scalars -> <<t.op, 1>>
            [] t.op = "TypeStruct" -> <<"Struct", 0>>
            [] t.op = "TypeMatrix" -> <<"Mat", t.count>>
            [] t.op = "TypeVector" /\ comp \in {"Int", "Float"} -> <<comp, t.count>>
            [] OTHER -> <<"Unknown", 0>>
    BY <1>2, <2>2 DEF SpvgentwoType, IsArray
  <2>6. /\ t.op \in Scalars => var.base = t.op /\ var.comp_count = 1
        /\ t.op = "TypeStruct" => var.base = "Struct"
        /\ t.op = "TypeMatrix" => var.base = "Matrix" /\ var.comp_count = t.count
        /\ t.op = "TypeVector" => var.base = comp /\ var.comp_count = t.count
    BY <1>2, DeclaredTypes
  <2> HIDE DEF var, t, comp
  <2>7. VarType(var) = CASE var.base \in {"Int", "Float"} -> <<var.base, var.comp_count>>
                         [] var.base = "Bool" -> <<"Bool", 1>>
                         [] var.base = "Matrix" -> <<"Mat", var.comp_count>>
                         [] var.base = "Struct" -> <<"Struct", 0>>
                         [] OTHER -> VarType(var)
    BY DEF VarType
  <2> DEFINE told == SpvgentwoType(id)
             type == VarType(var)
             base == var.base
             n == var.comp_count
             op == t.op
             count == t.count
  <2>8. /\ told = CASE op \in Scalars -> <<op, 1>>
                    [] op = "TypeStruct" -> <<"Struct", 0>>
                    [] op = "TypeMatrix" -> <<"Mat", count>>
                    [] op = "TypeVector" /\ comp \in {"Int", "Float"} -> <<comp, count>>
                    [] OTHER -> <<"Unknown", 0>>
        /\ type = CASE base \in {"Int", "Float"} -> <<base, n>>
                    [] base = "Bool" -> <<"Bool", 1>>
                    [] base = "Matrix" -> <<"Mat", n>>
                    [] base = "Struct" -> <<"Struct", 0>>
                    [] OTHER -> type
        /\ op \in Scalars => base = op /\ n = 1
        /\ op = "TypeStruct" => base = "Struct"
        /\ op = "TypeMatrix" => base = "Matrix" /\ n = count
        /\ op = "TypeVector" => base = comp /\ n = count
    BY <2>5, <2>6, <2>7
  <2>9. op \in Scalars \cup {"TypeStruct", "TypeMatrix", "TypeVector"}
    BY <2>3 DEF TypeOps, t
  <2>10. op = "TypeVector" => comp \in {"Int", "Float"}
    BY <1>2, <2>4 DEF Scalars, t, comp
  <2> HIDE DEF told, type, base, n, op, count
  <2>11. told = type
    <3>1. CASE op \in Scalars
      <4>1. told = <<op, 1>> /\ base = op /\ n = 1  BY <2>8, <3>1
      <4>2. op \in {"Int", "Float", "Bool"}  BY <3>1 DEF Scalars
      <4>3. type = <<op, 1>>  BY <2>8, <4>1, <4>2
      <4>4. QED  BY <4>1, <4>3
    <3>2. CASE op = "TypeStruct"
      <4>1. op \notin Scalars  BY <3>2 DEF Scalars
      <4>2. QED  BY <2>8, <3>2, <4>1
    <3>3. CASE op = "TypeMatrix"
      <4>1. op \notin Scalars  BY <3>3 DEF Scalars
      <4>2. QED  BY <2>8, <3>3, <4>1
    <3>4. CASE op = "TypeVector"
      <4>1. op \notin Scalars  BY <3>4 DEF Scalars
      <4>2. QED  BY <2>8, <2>10, <3>4, <4>1
    <3>5. QED  BY <2>9, <3>1, <3>2, <3>3, <3>4
  <2>12. QED  BY <2>11 DEF told, type, var
<1>3. QED  BY <1>1, <1>2 DEF Known

\* ParametersAt, unfolded: an instruction at a time.
LEMMA ParametersUnfold ==
  ASSUME IsProgram(ir), NEW at
  PROVE  /\ ParametersAt(at)[0] = <<>>
         /\ \A n \in 1..Len(ir) :
               ParametersAt(at)[n] = IF n \in at
                                       THEN Append(ParametersAt(at)[n - 1], ParameterAt(n))
                                       ELSE ParametersAt(at)[n - 1]
<1> DEFINE N == Len(ir)
           D == {ParameterAt(k) : k \in 1..N}
           next(s, n) == IF n \in at THEN Append(s, ParameterAt(n)) ELSE s
           step == [n \in 1..N |-> [s \in Seq(D) |-> next(s, n)]]
           IsUpTo(f) == f = [n \in 0..N |-> IF n = 0 THEN <<>>
                                            ELSE IF n \in at
                                                 THEN Append(f[n - 1], ParameterAt(n))
                                                 ELSE f[n - 1]]
<1>1. N \in Nat /\ <<>> \in Seq(D)  BY DEF IsProgram
<1>2. \A n \in 1..N : \A s \in Seq(D) : next(s, n) \in Seq(D)
  <2> SUFFICES ASSUME NEW n \in 1..N, NEW s \in Seq(D) PROVE next(s, n) \in Seq(D)  OBVIOUS
  <2>1. ParameterAt(n) \in D  OBVIOUS
  <2> HIDE DEF D
  <2>2. Append(s, ParameterAt(n)) \in Seq(D)  BY <2>1, AppendProperties
  <2>3. QED  BY <2>2
<1>3. step \in [1..N -> [Seq(D) -> Seq(D)]]  BY <1>2
<1>4. PICK f : SolvesRecursion(f, N, Seq(D), <<>>, step)
  <2> HIDE DEF step, N, D
  <2>1. QED  BY <1>1, <1>3, RecursionExists
<1>5. /\ f \in [0..N -> Seq(D)] /\ f[0] = <<>>
      /\ \A n \in 1..N : f[n] = step[n][f[n - 1]]
  BY <1>4 DEF SolvesRecursion
<1>6. ASSUME NEW n \in 1..N PROVE f[n] = next(f[n - 1], n)
  <2>1. n - 1 \in 0..N  BY <1>1
  <2> HIDE DEF next, D
  <2>2. f[n - 1] \in Seq(D)  BY <1>5, <2>1
  <2>3. step[n][f[n - 1]] = next(f[n - 1], n)  BY <2>2
  <2>4. QED  BY <1>5, <2>3
<1>7. IsUpTo(f)
  <2>1. f = [n \in 0..N |-> f[n]]  BY <1>5
  <2>2. ASSUME NEW n \in 0..N
        PROVE  f[n] = IF n = 0 THEN <<>> ELSE IF n \in at THEN Append(f[n - 1], ParameterAt(n))
                                                       ELSE f[n - 1]
    <3>1. CASE n = 0  BY <1>5, <3>1
    <3>2. CASE n # 0
      <4>1. n \in 1..N  BY <1>1, <3>2
      <4>2. QED  BY <1>6, <3>2, <4>1
    <3>3. QED  BY <3>1, <3>2
  <2> HIDE DEF N
  <2>3. QED  BY <2>1, <2>2
<1>8. ParametersAt(at) = CHOOSE g : IsUpTo(g)  BY Zenon DEF ParametersAt
<1>9. IsUpTo(ParametersAt(at))
  <2> HIDE DEF IsUpTo
  <2>1. QED  BY <1>7, <1>8
<1> DEFINE E == ParametersAt(at)
<1> HIDE DEF E
<1>10. IsUpTo(E)  BY <1>9 DEF E
<1>11. E[0] = <<>>  BY <1>1, <1>10
<1>12. \A n \in 1..N : E[n] = IF n \in at THEN Append(E[n - 1], ParameterAt(n)) ELSE E[n - 1]
  <2> SUFFICES ASSUME NEW n \in 1..N
               PROVE  E[n] = IF n \in at THEN Append(E[n - 1], ParameterAt(n)) ELSE E[n - 1]
    OBVIOUS
  <2> HIDE DEF N
  <2>1. n \in 0..N /\ n # 0  BY <1>1
  <2> HIDE DEF IsUpTo
  <2>2. QED  BY <1>10, <2>1 DEF IsUpTo
<1>13. QED  BY <1>11, <1>12 DEF E

\* What the parser keeps of a variable, as GetFunction tells it.
Told(var) == <<var.name, VarType(var)>>
AllTold(s) == [m \in DOMAIN s |-> Told(s[m])]

LEMMA ToldAppend ==
  ASSUME NEW D, NEW s \in Seq(D), NEW var \in D
  PROVE  AllTold(Append(s, var)) = Append(AllTold(s), Told(var))
<1> DEFINE T == {Told(v) : v \in D}
           a == Append(s, var)
           told == AllTold(s)
<1>1. Len(s) \in Nat /\ DOMAIN s = 1..Len(s) /\ \A m \in 1..Len(s) : s[m] \in D
  OBVIOUS
<1>2. a \in Seq(D) /\ DOMAIN a = 1..(Len(s) + 1) /\ a[Len(s) + 1] = var
      /\ \A m \in 1..Len(s) : a[m] = s[m]
  BY AppendProperties
<1>3. told = [m \in 1..Len(s) |-> Told(s[m])]  BY <1>1 DEF AllTold
<1>4. \A m \in 1..Len(s) : Told(s[m]) \in T  BY <1>1
<1> HIDE DEF T
<1>5. told \in Seq(T) /\ Len(told) = Len(s)
  <2>1. told \in [1..Len(s) -> T]  BY <1>3, <1>4
  <2>2. QED  BY <1>1, <2>1
<1>6. Told(var) \in T  BY DEF T
<1> HIDE DEF a, told
<1> DEFINE b == Append(told, Told(var))
<1>7. b \in Seq(T) /\ DOMAIN b = 1..(Len(s) + 1) /\ b[Len(s) + 1] = Told(var)
      /\ \A m \in 1..Len(s) : b[m] = told[m]
  BY <1>5, <1>6, AppendProperties
<1>8. b = [m \in 1..(Len(s) + 1) |-> b[m]]
  <2>1. Len(b) = Len(s) + 1  BY <1>5, <1>6, AppendProperties
  <2> HIDE DEF b
  <2>2. QED  BY <1>7, <2>1
<1> HIDE DEF b
<1>9. ASSUME NEW m \in 1..(Len(s) + 1) PROVE b[m] = Told(a[m])
  <2>1. CASE m = Len(s) + 1  BY <1>2, <1>7, <2>1
  <2>2. CASE m # Len(s) + 1
    <3>1. m \in 1..Len(s)  BY <1>1, <2>2
    <3>2. QED  BY <1>2, <1>3, <1>7, <3>1
  <2>3. QED  BY <2>1, <2>2
<1>10. AllTold(a) = [m \in 1..(Len(s) + 1) |-> Told(a[m])]  BY <1>2 DEF AllTold
<1>11. QED  BY <1>8, <1>9, <1>10 DEF a, b, told

\* Of parameters whose types both know, the two tell the same.
LEMMA ParametersAgree ==
  ASSUME IsProgram(ir), ir \in Programs, NEW at,
         \A k \in at : k \in DOMAIN ir => Known(ir[k].type)
  PROVE  ParametersAt(at)[Len(ir)] = AllTold(VariablesAt(ir, at)[Len(ir)])
<1> DEFINE N == Len(ir)
           D == {DeclaredAt(ir, k) : k \in 1..N}
           S == {n \in 0..N : /\ VariablesAt(ir, at)[n] \in Seq(D)
                              /\ ParametersAt(at)[n] = AllTold(VariablesAt(ir, at)[n])}
<1>1. N \in Nat /\ DOMAIN ir = 1..N  BY PositionsAre
<1>2. 0 \in S
  <2>1. VariablesAt(ir, at)[0] = <<>>  BY VariablesUnfold
  <2>2. ParametersAt(at)[0] = <<>>  BY ParametersUnfold
  <2>3. AllTold(<<>>) = <<>>  BY DEF AllTold
  <2>4. <<>> \in Seq(D) /\ 0 \in 0..N  BY <1>1
  <2> DEFINE v == VariablesAt(ir, at)[0]
  <2>5. v \in Seq(D) /\ ParametersAt(at)[0] = AllTold(v)
    <3> HIDE DEF D
    <3>1. QED  BY <2>1, <2>2, <2>3, <2>4
  <2> HIDE DEF D, v
  <2>6. QED  BY <2>4, <2>5 DEF v
<1>3. ASSUME NEW n \in 1..N, n \in at PROVE Told(DeclaredAt(ir, n)) = ParameterAt(n)
  <2>1. Known(ir[n].type)  BY <1>1, <1>3
  <2>2. DeclaredAt(ir, n).name = DeclaredName(ir, ir[n].id)
    BY DeclaredParts DEF DeclaredAt
  <2>3. VarType(DeclaredAt(ir, n)) = SpvgentwoType(ir[n].type)
    BY <2>1, TypesAgree DEF DeclaredAt
  <2>4. QED  BY <2>2, <2>3 DEF Told, ParameterAt
<1>4. ASSUME NEW n \in 1..N, n - 1 \in S PROVE n \in S
  <2> DEFINE v == VariablesAt(ir, at)[n - 1]
             w == VariablesAt(ir, at)[n]
             x == ParametersAt(at)[n - 1]
             y == ParametersAt(at)[n]
  <2>1. v \in Seq(D) /\ x = AllTold(v)  BY <1>4
  <2>2. w = IF n \in at THEN Append(v, DeclaredAt(ir, n)) ELSE v
    BY VariablesUnfold
  <2>3. y = IF n \in at THEN Append(x, ParameterAt(n)) ELSE x
    BY ParametersUnfold
  <2>4. DeclaredAt(ir, n) \in D  OBVIOUS
  <2> HIDE DEF v, w, x, y, D
  <2>5. CASE n \in at
    <3>1. Append(v, DeclaredAt(ir, n)) \in Seq(D)  BY <2>1, <2>4, AppendProperties
    <3>2. AllTold(Append(v, DeclaredAt(ir, n))) = Append(AllTold(v), Told(DeclaredAt(ir, n)))
      BY <2>1, <2>4, ToldAppend
    <3>3. w \in Seq(D) /\ y = AllTold(w)
      BY <1>3, <2>1, <2>2, <2>3, <2>5, <3>1, <3>2
    <3>4. n \in 0..N  BY <1>1
    <3>5. QED  BY <3>3, <3>4 DEF w, y
  <2>6. CASE n \notin at
    <3>1. w \in Seq(D) /\ y = AllTold(w)  BY <2>1, <2>2, <2>3, <2>6
    <3>2. n \in 0..N  BY <1>1
    <3>3. QED  BY <3>1, <3>2 DEF w, y
  <2>7. QED  BY <2>5, <2>6
<1>5. 0..N \subseteq S
  <2> HIDE DEF S, N
  <2>1. QED  BY <1>1, <1>2, <1>4, BoundedInduction
<1>6. N \in 0..N  BY <1>1
<1> HIDE DEF D
<1>7. QED  BY <1>5, <1>6

-----------------------------------------------------------------------------
(* Functions without a name are filed as well, under the name "".           *)

\* What is read of a function's head: the arguments of its name, and the return
\* type of one that is alone under it.
HeadRead(p, n, f, read) ==
    /\ read.arguments
          = VariablesAt(p, BodyOf(p, f) \cap Positions(p, "FunctionParameter"))[n - 1]
    /\ (f < n /\ SameKey(p, f) = {f}) => read.ret_type = Declared(p, "", p[f].type)
NamelessRead(p, n, functions) ==
    \A f \in Positions(p, "Function") :
        KeyOf(p, f) = "" => HeadRead(p, n, f, FiledAs(functions, ""))

ReadersInv ==
    /\ FunctionsInv
    /\ ir = <<>> \/ ir \in Programs
    /\ NamelessRead(ir, i, module.functions)

\* A step that changes no head of a function without a name.
SameHead ==
    LET before == FiledAs(module.functions, "")
        after  == FiledAs(module'.functions, "")
    IN  after.arguments = before.arguments /\ after.ret_type = before.ret_type

\* An instruction that is no parameter of the name adds no argument.
LEMMA HeadKept ==
  ASSUME NEW p, IsProgram(p), NEW n \in DOMAIN p, NEW f \in Positions(p, "Function"),
         NEW read, NEW read2, HeadRead(p, n, f, read), n # f,
         n \notin BodyOf(p, f) \cap Positions(p, "FunctionParameter"),
         read2.arguments = read.arguments, read2.ret_type = read.ret_type
  PROVE  HeadRead(p, n + 1, f, read2)
<1>1. n \in 1..Len(p) /\ n \in Nat /\ f \in Nat /\ (n + 1) - 1 = n  BY PositionsAre
<1>2. f < n + 1 => f < n  BY <1>1
<1> DEFINE at == BodyOf(p, f) \cap Positions(p, "FunctionParameter")
<1>3. read.arguments = VariablesAt(p, at)[n - 1]  BY DEF HeadRead
<1>4. read2.arguments = VariablesAt(p, at)[(n + 1) - 1]
  <2> HIDE DEF at
  <2>1. VariablesAt(p, at)[n] = VariablesAt(p, at)[n - 1]
    BY <1>1, VariablesUnfold DEF at
  <2>2. QED  BY <1>1, <1>3, <2>1
<1>5. QED  BY <1>2, <1>4 DEF HeadRead

LEMMA NamelessKept ==
  ASSUME ReadersInv, i \in DOMAIN ir, ir[i].op # "Function", SameHead,
         ir[i].op = "FunctionParameter" => curFunc # ""
  PROVE  NamelessRead(ir, i + 1, module'.functions)
<1>0. TypeInv /\ IsProgram(ir) /\ i \in Nat
  BY ScanPosition DEF ReadersInv, FunctionsInv, TablesInv
<1> SUFFICES ASSUME NEW f \in Positions(ir, "Function"), KeyOf(ir, f) = ""
             PROVE  HeadRead(ir, i + 1, f, FiledAs(module'.functions, ""))
  BY DEF NamelessRead
<1>1. HeadRead(ir, i, f, FiledAs(module.functions, ""))  BY DEF ReadersInv, NamelessRead
<1>2. i # f  BY DEF Positions
<1>3. i \notin BodyOf(ir, f) \cap Positions(ir, "FunctionParameter")
  <2> SUFFICES ASSUME i \in BodyOf(ir, f), i \in Positions(ir, "FunctionParameter")
               PROVE  FALSE
    OBVIOUS
  <2>1. PICK g : IsIn(ir, g, i) /\ KeyOf(ir, g) = KeyOf(ir, f)  BY <1>0, BodyIs
  <2>2. KeyOf(ir, g) = curFunc  BY <2>1, HeadIs DEF ReadersInv
  <2>3. QED  BY <2>1, <2>2 DEF Positions
<1>4. QED  BY <1>0, <1>1, <1>2, <1>3, HeadKept DEF SameHead

\* Neither does a step that changes the entry of the current name, if that is a name
\* or the heads in it stay.
LEMMA EntryKeepsHeads ==
  ASSUME TypeInv, NEW func,
         module' = [module EXCEPT !.functions = [@ EXCEPT ![curFunc] = func]],
         \/ curFunc # ""
         \/ module.functions[curFunc] \in Functions =>
                /\ func.arguments = module.functions[curFunc].arguments
                /\ func.ret_type = module.functions[curFunc].ret_type
  PROVE  SameHead
<1>1. /\ DOMAIN module'.functions = DOMAIN module.functions
      /\ \A k \in DOMAIN module.functions :
            k # curFunc => module'.functions[k] = module.functions[k]
      /\ curFunc \in DOMAIN module.functions => module'.functions[curFunc] = func
  BY EntryChanged DEF TypeInv
<1> DEFINE fs == module.functions
           gs == module'.functions
<1>2. \A k \in DOMAIN fs : fs[k] \in Functions  BY DEF TypeInv, TypeOK
<1>3. /\ "" \in DOMAIN fs => FiledAs(fs, "") = fs[""]
      /\ "" \in DOMAIN gs => FiledAs(gs, "") = gs[""]
      /\ "" \notin DOMAIN fs => FiledAs(fs, "") = NewFunction
      /\ "" \notin DOMAIN gs => FiledAs(gs, "") = NewFunction
  BY DEF FiledAs, At
<1> DEFINE void == ""
<1> HIDE DEF fs, gs, void
<1>4. CASE void \notin DOMAIN fs
  <2>1. FiledAs(gs, void) = FiledAs(fs, void)  BY <1>1, <1>3, <1>4 DEF fs, gs, void
  <2>2. QED  BY <2>1 DEF SameHead, fs, gs, void
<1>5. CASE void \in DOMAIN fs /\ curFunc # void
  <2>1. gs[void] = fs[void] /\ void \in DOMAIN gs  BY <1>1, <1>5 DEF fs, gs
  <2>2. FiledAs(gs, void) = FiledAs(fs, void)  BY <1>3, <1>5, <2>1 DEF void
  <2>3. QED  BY <2>2 DEF SameHead, fs, gs, void
<1>6. CASE void \in DOMAIN fs /\ curFunc = void
  <2>1. gs[void] = func /\ void \in DOMAIN gs  BY <1>1, <1>6 DEF fs, gs
  <2>2. fs[void] \in Functions  BY <1>2, <1>6
  <2>3. func.arguments = fs[void].arguments /\ func.ret_type = fs[void].ret_type
    BY <1>6, <2>2 DEF fs, void
  <2>4. FiledAs(gs, void) = func /\ FiledAs(fs, void) = fs[void]
    BY <1>3, <1>6, <2>1 DEF void
  <2>5. FiledAs(gs, void).arguments = FiledAs(fs, void).arguments
        /\ FiledAs(gs, void).ret_type = FiledAs(fs, void).ret_type
    BY <2>3, <2>4
  <2>6. QED  BY <2>5 DEF SameHead, fs, gs, void
<1>7. QED  BY <1>4, <1>5, <1>6

\* The end of a function, a line and a local leave the heads as they are.
LEMMA HeadsStay ==
  ASSUME TypeInv, OpFunctionEnd \/ OpLine \/ OpVariable
  PROVE  SameHead
<1>0. Shape  BY DEF TypeInv
<1>1. CASE module'.functions = module.functions  BY <1>1 DEF SameHead
<1>2. CASE OpFunctionEnd
  <2> DEFINE read == module.functions[curFunc]
             func == [read EXCEPT !.line_end = lastOpLine]
  <2>1. module' = [module EXCEPT !.functions = [@ EXCEPT ![curFunc] = func]]
    BY <1>2 DEF OpFunctionEnd
  <2>2. read \in Functions => func.arguments = read.arguments /\ func.ret_type = read.ret_type
    <3> HIDE DEF read
    <3>1. QED  BY FieldChanges
  <2> HIDE DEF func
  <2>3. QED  BY <2>1, <2>2, EntryKeepsHeads
<1>3. CASE OpLine
  <2> DEFINE func == [module.functions[curFunc] EXCEPT !.line_start = ir[i].line]
  <2>1. \/ module' = module
        \/ curFunc # "" /\ module' = [module EXCEPT !.functions = [@ EXCEPT ![curFunc] = func]]
    BY <1>3 DEF OpLine
  <2> HIDE DEF func
  <2>2. QED  BY <1>1, <2>1, EntryKeepsHeads
<1>4. CASE OpVariable
  <2> DEFINE var == Named(NameOf(ir[i].id), ir[i].type)
             func == [module.functions[curFunc] EXCEPT !.locals = Append(@, var)]
             unis == module.uniforms \o UniformsOf(var)
             globs == Append(module.globals, var)
  <2>1. CASE curFunc # ""
    <3>1. module' = [module EXCEPT !.functions = [@ EXCEPT ![curFunc] = func]]
      BY <1>4, <2>1 DEF OpVariable
    <3> HIDE DEF func
    <3>2. QED  BY <2>1, <3>1, EntryKeepsHeads
  <2>2. CASE curFunc = ""
    <3>1. \/ module' = [module EXCEPT !.uniforms = unis]
          \/ module' = [module EXCEPT !.globals = globs]
          \/ module' = module
      BY <1>4, <2>2 DEF OpVariable
    <3> HIDE DEF unis, globs
    <3>2. module'.functions = module.functions  BY <1>0, <3>1 DEF Shape
    <3>3. QED  BY <1>1, <3>2
  <2>3. QED  BY <2>1, <2>2
<1>5. QED  BY <1>2, <1>3, <1>4

\* A parameter of a function without a name is added to the arguments.
LEMMA ParameterAdds ==
  ASSUME ReadersInv, OpFunctionParameter
  PROVE  NamelessRead(ir, i + 1, module'.functions)
<1>0. /\ TypeInv /\ TablesInv /\ Shape /\ IsProgram(ir) /\ i \in Nat
      /\ FunctionsRead(ir, i, module.functions)
  BY ScanPosition DEF ReadersInv, FunctionsInv, TablesInv, TypeInv
<1>1. i \in DOMAIN ir /\ i \in 1..Len(ir) /\ ir[i].op = "FunctionParameter"
      /\ i \in Positions(ir, "FunctionParameter")
  BY <1>0, NextInstruction DEF OpFunctionParameter
<1> DEFINE read == module.functions[curFunc]
           var == Named(NameOf(ir[i].id), ir[i].type)
           args == Append(read.arguments, var)
           func == [read EXCEPT !.arguments = args]
<1>2. module' = [module EXCEPT !.functions = [@ EXCEPT ![curFunc] = func]]
  BY DEF OpFunctionParameter
<1>3. var = DeclaredAt(ir, i)  BY <1>0, <1>1, VariableRead
<1>4. (i + 1) - 1 = i /\ \A f \in Nat : (f # i /\ f < i + 1) => f < i
  BY <1>0
<1>5. CASE curFunc # ""
  <2> HIDE DEF func
  <2>1. SameHead  BY <1>0, <1>2, <1>5, EntryKeepsHeads
  <2>2. QED  BY <1>1, <1>5, <2>1, NamelessKept
<1>6. CASE curFunc = ""
  <2> SUFFICES ASSUME NEW f \in Positions(ir, "Function"), KeyOf(ir, f) = ""
               PROVE  HeadRead(ir, i + 1, f, FiledAs(module'.functions, ""))
    BY DEF NamelessRead
  <2>1. PICK g : IsIn(ir, g, i)  BY <1>0, <1>1, EndsAndParameters
  <2>2. KeyOf(ir, g) = curFunc  BY <2>1, HeadIs DEF ReadersInv
  <2>3. curFunc \in DOMAIN module.functions  BY <1>0, <2>1, <2>2 DEF FunctionsRead, IsIn
  <2>4. read \in Functions  BY <1>0, <2>3 DEF TypeInv, TypeOK
  <2>5. FiledAs(module.functions, "") = read  BY <1>6, <2>3 DEF FiledAs, At
  <2>6. FiledAs(module'.functions, "") = func
    <3>1. DOMAIN module'.functions = DOMAIN module.functions
          /\ (curFunc \in DOMAIN module.functions => module'.functions[curFunc] = func)
      <4> HIDE DEF func
      <4>1. QED  BY <1>0, <1>2, EntryChanged
    <3> HIDE DEF func
    <3>2. QED  BY <1>6, <2>3, <3>1 DEF FiledAs, At
  <2>7. func.arguments = args /\ func.ret_type = read.ret_type
    <3> HIDE DEF args, read
    <3>1. QED  BY <2>4, FieldChanges
  <2>8. i \in BodyOf(ir, f)
    <3>1. i # EndOf(ir, g)
      <4>1. EndOf(ir, g) \in Positions(ir, "FunctionEnd")  BY <1>0, <2>1, EndIs DEF IsIn
      <4>2. QED  BY <1>1, <4>1 DEF Positions
    <3>2. KeyOf(ir, g) = KeyOf(ir, f)  BY <1>6, <2>2
    <3>3. QED  BY <1>0, <2>1, <3>1, <3>2, BodyIs
  <2> DEFINE at == BodyOf(ir, f) \cap Positions(ir, "FunctionParameter")
  <2>9. HeadRead(ir, i, f, read)
    <3> HIDE DEF read
    <3>1. QED  BY <2>5 DEF ReadersInv, NamelessRead
  <2>10. read.arguments = VariablesAt(ir, at)[i - 1]  BY <2>9 DEF HeadRead
  <2>11. VariablesAt(ir, at)[i] = Append(VariablesAt(ir, at)[i - 1], DeclaredAt(ir, i))
    <3>1. i \in at  BY <1>1, <2>8
    <3> HIDE DEF at
    <3>2. QED  BY <1>0, <1>1, <3>1, VariablesUnfold
  <2>12. func.arguments = VariablesAt(ir, at)[i]
    <3> HIDE DEF at, read, func, var
    <3>1. QED  BY <1>3, <2>7, <2>10, <2>11
  <2>13. (i + 1) - 1 = i /\ (f < i + 1 => f < i)
    <3>1. f \in Nat  BY <1>0, PositionsAre
    <3>2. i # f  BY <1>1 DEF Positions
    <3>3. QED  BY <1>4, <3>1, <3>2, Zenon
  <2> HIDE DEF func, read, args
  <2>14. HeadRead(ir, i + 1, f, func)
    BY <2>7, <2>9, <2>12, <2>13 DEF HeadRead
  <2>15. QED  BY <2>6, <2>14
<1>7. QED  BY <1>5, <1>6

\* So is a function without a name, when it starts.
LEMMA NamelessStarts ==
  ASSUME ReadersInv, OpFunction
  PROVE  NamelessRead(ir, i + 1, module'.functions)
<1> DEFINE key == KeyOf(ir, i)
           func == FiledAs(module.functions, key)
           count == Cardinality(DOMAIN module.functions \cup {key}) - 1
           made == Made(func, ir[i].type, count)
           fs == Put(module.functions, key, made)
<1>0. /\ FunctionsInv /\ TablesInv /\ TypeInv /\ IsProgram(ir) /\ Shape
      /\ FunctionsRead(ir, i, module.functions)
  BY ScanPosition DEF ReadersInv, FunctionsInv, TablesInv, TypeInv
<1>1. i \in DOMAIN ir /\ ir[i].op = "Function" /\ i \in Positions(ir, "Function") /\ i \in Nat
  BY <1>0, NextInstruction, ScanPosition DEF OpFunction
<1>2. NameOf(ir[i].id) = DeclaredName(ir, ir[i].id)
  <2>1. ir[i].op \in TypeOps \cup OfAType  BY <1>1 DEF OfAType
  <2>2. \A k \in Positions(ir, "Name") : k < i  BY <1>0, <1>1, <2>1, NamesFirst
  <2>3. QED  BY <1>0, <2>2, NameKnown
<1>3. module' = [module EXCEPT !.functions = fs]
  BY <1>2 DEF OpFunction, KeyOf, Made, FiledAs
<1>4. module'.functions = fs
  <2> HIDE DEF fs
  <2>1. QED  BY <1>0, <1>3 DEF Shape
<1>5. FiledAs(fs, key) = made /\ (key # "" => FiledAs(fs, "") = FiledAs(module.functions, ""))
  <2> HIDE DEF made, key
  <2>1. QED  BY DEF Put, FiledAs, At
<1>6. func \in Functions
  BY <1>0, NewTypes DEF FiledAs, At, TypeInv, TypeOK
<1>7. made.arguments = func.arguments
  <2> HIDE DEF func
  <2>1. QED  BY <1>6, MadeFields
<1>8. /\ (i + 1) - 1 = i
      /\ \A at : i \notin at => VariablesAt(ir, at)[i] = VariablesAt(ir, at)[i - 1]
  <2>1. i \in 1..Len(ir)  BY <1>0, <1>1, ScanPosition
  <2>2. QED  BY <1>0, <1>1, <2>1, VariablesUnfold
<1> HIDE DEF fs
<1> SUFFICES ASSUME NEW f \in Positions(ir, "Function"), KeyOf(ir, f) = ""
             PROVE  HeadRead(ir, i + 1, f, FiledAs(fs, ""))
  BY <1>4 DEF NamelessRead
<1>9. HeadRead(ir, i, f, FiledAs(module.functions, ""))  BY DEF ReadersInv, NamelessRead
<1>10. i \notin Positions(ir, "FunctionParameter")  BY <1>1 DEF Positions
<1>11. CASE key # ""
  <2>1. i # f  BY <1>11
  <2>2. QED  BY <1>0, <1>1, <1>5, <1>9, <1>10, <1>11, <2>1, HeadKept
<1>12. CASE key = ""
  <2> DEFINE at == BodyOf(ir, f) \cap Positions(ir, "FunctionParameter")
  <2>1. VariablesAt(ir, at)[i] = VariablesAt(ir, at)[i - 1]
    <3>1. i \notin at  BY <1>10
    <3> HIDE DEF at
    <3>2. QED  BY <1>8, <3>1, Zenon
  <2>2. func.arguments = VariablesAt(ir, at)[i - 1]  BY <1>9, <1>12 DEF HeadRead
  <2>3. made.arguments = VariablesAt(ir, at)[i] /\ (i + 1) - 1 = i
    <3> HIDE DEF made, func, at
    <3>1. QED  BY <1>7, <1>8, <2>1, <2>2, Zenon
  <2>4. ASSUME SameKey(ir, f) = {f} PROVE made.ret_type = Declared(ir, "", ir[f].type)
    <3>1. i = f  BY <1>1, <1>12, <2>4 DEF SameKey
    <3>2. SameKey(ir, i) = {i}  BY <2>4, <3>1
    <3>3. FunctionsInv /\ i \in Positions(ir, "Function")  BY <1>0, <1>1
    <3>4. OwnRead(ir, i + 1, i, made)  BY <3>2, <3>3, FirstOfName
    <3>5. QED  BY <3>1, <3>4 DEF OwnRead
  <2> HIDE DEF made
  <2>5. HeadRead(ir, i + 1, f, made)  BY <2>3, <2>4 DEF HeadRead
  <2>6. QED  BY <1>5, <1>12, <2>5
<1>13. QED  BY <1>11, <1>12

LEMMA ReadersNone ==
  ASSUME NEW p, IsProgram(p)
  PROVE  NamelessRead(p, 1, Empty)
<1>1. \A f \in Positions(p, "Function") : ~(f < 1)
  <2>1. DOMAIN p = 1..Len(p) /\ Positions(p, "Function") \subseteq DOMAIN p  BY PositionsAre
  <2>2. QED  BY <2>1
<1>2. DOMAIN Empty = {}  BY DEF Empty
<1>3. FiledAs(Empty, "") = NewFunction  BY <1>2 DEF FiledAs, At
<1>4. NewFunction.arguments = <<>>  BY DEF NewFunction
<1>5. \A at : VariablesAt(p, at)[1 - 1] = <<>>
  <2>1. \A at : VariablesAt(p, at)[0] = <<>>  BY VariablesUnfold
  <2>2. 1 - 1 = 0  OBVIOUS
  <2>3. QED  BY <2>1, <2>2
<1>6. QED  BY <1>1, <1>3, <1>4, <1>5 DEF NamelessRead, HeadRead

LEMMA ReadersInit == Init => ReadersInv
<1> SUFFICES ASSUME Init PROVE ReadersInv  OBVIOUS
<1>1. ir = <<>> /\ i = 1 /\ module.functions = Empty  BY DEF Init, Cleared
<1>2. QED  BY <1>1, FunctionsInit, ReadersNone, ProgramsArePrograms DEF ReadersInv

LEMMA ReadersStep == ReadersInv /\ [Next]_vars => ReadersInv'
<1> SUFFICES ASSUME ReadersInv, [Next]_vars PROVE ReadersInv'  OBVIOUS
<1>0. FunctionsInv /\ FunctionsInv' /\ TypeInv /\ (ir = <<>> \/ ir \in Programs)
      /\ NamelessRead(ir, i, module.functions)
  BY FunctionsStep DEF ReadersInv, FunctionsInv, TablesInv
<1>1. CASE UNCHANGED vars
  <2>1. ir' = ir /\ i' = i /\ module' = module  BY <1>1 DEF vars
  <2>2. QED  BY <1>0, <2>1 DEF ReadersInv
<1>2. ASSUME i' = i + 1, ir' = ir, NamelessRead(ir, i + 1, module'.functions)
      PROVE  ReadersInv'
  BY <1>0, <1>2 DEF ReadersInv
<1>3. ASSUME NEW p \in Programs, Parse(p) PROVE ReadersInv'
  <2>1. ir' = p /\ i' = 1 /\ module'.functions = Empty  BY <1>3 DEF Parse, Cleared
  <2>2. QED  BY <1>0, <2>1, ReadersNone, ProgramsArePrograms DEF ReadersInv
<1>4. CASE OpFunction
  <2>1. i' = i + 1 /\ ir' = ir  BY <1>0, <1>4, NextInstruction DEF OpFunction
  <2>2. QED  BY <1>2, <1>4, <2>1, NamelessStarts
<1>5. CASE OpFunctionParameter
  <2>1. i' = i + 1 /\ ir' = ir  BY <1>0, <1>5, NextInstruction DEF OpFunctionParameter
  <2>2. QED  BY <1>2, <1>5, <2>1, ParameterAdds
<1>6. CASE OpFunctionEnd \/ OpLine \/ OpVariable
  <2>1. SameHead  BY <1>0, <1>6, HeadsStay
  <2>2. PICK op \in {"FunctionEnd", "Line", "Variable"} : Reads(op)
    BY <1>6 DEF OpFunctionEnd, OpLine, OpVariable
  <2>3. i \in DOMAIN ir /\ ir[i].op = op /\ i' = i + 1 /\ ir' = ir
    BY <1>0, <2>2, NextInstruction
  <2>4. NamelessRead(ir, i + 1, module'.functions)  BY <2>1, <2>3, NamelessKept
  <2>5. QED  BY <1>2, <2>3, <2>4
<1>7. CASE /\ Scan /\ ~OpFunction /\ ~OpFunctionEnd /\ ~OpLine
           /\ ~OpVariable /\ ~OpFunctionParameter
  <2>1. module'.functions = module.functions
    BY <1>0, <1>7 DEF TypeInv, Scan, Shape, OpName, OpTypeStruct, OpMemberName, OpTypePointer,
              OpTypeScalar, OpTypeVector, OpTypeMatrix, OpExecutionMode, OpBarrier, Count, Skip
  <2>2. SameHead  BY <2>1 DEF SameHead
  <2>3. PICK op : Reads(op) /\ op \notin {"Function", "FunctionParameter"}
    BY <1>7 DEF Scan, OpName, OpTypeStruct, OpMemberName, OpTypePointer, OpTypeScalar,
           OpTypeVector, OpTypeMatrix, OpExecutionMode, OpBarrier, Count, Skip, Scalars, Counters
  <2>4. i \in DOMAIN ir /\ ir[i].op = op /\ ir' = ir  BY <1>0, <2>3, NextInstruction
  <2>5. UNCHANGED vars \/ i' = i + 1  BY <1>0, <1>7, OthersRead DEF FunctionsGoOn
  <2>6. NamelessRead(ir, i + 1, module'.functions)  BY <2>2, <2>3, <2>4, NamelessKept
  <2>7. QED  BY <1>1, <1>2, <2>4, <2>5, <2>6
<1>8. QED  BY <1>1, <1>3, <1>4, <1>5, <1>6, <1>7 DEF Next

-----------------------------------------------------------------------------
\* GetFunction finds a function if there is one of the name, and tells of the one
\* that is alone under it.
LEMMA FoundIs ==
  ASSUME NEW name
  PROVE  GetFunction(name).found <=> \E f \in Positions(ir, "Function") : KeyOf(ir, f) = name
<1> DEFINE at == {f \in Positions(ir, "Function") : IsAsked(f, name)}
           first == CHOOSE g \in at : \A h \in at : g <= h
           ret == SpvgentwoType(ir[first].type)
           args == ParametersAt(ParametersOf(first))[Len(ir)]
<1>1. GetFunction(name) = IF at = {} THEN NoFunction
                          ELSE [found |-> TRUE, ret_type |-> ret, arguments |-> args]
  BY DEF GetFunction
<1>2. at = {} <=> ~\E f \in Positions(ir, "Function") : KeyOf(ir, f) = name
  BY DEF IsAsked, FunctionName, KeyOf, Trimmed
<1> HIDE DEF at, ret, args
<1>3. CASE at = {}  BY <1>1, <1>2, <1>3 DEF NoFunction
<1>4. CASE at # {}  BY <1>1, <1>2, <1>4
<1>5. QED  BY <1>3, <1>4

LEMMA ToldIs ==
  ASSUME IsProgram(ir), NEW f \in Positions(ir, "Function"), SameKey(ir, f) = {f}
  PROVE  /\ GetFunction(KeyOf(ir, f)).ret_type = SpvgentwoType(ir[f].type)
         /\ GetFunction(KeyOf(ir, f)).arguments = ParametersAt(ParametersOf(f))[Len(ir)]
<1> DEFINE name == KeyOf(ir, f)
           at == {g \in Positions(ir, "Function") : IsAsked(g, name)}
           first == CHOOSE g \in at : \A h \in at : g <= h
           ret(g) == SpvgentwoType(ir[g].type)
           args(g) == ParametersAt(ParametersOf(g))[Len(ir)]
<1>1. GetFunction(name) = IF at = {} THEN NoFunction
                          ELSE [found |-> TRUE, ret_type |-> ret(first), arguments |-> args(first)]
  BY DEF GetFunction
<1>2. at = {f}  BY DEF IsAsked, SameKey, FunctionName, KeyOf, Trimmed
<1>3. f \in Nat  BY PositionsAre
<1>4. first = f
  <2> HIDE DEF at
  <2>1. f \in at /\ \A h \in at : f <= h  BY <1>2, <1>3
  <2>2. first \in at  BY <2>1
  <2>3. QED  BY <1>2, <2>2
<1> HIDE DEF at, first, ret, args
<1>5. GetFunction(name) = [found |-> TRUE, ret_type |-> ret(f), arguments |-> args(f)]
  BY <1>1, <1>2, <1>4
<1> HIDE DEF name
<1>6. GetFunction(name).ret_type = ret(f) /\ GetFunction(name).arguments = args(f)
  BY <1>5
<1>7. QED  BY <1>6 DEF name, ret, args

\* What the parser has, when the scan is over, of a function that is alone.
LEMMA HeadAtEnd ==
  ASSUME ReadersInv, Done, NEW f \in Positions(ir, "Function"), SameKey(ir, f) = {f}
  PROVE  /\ module.functions[KeyOf(ir, f)].ret_type = Declared(ir, "", ir[f].type)
         /\ module.functions[KeyOf(ir, f)].arguments
               = VariablesAt(ir, ParametersOf(f))[Len(ir)]
<1> DEFINE key == KeyOf(ir, f)
           read == module.functions[key]
           at == BodyOf(ir, f) \cap Positions(ir, "FunctionParameter")
<1>0. /\ FunctionsInv /\ TypeInv /\ IsProgram(ir)
      /\ FunctionsRead(ir, i, module.functions) /\ NamelessRead(ir, i, module.functions)
  BY ScanPosition DEF ReadersInv, FunctionsInv, TablesInv
<1>1. i - 1 = Len(ir) /\ f < i
  <2>1. i \in 1..(Len(ir) + 1) /\ Len(ir) \in Nat /\ DOMAIN ir = 1..Len(ir)
    BY <1>0, ScanPosition
  <2>2. f \in 1..Len(ir)  BY <1>0, <2>1, PositionsAre
  <2>3. QED  BY <2>1, <2>2 DEF Done
<1>2. FiledAs(module.functions, key) = read
  <2>1. key \in DOMAIN module.functions  BY <1>0, <1>1 DEF FunctionsRead
  <2>2. QED  BY <2>1 DEF FiledAs, At
<1>3. HeadRead(ir, i, f, read)
  <2> HIDE DEF read
  <2>1. CASE key = ""  BY <1>0, <1>2, <2>1 DEF NamelessRead
  <2>2. CASE key # ""
    <3>1. FunctionRead(ir, i, f, read)  BY <1>0, <1>2, <2>2 DEF FunctionsRead
    <3>2. QED  BY <3>1 DEF FunctionRead, ListsRead, OwnRead, HeadRead
  <2>3. QED  BY <2>1, <2>2
<1>4. at = ParametersOf(f)
  <2>1. Positions(ir, "FunctionParameter") \subseteq Nat  BY <1>0, PositionsAre
  <2>2. \A k \in Nat : k \in BodyOf(ir, f) <=> f < k /\ k < EndOf(ir, f)
    BY <1>0, OwnBody
  <2>3. QED  BY <2>1, <2>2 DEF ParametersOf
<1> HIDE DEF key, read
<1>5. read.ret_type = Declared(ir, "", ir[f].type)  BY <1>1, <1>3 DEF HeadRead
<1>6. read.arguments = VariablesAt(ir, at)[i - 1]  BY <1>3 DEF HeadRead
<1> HIDE DEF at
<1>7. read.arguments = VariablesAt(ir, ParametersOf(f))[Len(ir)]
  BY <1>1, <1>4, <1>6
<1>8. QED  BY <1>5, <1>7 DEF read, key

\* Whatever was parsed before, GetFunction finds the functions that the parser has
\* filed, and tells of one that is alone under its name what the parser keeps of it:
\* the same return type and the same arguments, if both know their types.
THEOREM FunctionReadersAlwaysAgree == Spec => []FunctionReadersAgree
<1>1. ReadersInv => FunctionReadersAgree
  <2> SUFFICES ASSUME ReadersInv, Done, ir # <<>>
               PROVE  FunctionReadersAgree
    BY DEF FunctionReadersAgree
  <2> DEFINE heads == Positions(ir, "Function")
             ids(f) == {ir[f].type} \cup {ir[k].type : k \in ParametersOf(f)}
             read(f) == module.functions[KeyOf(ir, f)]
             told(f) == GetFunction(KeyOf(ir, f))
  <2>1. ir \in Programs /\ IsProgram(ir) /\ FunctionsRead(ir, i, module.functions)
    BY ScanPosition DEF ReadersInv, FunctionsInv, TablesInv
  <2>2. DOMAIN module.functions = {KeyOf(ir, f) : f \in heads}
    <3>1. i \in 1..(Len(ir) + 1) /\ Len(ir) \in Nat /\ DOMAIN ir = 1..Len(ir)
      BY ScanPosition DEF ReadersInv, FunctionsInv, TablesInv
    <3>2. heads \subseteq 1..Len(ir)  BY <2>1, <3>1, PositionsAre
    <3>3. \A f \in heads : f < i  BY <3>1, <3>2 DEF Done
    <3>4. QED  BY <2>1, <3>3 DEF FunctionsRead
  <2>3. ASSUME NEW q PROVE GetFunction(q).found <=> q \in DOMAIN module.functions
    BY <2>2, FoundIs
  <2>4. ASSUME NEW f \in heads, \A g \in heads \ {f} : KeyOf(ir, g) # KeyOf(ir, f),
               \A id \in ids(f) : Known(id)
        PROVE  /\ told(f).ret_type = VarType(read(f).ret_type)
               /\ told(f).arguments = [n \in DOMAIN read(f).arguments |->
                    <<read(f).arguments[n].name, VarType(read(f).arguments[n])>>]
    <3>1. SameKey(ir, f) = {f}  BY <2>4 DEF SameKey
    <3>2. /\ told(f).ret_type = SpvgentwoType(ir[f].type)
          /\ told(f).arguments = ParametersAt(ParametersOf(f))[Len(ir)]
      BY <2>1, <3>1, ToldIs
    <3>3. /\ read(f).ret_type = Declared(ir, "", ir[f].type)
          /\ read(f).arguments = VariablesAt(ir, ParametersOf(f))[Len(ir)]
      BY <3>1, HeadAtEnd
    <3>4. VarType(Declared(ir, "", ir[f].type)) = SpvgentwoType(ir[f].type)
      <4>1. Known(ir[f].type)  BY <2>4
      <4>2. \A name : VarType(Declared(ir, name, ir[f].type)) = SpvgentwoType(ir[f].type)
        BY <2>1, <4>1, TypesAgree
      <4>3. QED  BY <4>2
    <3>5. ParametersAt(ParametersOf(f))[Len(ir)]
             = AllTold(VariablesAt(ir, ParametersOf(f))[Len(ir)])
      <4>1. \A k \in ParametersOf(f) : Known(ir[k].type)  BY <2>4
      <4>2. QED  BY <2>1, <4>1, ParametersAgree
    <3>6. told(f).ret_type = VarType(read(f).ret_type)  BY <3>2, <3>3, <3>4
    <3> HIDE DEF told, read
    <3>7. told(f).arguments = AllTold(read(f).arguments)  BY <3>2, <3>3, <3>5
    <3>8. QED  BY <3>6, <3>7 DEF AllTold, Told
  <2> HIDE DEF told, read, ids
  <2>5. QED  BY <2>3, <2>4 DEF FunctionReadersAgree, told, read, ids
<1>2. QED  BY <1>1, ReadersInit, ReadersStep, PTL DEF Spec

-----------------------------------------------------------------------------
\* Joined sequences, one after another.
LEMMA JoinedUnfold ==
  ASSUME NEW S, NEW parts \in Seq(Seq(S))
  PROVE  /\ JoinedUpTo(parts)[0] = <<>>
         /\ \A n \in 1..Len(parts) :
               JoinedUpTo(parts)[n] = JoinedUpTo(parts)[n - 1] \o parts[n]
         /\ \A n \in 0..Len(parts) : JoinedUpTo(parts)[n] \in Seq(S)
<1> DEFINE N == Len(parts)
           V == Seq(S)
           step == [n \in 1..N |-> [s \in V |-> s \o parts[n]]]
           value(f, n) == IF n = 0 THEN <<>> ELSE f[n - 1] \o parts[n]
           IsUpTo(f) == f = [n \in 0..N |-> value(f, n)]
<1>1. N \in Nat /\ \A n \in 1..N : parts[n] \in V  OBVIOUS
<1>2. <<>> \in V  BY EmptySeq
<1>3. \A n \in 1..N : \A s \in V : s \o parts[n] \in V
  <2> SUFFICES ASSUME NEW n \in 1..N, NEW s \in V PROVE s \o parts[n] \in V  OBVIOUS
  <2>1. parts[n] \in Seq(S)  BY <1>1
  <2>2. QED  BY <2>1, ConcatProperties
<1>4. step \in [1..N -> [V -> V]]
  <2> HIDE DEF V
  <2>1. QED  BY <1>3
<1>5. PICK f : SolvesRecursion(f, N, V, <<>>, step)
  <2> HIDE DEF step, N, V
  <2>1. QED  BY <1>1, <1>2, <1>4, RecursionExists
<1>6. f \in [0..N -> V] /\ f[0] = <<>> /\ \A n \in 1..N : f[n] = step[n][f[n - 1]]
  BY <1>5 DEF SolvesRecursion
<1>7. ASSUME NEW n \in 0..N PROVE f[n] = value(f, n)
  <2>1. CASE n = 0  BY <1>6, <2>1
  <2>2. CASE n # 0
    <3>1. n \in 1..N /\ n - 1 \in 0..N  BY <1>1, <2>2
    <3> HIDE DEF N, V
    <3>2. f[n - 1] \in V  BY <1>6, <3>1
    <3>3. step[n][f[n - 1]] = f[n - 1] \o parts[n]  BY <3>1, <3>2
    <3> HIDE DEF step
    <3>4. f[n] = f[n - 1] \o parts[n]  BY <1>6, <3>1, <3>3
    <3>5. QED  BY <2>2, <3>4
  <2>3. QED  BY <2>1, <2>2
<1>8. IsUpTo(f)
  <2>1. f = [n \in 0..N |-> f[n]]  BY <1>6
  <2> HIDE DEF N, value
  <2>2. QED  BY <1>7, <2>1
<1>9. JoinedUpTo(parts) = CHOOSE g : IsUpTo(g)  BY Zenon DEF JoinedUpTo
<1>10. IsUpTo(JoinedUpTo(parts))
  <2> HIDE DEF IsUpTo
  <2>1. QED  BY <1>8, <1>9
<1> DEFINE J == JoinedUpTo(parts)
<1> HIDE DEF J
<1>11. IsUpTo(J)  BY <1>10 DEF J
<1>12. \A n \in 0..N : J[n] = value(J, n)
  <2> SUFFICES ASSUME NEW n \in 0..N PROVE J[n] = value(J, n)  OBVIOUS
  <2> HIDE DEF IsUpTo, value
  <2>1. QED  BY <1>11 DEF IsUpTo
<1>13. J[0] = <<>>  BY <1>1, <1>12
<1>14. \A n \in 1..N : J[n] = J[n - 1] \o parts[n]
  <2> SUFFICES ASSUME NEW n \in 1..N PROVE J[n] = J[n - 1] \o parts[n]  OBVIOUS
  <2>1. n \in 0..N /\ n # 0  BY <1>1
  <2>2. J[n] = value(J, n)  BY <1>12, <2>1
  <2>3. QED  BY <2>1, <2>2
<1>15. 0..N \subseteq {n \in 0..N : J[n] \in V}
  <2> DEFINE T == {n \in 0..N : J[n] \in V}
  <2>1. 0 \in T
    <3>1. 0 \in 0..N  BY <1>1
    <3> HIDE DEF N, V
    <3>2. J[0] \in V  BY <1>2, <1>13
    <3>3. QED  BY <3>1, <3>2
  <2>2. ASSUME NEW n \in 1..N, n - 1 \in T PROVE n \in T
    <3>1. J[n - 1] \in V /\ n \in 0..N  BY <1>1, <2>2
    <3>2. J[n - 1] \o parts[n] \in V  BY <1>3, <3>1
    <3>3. QED  BY <1>14, <3>1, <3>2
  <2> HIDE DEF T, N
  <2>3. QED  BY <1>1, <2>1, <2>2, BoundedInduction DEF T
<1>16. QED  BY <1>13, <1>14, <1>15 DEF J

-----------------------------------------------------------------------------
\* The lists that are reported.
VarTypes == {ParseSpirType(id) : id \in Nat}
                \cup {<<"Struct", 0>>, <<"Array", 0>>}
                \cup {<<"StorageBuffer", 0>>, <<"Sampler", 0>>, <<"Image", 0>>}
Entries == [level : Nat, name : Seq(Steps), type : VarTypes]
Lists == Seq(Entries)

\* An empty list has no leaves, a leaf has one.
LEMMA EmptyCovers == <<>> \in Lists /\ Covers(<<>>, {})
<1>1. <<>> \in Lists /\ DOMAIN <<>> = {}  BY DEF Lists
<1>2. Leaves(<<>>) = {}  BY <1>1 DEF Leaves
<1>3. QED  BY <1>1, <1>2 DEF Covers

LEMMA LeafCovers ==
  ASSUME NEW name \in Seq(Steps), NEW type \in VarTypes,
         type \notin {<<"Struct", 0>>, <<"Array", 0>>}
  PROVE  Leaf(name, type) \in Lists /\ Covers(Leaf(name, type), {name})
<1> DEFINE e == Entry(name, type)
<1>1. e \in Entries /\ e.name = name /\ e.type = type  BY DEF Entry, Entries
<1> HIDE DEF e
<1>2. /\ <<e>> \in Seq(Entries) /\ DOMAIN <<e>> = {1} /\ <<e>>[1] = e  BY <1>1
<1>3. Leaf(name, type) = <<e>>  BY DEF Leaf, e
<1>4. Leaves(<<e>>) = {1}  BY <1>1, <1>2 DEF Leaves
<1>5. Covers(<<e>>, {name})  BY <1>1, <1>2, <1>4 DEF Covers
<1>6. QED  BY <1>2, <1>3, <1>5 DEF Lists

\* Two lists whose leaves have different names, one after the other.
LEMMA ConcatCovers ==
  ASSUME NEW a \in Lists, NEW b \in Lists, NEW S, NEW T, S \cap T = {},
         Covers(a, S), Covers(b, T)
  PROVE  a \o b \in Lists /\ Covers(a \o b, S \cup T)
<1> DEFINE c == a \o b
<1>1. /\ Len(a) \in Nat /\ Len(b) \in Nat /\ DOMAIN a = 1..Len(a) /\ DOMAIN b = 1..Len(b)
      /\ c \in Seq(Entries) /\ DOMAIN c = 1..(Len(a) + Len(b))
      /\ \A n \in 1..Len(a) : c[n] = a[n]
      /\ \A n \in 1..Len(b) : c[n + Len(a)] = b[n]
  <2>1. a \in Seq(Entries) /\ b \in Seq(Entries)  BY DEF Lists
  <2>2. c \in Seq(Entries) /\ Len(c) = Len(a) + Len(b)  BY <2>1, ConcatProperties
  <2>3. \A n \in 1..Len(c) : c[n] = IF n <= Len(a) THEN a[n] ELSE b[n - Len(a)]
    BY <2>1, ConcatProperties
  <2> HIDE DEF c
  <2>4. /\ Len(a) \in Nat /\ Len(b) \in Nat
        /\ DOMAIN a = 1..Len(a) /\ DOMAIN b = 1..Len(b)
    BY <2>1
  <2>5. DOMAIN c = 1..(Len(a) + Len(b))  BY <2>2
  <2>6. \A n \in 1..Len(a) : c[n] = a[n]  BY <2>2, <2>3, <2>4
  <2>7. ASSUME NEW n \in 1..Len(b) PROVE c[n + Len(a)] = b[n]
    <3>1. n + Len(a) \in 1..Len(c) /\ ~(n + Len(a) <= Len(a)) /\ (n + Len(a)) - Len(a) = n
      BY <2>2, <2>4
    <3>2. QED  BY <2>3, <3>1
  <2>8. QED  BY <2>2, <2>4, <2>5, <2>6, <2>7
<1> HIDE DEF c
<1>2. ASSUME NEW n \in Leaves(c)
      PROVE  \/ n \in Leaves(a) /\ c[n] = a[n]
             \/ n - Len(a) \in Leaves(b) /\ c[n] = b[n - Len(a)]
  <2>1. n \in 1..(Len(a) + Len(b)) /\ c[n].type \notin {<<"Struct", 0>>, <<"Array", 0>>}
    BY <1>1 DEF Leaves
  <2>2. CASE n <= Len(a)
    <3>1. n \in 1..Len(a)  BY <1>1, <2>1, <2>2
    <3>2. QED  BY <1>1, <2>1, <3>1 DEF Leaves
  <2>3. CASE ~(n <= Len(a))
    <3>1. n - Len(a) \in 1..Len(b) /\ (n - Len(a)) + Len(a) = n  BY <1>1, <2>1, <2>3
    <3>2. c[n] = b[n - Len(a)]  BY <1>1, <3>1
    <3>3. QED  BY <1>1, <2>1, <3>1, <3>2 DEF Leaves
  <2>4. QED  BY <2>2, <2>3
<1>3. ASSUME NEW n \in Leaves(a) PROVE n \in Leaves(c) /\ c[n] = a[n]
  <2>1. n \in 1..Len(a) /\ n \in 1..(Len(a) + Len(b))  BY <1>1 DEF Leaves
  <2>2. c[n] = a[n]  BY <1>1, <2>1
  <2>3. QED  BY <1>1, <2>1, <2>2 DEF Leaves
<1>4. ASSUME NEW n \in Leaves(b) PROVE n + Len(a) \in Leaves(c) /\ c[n + Len(a)] = b[n]
  <2>1. n \in 1..Len(b) /\ n + Len(a) \in 1..(Len(a) + Len(b))  BY <1>1 DEF Leaves
  <2>2. c[n + Len(a)] = b[n]  BY <1>1, <2>1
  <2>3. QED  BY <1>1, <2>1, <2>2 DEF Leaves
<1>5. \A n \in Leaves(a) : a[n].name \in S  BY DEF Covers
<1>6. \A n \in Leaves(b) : b[n].name \in T  BY DEF Covers
<1>7. {c[n].name : n \in Leaves(c)} = S \cup T
  <2>1. ASSUME NEW n \in Leaves(c) PROVE c[n].name \in S \cup T  BY <1>2, <1>5, <1>6
  <2>2. ASSUME NEW w \in S PROVE \E n \in Leaves(c) : c[n].name = w
    <3>1. PICK n \in Leaves(a) : a[n].name = w  BY DEF Covers
    <3>2. QED  BY <1>3, <3>1
  <2>3. ASSUME NEW w \in T PROVE \E n \in Leaves(c) : c[n].name = w
    <3>1. PICK n \in Leaves(b) : b[n].name = w  BY DEF Covers
    <3>2. QED  BY <1>4, <3>1
  <2>4. QED  BY <2>1, <2>2, <2>3
<1>8. ASSUME NEW m \in Leaves(c), NEW n \in Leaves(c), c[m].name = c[n].name PROVE m = n
  <2>0. m \in Nat /\ n \in Nat  BY <1>1 DEF Leaves
  <2>1. CASE m \in Leaves(a) /\ c[m] = a[m] /\ n \in Leaves(a) /\ c[n] = a[n]
    BY <1>8, <2>1 DEF Covers
  <2>2. CASE /\ m - Len(a) \in Leaves(b) /\ c[m] = b[m - Len(a)]
             /\ n - Len(a) \in Leaves(b) /\ c[n] = b[n - Len(a)]
    <3>1. m - Len(a) = n - Len(a)  BY <1>8, <2>2 DEF Covers
    <3>2. QED  BY <1>1, <2>0, <3>1
  <2>3. CASE m \in Leaves(a) /\ c[m] = a[m] /\ n - Len(a) \in Leaves(b) /\ c[n] = b[n - Len(a)]
    BY <1>5, <1>6, <1>8, <2>3
  <2>4. CASE m - Len(a) \in Leaves(b) /\ c[m] = b[m - Len(a)] /\ n \in Leaves(a) /\ c[n] = a[n]
    BY <1>5, <1>6, <1>8, <2>4
  <2>5. QED  BY <1>2, <2>1, <2>2, <2>3, <2>4
<1>9. Covers(c, S \cup T)  BY <1>7, <1>8 DEF Covers
<1>10. QED  BY <1>1, <1>9 DEF c, Lists

\* Any number of lists, joined.
LEMMA JoinedCovers ==
  ASSUME NEW parts \in Seq(Lists), NEW W,
         \A n \in 1..Len(parts) : Covers(parts[n], W[n]),
         \A m, n \in 1..Len(parts) : m # n => W[m] \cap W[n] = {}
  PROVE  /\ Joined(parts) \in Lists
         /\ Covers(Joined(parts), UNION {W[n] : n \in 1..Len(parts)})
<1> DEFINE N == Len(parts)
           J == JoinedUpTo(parts)
           upTo(n) == UNION {W[k] : k \in 1..n}
           S == {n \in 0..N : Covers(J[n], upTo(n))}
<1>1. N \in Nat /\ \A n \in 1..N : parts[n] \in Lists  OBVIOUS
<1>2. /\ J[0] = <<>> /\ \A n \in 1..N : J[n] = J[n - 1] \o parts[n]
      /\ \A n \in 0..N : J[n] \in Lists
  <2>1. parts \in Seq(Seq(Entries))  BY DEF Lists
  <2>2. QED  BY <2>1, JoinedUnfold DEF Lists
<1>3. 0 \in S
  <2>1. upTo(0) = {} /\ 0 \in 0..N  BY <1>1
  <2> HIDE DEF N, J
  <2>2. QED  BY <1>2, <2>1, EmptyCovers
<1>4. ASSUME NEW n \in 1..N, n - 1 \in S PROVE n \in S
  <2>1. n - 1 \in 0..N /\ n \in 0..N  BY <1>1
  <2>2. J[n - 1] \in Lists /\ parts[n] \in Lists /\ J[n] = J[n - 1] \o parts[n]
    BY <1>1, <1>2, <2>1
  <2>3. upTo(n - 1) \cap W[n] = {}
    <3>1. ASSUME NEW k \in 1..(n - 1) PROVE W[k] \cap W[n] = {}
      <4>1. k \in 1..N /\ k # n  BY <1>1
      <4>2. QED  BY <4>1
    <3>2. QED  BY <3>1
  <2>4. upTo(n) = upTo(n - 1) \cup W[n]
    <3>1. 1..n = (1..(n - 1)) \cup {n}  BY <1>1
    <3>2. QED  BY <3>1
  <2>5. Covers(J[n - 1], upTo(n - 1)) /\ Covers(parts[n], W[n])  BY <1>4
  <2> HIDE DEF N, J, upTo
  <2>6. Covers(J[n], upTo(n))  BY <2>2, <2>3, <2>4, <2>5, ConcatCovers
  <2>7. QED  BY <2>1, <2>6
<1>5. N \in S
  <2>1. 0..N \subseteq S
    <3> HIDE DEF S, N
    <3>1. QED  BY <1>1, <1>3, <1>4, BoundedInduction
  <2> HIDE DEF S, N
  <2>2. QED  BY <1>1, <2>1
<1>6. J[N] \in Lists  BY <1>1, <1>2
<1>7. QED  BY <1>5, <1>6 DEF Joined

\* A parent and its children, which have its children's names.
LEMMA ParentCovers ==
  ASSUME NEW name \in Seq(Steps), NEW type \in {"Struct", "Array"}, NEW parts,
         Joined(parts) \in Lists
  PROVE  /\ Parent(name, type, parts) \in Lists
         /\ \A S : Covers(Joined(parts), S) => Covers(Parent(name, type, parts), S)
<1> DEFINE list == Joined(parts)
           below == Children(list)
           e == Entry(name, <<type, 0>>)
<1>1. list \in Seq(Entries) /\ DOMAIN list = 1..Len(list) /\ Len(list) \in Nat  BY DEF Lists
<1> HIDE DEF list
<1>2. ASSUME NEW n \in DOMAIN list
      PROVE  [list[n] EXCEPT !.level = @ + 1] \in Entries
             /\ below[n].name = list[n].name /\ below[n].type = list[n].type
  <2>1. list[n] \in Entries  BY <1>1
  <2>2. QED  BY <2>1 DEF Entries, Children
<1>3. DOMAIN below = 1..Len(list) /\ below \in Seq(Entries) /\ Len(below) = Len(list)
  <2>1. below = [n \in 1..Len(list) |-> [list[n] EXCEPT !.level = @ + 1]]
    BY <1>1 DEF Children
  <2>2. \A n \in 1..Len(list) : [list[n] EXCEPT !.level = @ + 1] \in Entries  BY <1>1, <1>2
  <2> HIDE DEF below
  <2>3. below \in [1..Len(list) -> Entries]  BY <2>1, <2>2
  <2>4. QED  BY <1>1, <2>3
<1>4. e \in Entries /\ e.type \in {<<"Struct", 0>>, <<"Array", 0>>}
  BY DEF Entry, Entries, VarTypes
<1>5. Parent(name, type, parts) = <<e>> \o below  BY DEF Parent, list
<1> HIDE DEF e, below
<1>6. <<e>> \in Lists /\ below \in Lists  BY <1>3, <1>4 DEF Lists
<1>7. Covers(<<e>>, {})
  <2>1. DOMAIN <<e>> = {1} /\ <<e>>[1] = e  OBVIOUS
  <2>2. Leaves(<<e>>) = {}  BY <1>4, <2>1 DEF Leaves
  <2>3. QED  BY <2>2 DEF Covers
<1>8. Leaves(below) = Leaves(list) /\ \A n \in Leaves(list) : below[n].name = list[n].name
  BY <1>1, <1>2, <1>3 DEF Leaves
<1>9. \A S : Covers(list, S) => Covers(below, S)  BY <1>8 DEF Covers
<1>10. ASSUME NEW S, Covers(list, S) PROVE Covers(<<e>> \o below, S)
  <2>1. {} \cap S = {} /\ {} \cup S = S  OBVIOUS
  <2>2. Covers(<<e>> \o below, {} \cup S)  BY <1>6, <1>7, <1>9, <1>10, <2>1, ConcatCovers
  <2>3. QED  BY <2>1, <2>2
<1>11. <<e>> \o below \in Lists
  <2>1. <<e>> \in Seq(Entries) /\ below \in Seq(Entries)  BY <1>6 DEF Lists
  <2>2. QED  BY <2>1, ConcatProperties DEF Lists
<1>12. QED  BY <1>5, <1>10, <1>11 DEF list

-----------------------------------------------------------------------------
\* The program: its instructions have the operands that are read, and the names that
\* it gives are names.
LEMMA ProgramRead ==
  ASSUME ir \in Programs
  PROVE  /\ IsProgram(ir) /\ DOMAIN ir = 1..Len(ir) /\ Len(ir) \in Nat
         /\ \A op : Positions(ir, op) \subseteq 1..Len(ir)
         /\ \A k \in 1..Len(ir) : ir[k] \in Instructions /\ IsInstruction(ir[k])
<1>1. IsProgram(ir)  BY ProgramsAssumption DEF IsProgram
<1>2. ir \in Seq(Instructions)  BY <1>1 DEF IsProgram
<1>3. \A k \in 1..Len(ir) : ir[k] \in Instructions  BY <1>2
<1>4. QED  BY <1>1, <1>3, PositionsAre

LEMMA NamesGiven ==
  ASSUME ir \in Programs, NEW id
  PROVE  DeclaredName(ir, id) \in Names /\ \A m : DeclaredMember(ir, id, m) \in Names
<1>1. ASSUME NEW op \in {"Name", "MemberName"}, NEW k \in Positions(ir, op)
      PROVE  ir[k].name \in Names
  <2>1. k \in 1..Len(ir) /\ ir[k].op = op  BY ProgramRead DEF Positions
  <2>2. QED  BY <2>1, ProgramRead DEF IsInstruction
<1>2. DeclaredName(ir, id) \in Names
  <2> DEFINE at == {k \in Positions(ir, "Name") : ir[k].id = id}
  <2>1. CASE at = {}  BY <2>1, NamesAssumption DEF DeclaredName
  <2>2. CASE at # {}
    <3> DEFINE c == CHOOSE k \in at : TRUE
    <3>1. c \in at  BY <2>2
    <3>2. DeclaredName(ir, id) = ir[c].name  BY <2>2 DEF DeclaredName
    <3> HIDE DEF c
    <3>3. QED  BY <1>1, <3>1, <3>2
  <2>3. QED  BY <2>1, <2>2
<1>3. ASSUME NEW m PROVE DeclaredMember(ir, id, m) \in Names
  <2> DEFINE at == {k \in MemberNames(ir, id) : ir[k].index = m - 1}
  <2>1. CASE at = {}  BY <2>1, NamesAssumption DEF DeclaredMember
  <2>2. CASE at # {}
    <3> DEFINE c == CHOOSE k \in at : TRUE
    <3>1. c \in at  BY <2>2
    <3>2. DeclaredMember(ir, id, m) = ir[c].name  BY <2>2 DEF DeclaredMember
    <3> HIDE DEF c
    <3>3. c \in Positions(ir, "MemberName")  BY <3>1 DEF MemberNames
    <3>4. QED  BY <1>1, <3>2, <3>3
  <2>3. QED  BY <2>1, <2>2
<1>4. QED  BY <1>2, <1>3

\* An array's type and length are numbers.
LEMMA ArrayIs ==
  ASSUME ir \in Programs, NEW id, IsArray(id)
  PROVE  ArrayOf(id).type \in Nat /\ ArrayOf(id).length \in Nat
<1> DEFINE IsIt(k) == k \in Positions(ir, "Other") /\ ir[k].kind = "Array" /\ ir[k].id = id
           c == CHOOSE k : IsIt(k)
<1>1. \E k : IsIt(k)  BY DEF IsArray, IsKind
<1>2. IsIt(c)
  <2> HIDE DEF IsIt
  <2>1. QED  BY <1>1
<1>3. ArrayOf(id) = ir[c]  BY Zenon DEF ArrayOf
<1> HIDE DEF c
<1>4. c \in 1..Len(ir) /\ ir[c].op = "Other" /\ ir[c].kind = "Array"
  BY <1>2, ProgramRead DEF Positions
<1>5. QED  BY <1>3, <1>4, ProgramRead, ArraysAssumption

\* What is left of a type without its dimensions.
Shapes == [dims : Seq(Nat), of : Nat]

LEMMA ShapeIs ==
  ASSUME ir \in Programs, NEW id \in Nat
  PROVE  /\ Dims(id) \in Seq(Nat) /\ Element(id) \in Nat
         /\ ~IsArray(id) => Element(id) = id
<1> DEFINE N == Len(ir)
           V == [Nat -> Shapes]
           base == [k \in Nat |-> [dims |-> <<>>, of |-> k]]
           longer(inner, k) == [inner EXCEPT !.dims = Append(@, ArrayOf(k).length)]
           made(g) == [k \in Nat |-> IF ~IsArray(k) THEN [dims |-> <<>>, of |-> k]
                                     ELSE longer(g[ArrayOf(k).type], k)]
           step == [d \in 1..N |-> [g \in V |-> made(g)]]
           value(f, d) == [k \in Nat |->
                IF d = 0 \/ ~IsArray(k) THEN [dims |-> <<>>, of |-> k]
                ELSE LET inner == f[d - 1][ArrayOf(k).type]
                     IN  [inner EXCEPT !.dims = Append(@, ArrayOf(k).length)]]
           IsAt(f) == f = [d \in Depths |-> value(f, d)]
<1>1. N \in Nat  BY ProgramRead
<1>2. base \in V
  <2>1. \A k \in Nat : [dims |-> <<>>, of |-> k] \in Shapes  BY DEF Shapes
  <2>2. QED  BY <2>1
<1>3. ASSUME NEW g \in V PROVE made(g) \in V
  <2>1. ASSUME NEW k \in Nat, IsArray(k) PROVE longer(g[ArrayOf(k).type], k) \in Shapes
    <3>1. ArrayOf(k).type \in Nat /\ ArrayOf(k).length \in Nat  BY <2>1, ArrayIs
    <3>2. g[ArrayOf(k).type] \in Shapes  BY <3>1
    <3> DEFINE inner == g[ArrayOf(k).type]
               n == ArrayOf(k).length
    <3>3. inner \in Shapes /\ n \in Nat  BY <3>1, <3>2
    <3> HIDE DEF inner, n
    <3>4. Append(inner.dims, n) \in Seq(Nat)  BY <3>3, AppendProperties DEF Shapes
    <3>5. [inner EXCEPT !.dims = Append(@, n)] \in Shapes  BY <3>3, <3>4 DEF Shapes
    <3>6. QED  BY <3>5 DEF inner, n
  <2>2. \A k \in Nat : [dims |-> <<>>, of |-> k] \in Shapes  BY DEF Shapes
  <2> HIDE DEF longer
  <2>3. QED  BY <2>1, <2>2
<1>4. step \in [1..N -> [V -> V]]
  <2> HIDE DEF V, made
  <2>1. QED  BY <1>3
<1>5. PICK f : SolvesRecursion(f, N, V, base, step)
  <2> HIDE DEF step, N, V, base
  <2>1. QED  BY <1>1, <1>2, <1>4, RecursionExists
<1>6. f \in [0..N -> V] /\ f[0] = base /\ \A d \in 1..N : f[d] = step[d][f[d - 1]]
  BY <1>5 DEF SolvesRecursion
<1>7. ASSUME NEW d \in 0..N PROVE f[d] = value(f, d)
  <2>1. CASE d = 0
    <3>1. value(f, d) = base  BY <2>1
    <3>2. QED  BY <1>6, <2>1, <3>1
  <2>2. CASE d # 0
    <3>1. d \in 1..N /\ d - 1 \in 0..N  BY <1>1, <2>2
    <3>2. value(f, d) = made(f[d - 1])  BY <2>2
    <3> HIDE DEF N, V, made, value
    <3>3. f[d - 1] \in V  BY <1>6, <3>1
    <3>4. step[d][f[d - 1]] = made(f[d - 1])  BY <3>1, <3>3
    <3> HIDE DEF step
    <3>5. QED  BY <1>6, <3>1, <3>2, <3>4
  <2>3. QED  BY <2>1, <2>2
<1>8. IsAt(f)
  <2>1. f = [d \in 0..N |-> f[d]]  BY <1>6
  <2> HIDE DEF value
  <2>2. QED  BY <1>7, <2>1 DEF Depths
<1>9. ShapeAt = CHOOSE g : IsAt(g)  BY Zenon DEF ShapeAt
<1>10. IsAt(ShapeAt)
  <2> HIDE DEF IsAt
  <2>1. QED  BY <1>8, <1>9
<1> DEFINE A == ShapeAt
<1> HIDE DEF A
<1>11. \A d \in 0..N : A[d] = value(A, d)
  <2>1. IsAt(A)  BY <1>10 DEF A
  <2> HIDE DEF value, N
  <2>2. A = [d \in Depths |-> value(A, d)]  BY <2>1
  <2>3. QED  BY <2>2 DEF Depths, N
<1>12. 0..N \subseteq {d \in 0..N : A[d] \in V}
  <2> DEFINE T == {d \in 0..N : A[d] \in V}
  <2>1. 0 \in T
    <3>1. value(A, 0) = base  OBVIOUS
    <3>2. 0 \in 0..N  BY <1>1
    <3> HIDE DEF N, V, base, value
    <3>3. QED  BY <1>2, <1>11, <3>1, <3>2
  <2>2. ASSUME NEW d \in 1..N, d - 1 \in T PROVE d \in T
    <3>1. d \in 0..N /\ d # 0  BY <1>1
    <3>2. value(A, d) = made(A[d - 1])  BY <3>1
    <3> HIDE DEF N, V, made, value
    <3>3. made(A[d - 1]) \in V  BY <1>3, <2>2
    <3>4. QED  BY <1>11, <3>1, <3>2, <3>3
  <2> HIDE DEF T, N
  <2>3. QED  BY <1>1, <2>1, <2>2, BoundedInduction DEF T
<1>13. A[N] \in V /\ A[N] = value(A, N)
  <2>1. N \in 0..N  BY <1>1
  <2> HIDE DEF N, V, value
  <2>2. QED  BY <1>11, <1>12, <2>1
<1>14. A[N][id] \in Shapes  BY <1>13
<1>15. ASSUME ~IsArray(id) PROVE A[N][id].of = id
  <2>1. A[N][id] = [dims |-> <<>>, of |-> id]  BY <1>13, <1>15
  <2>2. QED  BY <2>1
<1>16. QED  BY <1>14, <1>15 DEF A, Dims, Element, Shapes

\* A struct's instruction is one of the program's.
LEMMA StructInstruction ==
  ASSUME ir \in Programs, NEW id \in Nat, IsStruct(id)
  PROVE  /\ \E s \in Positions(ir, "TypeStruct") : Instruction(id) = ir[s]
         /\ Instruction(id).members \in Seq(Nat)
<1> DEFINE IsIt(k) == k \in DOMAIN ir /\ ir[k].op \in TypeOps /\ ir[k].id = Element(id)
           c == CHOOSE k : IsIt(k)
<1>1. \E k : IsIt(k)  BY DEF IsStruct, IsDeclared
<1>2. IsIt(c)
  <2> HIDE DEF IsIt
  <2>1. QED  BY <1>1
<1>3. TypeAt(ir, Element(id)) = c  BY Zenon DEF TypeAt
<1>4. Instruction(id) = ir[c]  BY <1>3 DEF Instruction
<1> HIDE DEF c
<1>5. c \in Positions(ir, "TypeStruct")  BY <1>2, <1>4 DEF IsStruct, Positions
<1>6. ir[c].op = "TypeStruct" /\ IsInstruction(ir[c])  BY <1>2, <1>4, ProgramRead DEF IsStruct
<1>7. QED  BY <1>4, <1>5, <1>6 DEF IsInstruction

\* What is not a struct or an array is reported as neither.
LEMMA TypeOfLeaf ==
  ASSUME NEW id \in Nat
  PROVE  /\ ParseSpirType(id) \in VarTypes
         /\ ParseSpirType(id) \notin {<<"Struct", 0>>, <<"Array", 0>>}
<1> DEFINE t == Instruction(id)
           c == ir[TypeAt(ir, t.type)].op
           m == ir[TypeAt(ir, t.type)].count
<1> HIDE DEF t, c, m
<1>1. ParseSpirType(id) =
        IF ~IsDeclared(ir, Element(id)) THEN <<"Unknown", 0>>
        ELSE CASE t.op \in Scalars -> <<t.op, 1>>
               [] t.op = "TypeVector" /\ c \in {"Int", "Float"} -> <<c, t.count>>
               [] t.op = "TypeMatrix" /\ m = t.count -> <<"Mat", t.count>>
               [] OTHER -> <<"Unknown", 0>>
  BY DEF ParseSpirType, t, c, m
<1>2. ParseSpirType(id)[1] \in {"Unknown", "Bool", "Int", "Float", "Mat"}
  <2>1. CASE ~IsDeclared(ir, Element(id))  BY <1>1, <2>1
  <2>2. CASE IsDeclared(ir, Element(id)) /\ t.op \in Scalars  BY <1>1, <2>2 DEF Scalars
  <2>3. CASE IsDeclared(ir, Element(id)) /\ t.op = "TypeVector" /\ c \in {"Int", "Float"}
    BY <1>1, <2>3 DEF Scalars
  <2>4. CASE IsDeclared(ir, Element(id)) /\ t.op = "TypeMatrix" /\ m = t.count
    BY <1>1, <2>4 DEF Scalars
  <2>5. CASE /\ IsDeclared(ir, Element(id)) /\ t.op \notin Scalars
             /\ ~(t.op = "TypeVector" /\ c \in {"Int", "Float"})
             /\ ~(t.op = "TypeMatrix" /\ m = t.count)
    BY <1>1, <2>5
  <2>6. QED  BY <2>1, <2>2, <2>3, <2>4, <2>5
<1>3. <<"Struct", 0>>[1] = "Struct" /\ <<"Array", 0>>[1] = "Array"  OBVIOUS
<1>4. QED  BY <1>2, <1>3 DEF VarTypes

-----------------------------------------------------------------------------
LEMMA StepsAre ==
  ASSUME ir \in Programs
  PROVE  /\ \A name \in Names : MemberStep(name) \in Steps
         /\ \A n \in Nat : ElementStep(n) \in Steps
         /\ \A id, m : MemberStep(DeclaredMember(ir, id, m)) \in Steps
         /\ \A id \in Nat : Indices(id) \subseteq Seq(Steps)
<1>1. \A name \in Names : MemberStep(name) \in Steps  BY DEF MemberStep, Steps
<1>2. \A n \in Nat : ElementStep(n) \in Steps  BY DEF ElementStep, Steps
<1>3. \A id, m : MemberStep(DeclaredMember(ir, id, m)) \in Steps  BY <1>1, NamesGiven
<1>4. ASSUME NEW id \in Nat PROVE Indices(id) \subseteq Seq(Steps)
  <2>1. Dims(id) \in Seq(Nat)  BY ShapeIs
  <2>2. CASE Dims(id) = <<>>  BY <2>2 DEF Indices
  <2>3. CASE Dims(id) # <<>>
    <3>1. Dims(id)[1] \in Nat  BY <2>1, <2>3
    <3>2. ASSUME NEW n \in 0..(Dims(id)[1] - 1) PROVE <<ElementStep(n)>> \in Seq(Steps)
      <4>1. ElementStep(n) \in Steps  BY <1>2, <3>1
      <4>2. QED  BY <4>1
    <3>3. Indices(id) = {<<ElementStep(n)>> : n \in 0..(Dims(id)[1] - 1)}
      BY <2>3 DEF Indices
    <3>4. QED  BY <3>2, <3>3
  <2>4. QED  BY <2>2, <2>3
<1>5. QED  BY <1>1, <1>2, <1>3, <1>4

LEMMA WayType ==
  ASSUME ir \in Programs, NEW id, NEW e \in Seq(Steps), NEW m, NEW w \in Seq(Steps)
  PROVE  WayTo(id, e, m, w) \in Seq(Steps)
<1> DEFINE s == MemberStep(DeclaredMember(ir, Instruction(id).id, m))
<1>1. s \in Steps  BY StepsAre
<1> HIDE DEF s
<1>2. <<s>> \in Seq(Steps)  BY <1>1
<1>3. e \o <<s>> \in Seq(Steps)  BY <1>2, ConcatProperties
<1>4. (e \o <<s>>) \o w \in Seq(Steps)  BY <1>3, ConcatProperties
<1>5. QED  BY <1>4 DEF WayTo, s

LEMMA WaysUnfold ==
  ASSUME ir \in Programs
  PROVE  \A d \in 0..Len(ir) : \A id \in Nat :
            /\ WaysAt[d][id] \subseteq Seq(Steps)
            /\ WaysAt[d][id] = IF ~IsStruct(id) THEN Indices(id)
                               ELSE IF d = 0 THEN {} ELSE WaysFrom(WaysAt[d - 1], id)
<1> DEFINE N == Len(ir)
           V == [Nat -> SUBSET Seq(Steps)]
           base == [id \in Nat |-> IF ~IsStruct(id) THEN Indices(id) ELSE {}]
           made(g) == [id \in Nat |-> IF ~IsStruct(id) THEN Indices(id) ELSE WaysFrom(g, id)]
           step == [d \in 1..N |-> [g \in V |-> made(g)]]
           value(f, d) == [id \in Nat |->
                IF ~IsStruct(id) THEN Indices(id)
                ELSE IF d = 0 THEN {}
                ELSE WaysFrom(f[d - 1], id)]
           IsAt(f) == f = [d \in Depths |-> value(f, d)]
<1>1. N \in Nat  BY ProgramRead
<1>2. base \in V
  <2>1. ASSUME NEW id \in Nat
        PROVE  (IF ~IsStruct(id) THEN Indices(id) ELSE {}) \in SUBSET Seq(Steps)
    <3>1. Indices(id) \subseteq Seq(Steps)  BY StepsAre
    <3>2. QED  BY <3>1
  <2>2. QED  BY <2>1
<1>3. ASSUME NEW g \in V PROVE made(g) \in V
  <2>1. ASSUME NEW id \in Nat, IsStruct(id) PROVE WaysFrom(g, id) \subseteq Seq(Steps)
    <3> DEFINE mem == Instruction(id).members
    <3>1. mem \in Seq(Nat)  BY <2>1, StructInstruction
    <3> HIDE DEF mem
    <3>2. ASSUME NEW e \in Indices(id), NEW m \in 1..Len(mem), NEW w \in g[mem[m]]
          PROVE  WayTo(id, e, m, w) \in Seq(Steps)
      <4>1. mem[m] \in Nat  BY <3>1
      <4>2. w \in Seq(Steps)  BY <4>1
      <4>3. e \in Seq(Steps)  BY StepsAre
      <4>4. QED  BY <4>2, <4>3, WayType
    <3>3. QED  BY <3>2 DEF WaysFrom, mem
  <2>2. ASSUME NEW id \in Nat
        PROVE  (IF ~IsStruct(id) THEN Indices(id) ELSE WaysFrom(g, id)) \in SUBSET Seq(Steps)
    <3>1. Indices(id) \subseteq Seq(Steps)  BY StepsAre
    <3>2. QED  BY <2>1, <3>1
  <2>3. QED  BY <2>2
<1>4. step \in [1..N -> [V -> V]]
  <2> HIDE DEF V, made
  <2>1. QED  BY <1>3
<1>5. PICK f : SolvesRecursion(f, N, V, base, step)
  <2> HIDE DEF step, N, V, base
  <2>1. QED  BY <1>1, <1>2, <1>4, RecursionExists
<1>6. f \in [0..N -> V] /\ f[0] = base /\ \A d \in 1..N : f[d] = step[d][f[d - 1]]
  BY <1>5 DEF SolvesRecursion
<1>7. ASSUME NEW h, NEW d \in 1..N PROVE value(h, d) = made(h[d - 1])
  <2>1. d # 0  BY <1>1
  <2>2. QED  BY <2>1
<1>8. \A h : value(h, 0) = base  OBVIOUS
<1>9. ASSUME NEW d \in 0..N PROVE f[d] = value(f, d)
  <2> HIDE DEF base, value, made, V
  <2>1. CASE d = 0  BY <1>6, <1>8, <2>1
  <2>2. CASE d # 0
    <3>1. d \in 1..N /\ d - 1 \in 0..N  BY <1>1, <2>2
    <3> HIDE DEF N
    <3>2. f[d - 1] \in V  BY <1>6, <3>1
    <3>3. step[d][f[d - 1]] = made(f[d - 1])  BY <3>1, <3>2
    <3> HIDE DEF step
    <3>4. QED  BY <1>6, <1>7, <3>1, <3>3
  <2>3. QED  BY <2>1, <2>2
<1>10. IsAt(f)
  <2>1. f = [d \in 0..N |-> f[d]]  BY <1>6
  <2> HIDE DEF value
  <2>2. QED  BY <1>9, <2>1 DEF Depths
<1>11. WaysAt = CHOOSE g : IsAt(g)  BY Zenon DEF WaysAt
<1>12. IsAt(WaysAt)
  <2> HIDE DEF IsAt
  <2>1. QED  BY <1>10, <1>11
<1> DEFINE A == WaysAt
<1>13. \A d \in 0..N : A[d] = value(A, d)
  <2>1. IsAt(A)  BY <1>12
  <2> HIDE DEF A
  <2> HIDE DEF value, N
  <2>2. A = [d \in Depths |-> value(A, d)]  BY <2>1
  <2>3. QED  BY <2>2 DEF Depths, N
<1> HIDE DEF A
<1>14. 0..N \subseteq {d \in 0..N : A[d] \in V}
  <2> DEFINE T == {d \in 0..N : A[d] \in V}
  <2> HIDE DEF V, base, value, made
  <2>1. 0 \in T
    <3>1. 0 \in 0..N  BY <1>1
    <3>2. QED  BY <1>2, <1>8, <1>13, <3>1
  <2>2. ASSUME NEW d \in 1..N, d - 1 \in T PROVE d \in T
    <3>1. d \in 0..N  BY <1>1
    <3>2. made(A[d - 1]) \in V  BY <1>3, <2>2
    <3>3. QED  BY <1>7, <1>13, <3>1, <3>2
  <2> HIDE DEF T, N
  <2>3. QED  BY <1>1, <2>1, <2>2, BoundedInduction DEF T
<1>15. ASSUME NEW d \in 0..N, NEW id \in Nat
      PROVE  /\ A[d][id] \subseteq Seq(Steps)
             /\ A[d][id] = IF ~IsStruct(id) THEN Indices(id)
                           ELSE IF d = 0 THEN {} ELSE WaysFrom(A[d - 1], id)
  <2>1. A[d] \in V  BY <1>14
  <2>2. A[d][id] \subseteq Seq(Steps)  BY <2>1
  <2>3. CASE d = 0
    <3> HIDE DEF value, base, A
    <3>1. A[d][id] = base[id]  BY <1>8, <1>13, <2>3
    <3>2. QED  BY <2>2, <2>3, <3>1 DEF base
  <2>4. CASE d # 0
    <3>1. d \in 1..N  BY <1>1, <2>4
    <3> HIDE DEF value, made
    <3>2. A[d][id] = made(A[d - 1])[id]  BY <1>7, <1>13, <3>1
    <3>3. QED  BY <2>2, <2>4, <3>2 DEF made
  <2>5. QED  BY <2>3, <2>4
<1>16. QED  BY <1>15 DEF A

\* The types that are followed, by their members' types.
LEMMA FollowedUnfold ==
  ASSUME ir \in Programs
  PROVE  \A d \in 0..Len(ir) : \A id \in Nat, inArray \in BOOLEAN :
            FollowedAt[d][<<id, inArray>>]
            <=> /\ OneArray(id, inArray)
                /\ d = 0 \/ MembersFollowed(FollowedAt[d - 1], id)
<1> DEFINE N == Len(ir)
           A == Nat \X BOOLEAN
           V == [A -> BOOLEAN]
           base == [a \in A |-> OneArray(a[1], a[2])]
           made(g) == [a \in A |-> OneArray(a[1], a[2]) /\ MembersFollowed(g, a[1])]
           step == [d \in 1..N |-> [g \in V |-> made(g)]]
           value(f, d) == [a \in A |-> /\ OneArray(a[1], a[2])
                                       /\ d = 0 \/ MembersFollowed(f[d - 1], a[1])]
           IsAt(f) == f = [d \in Depths |-> value(f, d)]
<1>1. N \in Nat  BY ProgramRead
<1>2. base \in V
  <2>1. \A a \in A : OneArray(a[1], a[2]) \in BOOLEAN  BY DEF OneArray
  <2> HIDE DEF A
  <2>2. QED  BY <2>1
<1>3. ASSUME NEW g \in V PROVE made(g) \in V
  <2>1. \A a \in A : (OneArray(a[1], a[2]) /\ MembersFollowed(g, a[1])) \in BOOLEAN  OBVIOUS
  <2> HIDE DEF A
  <2>2. QED  BY <2>1
<1>4. step \in [1..N -> [V -> V]]
  <2> HIDE DEF V, made
  <2>1. QED  BY <1>3
<1>5. PICK f : SolvesRecursion(f, N, V, base, step)
  <2> HIDE DEF step, N, V, base
  <2>1. QED  BY <1>1, <1>2, <1>4, RecursionExists
<1>6. f \in [0..N -> V] /\ f[0] = base /\ \A d \in 1..N : f[d] = step[d][f[d - 1]]
  BY <1>5 DEF SolvesRecursion
<1>7. ASSUME NEW h, NEW d \in 1..N PROVE value(h, d) = made(h[d - 1])
  <2>1. d # 0  BY <1>1
  <2> HIDE DEF A
  <2>2. QED  BY <2>1
<1>8. ASSUME NEW h PROVE value(h, 0) = base
  <2>1. \A a \in A : (OneArray(a[1], a[2]) /\ (0 = 0 \/ MembersFollowed(h[0 - 1], a[1])))
                        = OneArray(a[1], a[2])
    BY DEF OneArray
  <2> HIDE DEF A
  <2>2. QED  BY <2>1
<1>9. ASSUME NEW d \in 0..N PROVE f[d] = value(f, d)
  <2> HIDE DEF base, value, made, V
  <2>1. CASE d = 0  BY <1>6, <1>8, <2>1
  <2>2. CASE d # 0
    <3>1. d \in 1..N /\ d - 1 \in 0..N  BY <1>1, <2>2
    <3> HIDE DEF N
    <3>2. f[d - 1] \in V  BY <1>6, <3>1
    <3>3. step[d][f[d - 1]] = made(f[d - 1])  BY <3>1, <3>2
    <3> HIDE DEF step
    <3>4. QED  BY <1>6, <1>7, <3>1, <3>3
  <2>3. QED  BY <2>1, <2>2
<1>10. IsAt(f)
  <2>1. f = [d \in 0..N |-> f[d]]  BY <1>6
  <2> HIDE DEF value
  <2>2. QED  BY <1>9, <2>1 DEF Depths
<1>11. FollowedAt = CHOOSE g : IsAt(g)  BY Zenon DEF FollowedAt
<1>12. IsAt(FollowedAt)
  <2> HIDE DEF IsAt
  <2>1. QED  BY <1>10, <1>11
<1>13. \A d \in 0..N : FollowedAt[d] = value(FollowedAt, d)
  <2> DEFINE F == FollowedAt
  <2>1. IsAt(F)  BY <1>12
  <2> HIDE DEF F
  <2> HIDE DEF value, N
  <2>2. F = [d \in Depths |-> value(F, d)]  BY <2>1
  <2>3. \A d \in 0..N : F[d] = value(F, d)  BY <2>2 DEF Depths, N
  <2>4. QED  BY <2>3 DEF F
<1>14. ASSUME NEW d \in 0..N, NEW id \in Nat, NEW inArray \in BOOLEAN
       PROVE  FollowedAt[d][<<id, inArray>>]
              <=> OneArray(id, inArray) /\ (d = 0 \/ MembersFollowed(FollowedAt[d - 1], id))
  <2> DEFINE a == <<id, inArray>>
  <2>1. a \in A /\ a[1] = id /\ a[2] = inArray  OBVIOUS
  <2>2. FollowedAt[d] = value(FollowedAt, d)  BY <1>13
  <2> HIDE DEF A, a
  <2>3. FollowedAt[d][a] = (OneArray(a[1], a[2])
                            /\ (d = 0 \/ MembersFollowed(FollowedAt[d - 1], a[1])))
    BY <2>1, <2>2
  <2>4. FollowedAt[d][a] = (OneArray(id, inArray)
                            /\ (d = 0 \/ MembersFollowed(FollowedAt[d - 1], id)))
    BY <2>1, <2>3
  <2>5. QED  BY <2>4 DEF a
<1>15. QED  BY <1>14

-----------------------------------------------------------------------------
\* Names of members and elements.
LEMMA NamesOfParts ==
  ASSUME ir \in Programs, NEW name \in Seq(Steps)
  PROVE  /\ \A member \in Names : MemberName(name, member) \in Seq(Steps)
         /\ \A member \in Names : name # <<>> \/ member # "" =>
                MemberName(name, member) = name \o <<MemberStep(member)>>
         /\ \A n \in Nat \ {0} : /\ ElementName(name, n) \in Seq(Steps)
                                 /\ ElementName(name, n) = name \o <<ElementStep(n - 1)>>
                                 /\ ElementName(name, n) # <<>>
<1>1. ASSUME NEW s \in Steps
      PROVE  /\ Append(name, s) \in Seq(Steps) /\ Append(name, s) = name \o <<s>>
             /\ Append(name, s) # <<>>
  <2>1. Append(name, s) \in Seq(Steps) /\ Len(Append(name, s)) = Len(name) + 1
    BY AppendProperties
  <2>2. Append(name, s) # <<>>
    <3>1. Len(name) \in Nat /\ Len(<<>>) = 0  OBVIOUS
    <3>2. Len(Append(name, s)) # Len(<<>>)  BY <2>1, <3>1
    <3>3. QED  BY <3>2
  <2>3. Append(name, s) = name \o <<s>>  OBVIOUS
  <2>4. QED  BY <2>1, <2>2, <2>3
<1>2. ASSUME NEW member \in Names
      PROVE  /\ MemberName(name, member) \in Seq(Steps)
             /\ name # <<>> \/ member # "" =>
                    MemberName(name, member) = name \o <<MemberStep(member)>>
  <2>1. MemberStep(member) \in Steps /\ <<>> \in Seq(Steps)  BY StepsAre
  <2>2. QED  BY <1>1, <2>1 DEF MemberName
<1>3. ASSUME NEW n \in Nat \ {0}
      PROVE  /\ ElementName(name, n) \in Seq(Steps)
             /\ ElementName(name, n) = name \o <<ElementStep(n - 1)>>
             /\ ElementName(name, n) # <<>>
  <2>1. n - 1 \in Nat  OBVIOUS
  <2>2. ElementStep(n - 1) \in Steps  BY <2>1, StepsAre
  <2>3. QED  BY <1>1, <2>2 DEF ElementName
<1>4. QED  BY <1>2, <1>3

\* What is reported are lists of variables.
NestedLists == [Nat \X Seq(Steps) -> Lists]

LEMMA SequenceOfLists ==
  ASSUME NEW K \in Nat, NEW f \in [1..K -> Lists]
  PROVE  f \in Seq(Lists) /\ Len(f) = K /\ DOMAIN f = 1..K
  OBVIOUS

LEMMA JoinedList ==
  ASSUME NEW parts \in Seq(Lists)
  PROVE  Joined(parts) \in Lists
<1>1. parts \in Seq(Seq(Entries))  BY DEF Lists
<1>2. Len(parts) \in Nat /\ Len(parts) \in 0..Len(parts)  OBVIOUS
<1>3. \A n \in 0..Len(parts) : JoinedUpTo(parts)[n] \in Seq(Entries)  BY <1>1, JoinedUnfold
<1>4. QED  BY <1>2, <1>3 DEF Joined, Lists

LEMMA ListsMade ==
  ASSUME ir \in Programs, NEW nested \in NestedLists, NEW id \in Nat, IsStruct(id)
  PROVE  /\ Instruction(id).members \in Seq(Nat)
         /\ \A name \in Seq(Steps) :
              /\ \A m \in 1..Len(Instruction(id).members) :
                    MemberUniforms(nested, id, name, m) \in Lists
              /\ Members(nested, id, name) \in Seq(Lists)
              /\ Len(Members(nested, id, name)) = Len(Instruction(id).members)
              /\ StructUniforms(nested, id, name) \in Lists
<1> DEFINE mem == Instruction(id).members
<1>1. mem \in Seq(Nat) /\ Len(mem) \in Nat  BY StructInstruction
<1>2. ASSUME NEW name \in Seq(Steps), NEW m \in 1..Len(mem)
      PROVE  MemberUniforms(nested, id, name, m) \in Lists
  <2> DEFINE sub == mem[m]
             full == MemberName(name, DeclaredMember(ir, Instruction(id).id, m))
             leaves == [n \in 1..Dims(sub)[1] |->
                            Leaf(ElementName(full, n), ParseSpirType(sub))]
  <2>1. sub \in Nat  BY <1>1
  <2>2. full \in Seq(Steps)  BY NamesOfParts, NamesGiven
  <2>3. MemberUniforms(nested, id, name, m) =
            IF IsStruct(sub) THEN nested[<<sub, full>>]
            ELSE IF Dims(id) = <<>> /\ Dims(sub) # <<>> THEN Parent(full, "Array", leaves)
            ELSE Leaf(full, ParseSpirType(sub))
    BY DEF MemberUniforms
  <2> HIDE DEF sub, full
  <2>4. nested[<<sub, full>>] \in Lists  BY <2>1, <2>2 DEF NestedLists
  <2>5. Leaf(full, ParseSpirType(sub)) \in Lists  BY <2>1, <2>2, TypeOfLeaf, LeafCovers
  <2>6. ASSUME Dims(sub) # <<>> PROVE Parent(full, "Array", leaves) \in Lists
    <3>1. Dims(sub)[1] \in Nat
      <4>1. Dims(sub) \in Seq(Nat)  BY <2>1, ShapeIs
      <4>2. QED  BY <2>6, <4>1
    <3>2. ASSUME NEW n \in 1..Dims(sub)[1]
          PROVE  Leaf(ElementName(full, n), ParseSpirType(sub)) \in Lists
      <4>1. n \in Nat \ {0}  BY <3>1
      <4>2. ElementName(full, n) \in Seq(Steps)  BY <2>2, <4>1, NamesOfParts
      <4>3. QED  BY <2>1, <4>2, TypeOfLeaf, LeafCovers
    <3>3. leaves \in [1..Dims(sub)[1] -> Lists]  BY <3>2
    <3> HIDE DEF leaves
    <3>4. Joined(leaves) \in Lists  BY <3>1, <3>3, SequenceOfLists, JoinedList
    <3>5. QED  BY <2>2, <3>4, ParentCovers
  <2> HIDE DEF leaves
  <2>7. QED  BY <2>3, <2>4, <2>5, <2>6
<1>3. ASSUME NEW name \in Seq(Steps)
      PROVE  /\ Members(nested, id, name) \in Seq(Lists)
             /\ Len(Members(nested, id, name)) = Len(mem)
  <2>1. Members(nested, id, name) \in [1..Len(mem) -> Lists]
    <3>1. Members(nested, id, name)
            = [m \in 1..Len(mem) |-> MemberUniforms(nested, id, name, m)]
      BY DEF Members
    <3> HIDE DEF mem
    <3>2. QED  BY <1>2, <3>1
  <2> HIDE DEF mem
  <2>2. QED  BY <1>1, <2>1, SequenceOfLists
<1>4. ASSUME NEW name \in Seq(Steps) PROVE StructUniforms(nested, id, name) \in Lists
  <2> DEFINE elements == [n \in 1..Dims(id)[1] |->
                Parent(name, "Struct", Members(nested, id, ElementName(name, n)))]
  <2>1. StructUniforms(nested, id, name) =
            IF Dims(id) # <<>> THEN Parent(name, "Array", elements)
            ELSE IF name = <<>> THEN Joined(Members(nested, id, name))
            ELSE Parent(name, "Struct", Members(nested, id, name))
    BY DEF StructUniforms
  <2>2. Joined(Members(nested, id, name)) \in Lists  BY <1>3, JoinedList
  <2>3. Parent(name, "Struct", Members(nested, id, name)) \in Lists  BY <2>2, ParentCovers
  <2>4. ASSUME Dims(id) # <<>> PROVE Parent(name, "Array", elements) \in Lists
    <3>1. Dims(id)[1] \in Nat
      <4>1. Dims(id) \in Seq(Nat)  BY ShapeIs
      <4>2. QED  BY <2>4, <4>1
    <3>2. ASSUME NEW n \in 1..Dims(id)[1]
          PROVE  Parent(name, "Struct", Members(nested, id, ElementName(name, n))) \in Lists
      <4>1. n \in Nat \ {0}  BY <3>1
      <4>2. ElementName(name, n) \in Seq(Steps)  BY <4>1, NamesOfParts
      <4>3. Joined(Members(nested, id, ElementName(name, n))) \in Lists
        BY <1>3, <4>2, JoinedList
      <4>4. QED  BY <4>3, ParentCovers
    <3>3. elements \in [1..Dims(id)[1] -> Lists]  BY <3>2
    <3> HIDE DEF elements
    <3>4. Joined(elements) \in Lists  BY <3>1, <3>3, SequenceOfLists, JoinedList
    <3>5. QED  BY <3>4, ParentCovers
  <2> HIDE DEF elements
  <2>5. QED  BY <2>1, <2>2, <2>3, <2>4
<1>5. QED  BY <1>1, <1>2, <1>3, <1>4

\* What a struct adds, by what the structs in it add.
LEMMA UniformListsUnfold ==
  ASSUME ir \in Programs
  PROVE  \A d \in 0..Len(ir) :
            /\ GetStructUniforms[d] \in NestedLists
            /\ \A id \in Nat, name \in Seq(Steps) :
                  GetStructUniforms[d][<<id, name>>] =
                      IF d = 0 \/ ~IsStruct(id) THEN <<>>
                      ELSE StructUniforms(GetStructUniforms[d - 1], id, name)
<1> DEFINE N == Len(ir)
           A == Nat \X Seq(Steps)
           V == NestedLists
           base == [a \in A |-> <<>>]
           made(g) == [a \in A |-> IF ~IsStruct(a[1]) THEN <<>>
                                   ELSE StructUniforms(g, a[1], a[2])]
           step == [d \in 1..N |-> [g \in V |-> made(g)]]
           value(f, d) == [a \in A |-> IF d = 0 \/ ~IsStruct(a[1]) THEN <<>>
                                       ELSE StructUniforms(f[d - 1], a[1], a[2])]
           IsAt(f) == f = [d \in Depths |-> value(f, d)]
<1>1. N \in Nat  BY ProgramRead
<1>2. base \in V
  <2>1. <<>> \in Lists  BY EmptyCovers
  <2>2. QED  BY <2>1 DEF NestedLists
<1>3. ASSUME NEW g \in V PROVE made(g) \in V
  <2>1. ASSUME NEW a \in A
        PROVE  (IF ~IsStruct(a[1]) THEN <<>> ELSE StructUniforms(g, a[1], a[2])) \in Lists
    <3>1. a[1] \in Nat /\ a[2] \in Seq(Steps)  OBVIOUS
    <3> HIDE DEF A, V
    <3>2. CASE ~IsStruct(a[1])  BY <3>2, EmptyCovers
    <3>3. CASE IsStruct(a[1])
      <4>1. StructUniforms(g, a[1], a[2]) \in Lists  BY <1>3, <3>1, <3>3, ListsMade DEF V
      <4>2. QED  BY <3>3, <4>1
    <3>4. QED  BY <3>2, <3>3
  <2>2. made(g) \in [A -> Lists]
    <3> HIDE DEF A
    <3>1. QED  BY <2>1
  <2>3. QED  BY <2>2 DEF NestedLists
<1>4. step \in [1..N -> [V -> V]]
  <2> HIDE DEF V, made
  <2>1. QED  BY <1>3
<1>5. PICK f : SolvesRecursion(f, N, V, base, step)
  <2> HIDE DEF step, N, V, base
  <2>1. QED  BY <1>1, <1>2, <1>4, RecursionExists
<1>6. f \in [0..N -> V] /\ f[0] = base /\ \A d \in 1..N : f[d] = step[d][f[d - 1]]
  BY <1>5 DEF SolvesRecursion
<1>7. ASSUME NEW h, NEW d \in 1..N PROVE value(h, d) = made(h[d - 1])
  <2>1. d # 0  BY <1>1
  <2> HIDE DEF A
  <2>2. QED  BY <2>1
<1>8. ASSUME NEW h PROVE value(h, 0) = base
  <2> HIDE DEF A
  <2>1. QED  OBVIOUS
<1>9. ASSUME NEW d \in 0..N PROVE f[d] = value(f, d)
  <2> HIDE DEF base, value, made, V
  <2>1. CASE d = 0  BY <1>6, <1>8, <2>1
  <2>2. CASE d # 0
    <3>1. d \in 1..N /\ d - 1 \in 0..N  BY <1>1, <2>2
    <3> HIDE DEF N
    <3>2. f[d - 1] \in V  BY <1>6, <3>1
    <3>3. step[d][f[d - 1]] = made(f[d - 1])  BY <3>1, <3>2
    <3> HIDE DEF step
    <3>4. QED  BY <1>6, <1>7, <3>1, <3>3
  <2>3. QED  BY <2>1, <2>2
<1>10. IsAt(f)
  <2>1. f = [d \in 0..N |-> f[d]]  BY <1>6
  <2> HIDE DEF value
  <2>2. QED  BY <1>9, <2>1 DEF Depths
<1>11. GetStructUniforms = CHOOSE g : IsAt(g)  BY Zenon DEF GetStructUniforms
<1>12. IsAt(GetStructUniforms)
  <2> HIDE DEF IsAt
  <2>1. QED  BY <1>10, <1>11
<1> DEFINE F == GetStructUniforms
<1>13. \A d \in 0..N : F[d] = value(F, d)
  <2>1. IsAt(F)  BY <1>12
  <2> HIDE DEF F, value, N
  <2>2. F = [d \in Depths |-> value(F, d)]  BY <2>1
  <2>3. QED  BY <2>2 DEF Depths, N
<1> HIDE DEF F
<1>14. 0..N \subseteq {d \in 0..N : F[d] \in V}
  <2> DEFINE T == {d \in 0..N : F[d] \in V}
  <2> HIDE DEF V, base, value, made
  <2>1. 0 \in T
    <3>1. 0 \in 0..N  BY <1>1
    <3>2. QED  BY <1>2, <1>8, <1>13, <3>1
  <2>2. ASSUME NEW d \in 1..N, d - 1 \in T PROVE d \in T
    <3>1. d \in 0..N  BY <1>1
    <3>2. made(F[d - 1]) \in V  BY <1>3, <2>2
    <3>3. QED  BY <1>7, <1>13, <3>1, <3>2
  <2> HIDE DEF T, N
  <2>3. QED  BY <1>1, <2>1, <2>2, BoundedInduction DEF T
<1>15. ASSUME NEW d \in 0..N, NEW id \in Nat, NEW name \in Seq(Steps)
       PROVE  F[d][<<id, name>>] = IF d = 0 \/ ~IsStruct(id) THEN <<>>
                                   ELSE StructUniforms(F[d - 1], id, name)
  <2> DEFINE a == <<id, name>>
  <2>1. a \in A /\ a[1] = id /\ a[2] = name  OBVIOUS
  <2>2. F[d] = value(F, d)  BY <1>13
  <2> HIDE DEF A, a
  <2>3. F[d][a] = IF d = 0 \/ ~IsStruct(a[1]) THEN <<>>
                  ELSE StructUniforms(F[d - 1], a[1], a[2])
    BY <2>1, <2>2
  <2>4. QED  BY <2>1, <2>3 DEF a
<1>16. QED  BY <1>14, <1>15 DEF F
-----------------------------------------------------------------------------
\* Names that start with the same name.
NamesUnder(name, ways) == {name \o w : w \in ways}

LEMMA NamesAreSequences ==
  ASSUME NEW a \in Seq(Steps), NEW b \in Seq(Steps)
  PROVE  /\ a \o b \in Seq(Steps) /\ a \o <<>> = a /\ <<>> \o a = a
         /\ \A c \in Seq(Steps) : (a \o b) \o c = a \o (b \o c)
         /\ \A s \in Steps : a \o <<s>> \in Seq(Steps) /\ a \o <<s>> # <<>>
<1>1. a \o b \in Seq(Steps)  BY ConcatProperties
<1>2. a \o <<>> = a /\ <<>> \o a = a  BY ConcatEmptySeq
<1>3. \A c \in Seq(Steps) : (a \o b) \o c = a \o (b \o c)  BY ConcatAssociative
<1>4. ASSUME NEW s \in Steps PROVE a \o <<s>> \in Seq(Steps) /\ a \o <<s>> # <<>>
  <2>1. <<s>> \in Seq(Steps) /\ Len(<<s>>) = 1 /\ Len(a) \in Nat /\ Len(<<>>) = 0  OBVIOUS
  <2>2. a \o <<s>> \in Seq(Steps) /\ Len(a \o <<s>>) = Len(a) + 1  BY <2>1, ConcatProperties
  <2>3. Len(a \o <<s>>) # Len(<<>>)  BY <2>1, <2>2
  <2>4. QED  BY <2>2, <2>3
<1>5. QED  BY <1>1, <1>2, <1>3, <1>4

LEMMA NamesUnderNames ==
  ASSUME NEW a \in Seq(Steps), NEW b \in Seq(Steps), NEW S \in SUBSET Seq(Steps)
  PROVE  NamesUnder(a, NamesUnder(b, S)) = NamesUnder(a \o b, S)
<1>1. \A w \in S : (a \o b) \o w = a \o (b \o w)  BY NamesAreSequences
<1>2. ASSUME NEW x \in NamesUnder(a, NamesUnder(b, S)) PROVE x \in NamesUnder(a \o b, S)
  <2>1. PICK v \in NamesUnder(b, S) : x = a \o v  BY DEF NamesUnder
  <2>2. PICK w \in S : v = b \o w  BY DEF NamesUnder
  <2>3. QED  BY <1>1, <2>1, <2>2 DEF NamesUnder
<1>3. ASSUME NEW x \in NamesUnder(a \o b, S) PROVE x \in NamesUnder(a, NamesUnder(b, S))
  <2>1. PICK w \in S : x = (a \o b) \o w  BY DEF NamesUnder
  <2>2. b \o w \in NamesUnder(b, S) /\ x = a \o (b \o w)  BY <1>1, <2>1 DEF NamesUnder
  <2>3. QED  BY <2>2 DEF NamesUnder
<1>4. QED  BY <1>2, <1>3

\* Names that go on with different steps are different.
LEMMA NamesApart ==
  ASSUME NEW a \in Seq(Steps), NEW s \in Steps, NEW t \in Steps, s # t,
         NEW S \in SUBSET Seq(Steps), NEW T \in SUBSET Seq(Steps)
  PROVE  NamesUnder(a \o <<s>>, S) \cap NamesUnder(a \o <<t>>, T) = {}
<1>1. ASSUME NEW u \in Steps, NEW w \in Seq(Steps)
      PROVE  ((a \o <<u>>) \o w)[Len(a) + 1] = u
  <2>1. <<u>> \in Seq(Steps) /\ Len(<<u>>) = 1 /\ <<u>>[1] = u /\ Len(a) \in Nat
        /\ Len(w) \in Nat
    OBVIOUS
  <2> DEFINE b == a \o <<u>>
  <2>2. b \in Seq(Steps) /\ Len(b) = Len(a) + 1  BY <2>1, ConcatProperties
  <2>3. b[Len(a) + 1] = u
    <3>1. Len(a) + 1 \in 1..(Len(a) + Len(<<u>>)) /\ ~(Len(a) + 1 <= Len(a))
          /\ Len(a) + 1 - Len(a) = 1
      BY <2>1
    <3>2. b[Len(a) + 1] = <<u>>[Len(a) + 1 - Len(a)]  BY <2>1, <3>1, ConcatProperties
    <3>3. QED  BY <2>1, <3>1, <3>2
  <2> HIDE DEF b
  <2>4. (b \o w)[Len(a) + 1] = b[Len(a) + 1]
    <3>1. Len(a) + 1 \in 1..(Len(b) + Len(w)) /\ Len(a) + 1 <= Len(b)  BY <2>1, <2>2
    <3>2. QED  BY <2>2, <3>1, ConcatProperties
  <2>5. QED  BY <2>3, <2>4 DEF b
<1>2. ASSUME NEW v \in S, NEW w \in T PROVE (a \o <<s>>) \o v # (a \o <<t>>) \o w
  <2>1. v \in Seq(Steps) /\ w \in Seq(Steps)  OBVIOUS
  <2>2. ((a \o <<s>>) \o v)[Len(a) + 1] = s /\ ((a \o <<t>>) \o w)[Len(a) + 1] = t
    BY <1>1, <2>1
  <2>3. QED  BY <2>2
<1>3. QED  BY <1>2 DEF NamesUnder
-----------------------------------------------------------------------------
\* What is known of the types that are nested in a type when what it adds is found.
NestedCovered(nested, ways, id, inArray) ==
    /\ \A sub \in Nat : ways[sub] \in SUBSET Seq(Steps)
    /\ \A sub \in Nat : ~IsStruct(sub) => ways[sub] = Indices(sub)
    /\ LET mem == Instruction(id).members IN
       \A m \in 1..Len(mem) :
          /\ OneArray(mem[m], inArray)
          /\ IsStruct(mem[m]) => \A full \in Seq(Steps) \ {<<>>} :
                Covers(nested[<<mem[m], full>>], NamesUnder(full, ways[mem[m]]))

MemberNamed(id, m) == DeclaredMember(ir, Instruction(id).id, m)
NamedUnder(id, name) ==
    name # <<>> \/ \A m \in 1..Len(Instruction(id).members) : MemberNamed(id, m) # ""

\* The ways into a member, and into all of the members.
WaysInMember(ways, id, name, m) ==
    NamesUnder(name \o <<MemberStep(MemberNamed(id, m))>>, ways[Instruction(id).members[m]])
WaysInMembers(ways, id, name) ==
    UNION {WaysInMember(ways, id, name, m) : m \in 1..Len(Instruction(id).members)}

\* An array of leaves.
LEMMA ArrayOfLeavesCovers ==
  ASSUME ir \in Programs, NEW id \in Nat, Dims(id) # <<>>, NEW name \in Seq(Steps)
  PROVE  Covers(Parent(name, "Array", [n \in 1..Dims(id)[1] |->
                    Leaf(ElementName(name, n), ParseSpirType(id))]),
                NamesUnder(name, Indices(id)))
<1> DEFINE K == Dims(id)[1]
           list(n) == Leaf(ElementName(name, n), ParseSpirType(id))
           leaves == [n \in 1..K |-> list(n)]
           W == [n \in 1..K |-> {ElementName(name, n)}]
<1>1. K \in Nat
  <2>1. Dims(id) \in Seq(Nat)  BY ShapeIs
  <2>2. QED  BY <2>1
<1>2. ASSUME NEW n \in 1..K
      PROVE  /\ list(n) \in Lists /\ Covers(list(n), {ElementName(name, n)})
             /\ ElementName(name, n) = name \o <<ElementStep(n - 1)>>
  <2>1. n \in Nat \ {0}  BY <1>1
  <2>2. /\ ElementName(name, n) \in Seq(Steps)
        /\ ElementName(name, n) = name \o <<ElementStep(n - 1)>>
    BY <2>1, NamesOfParts
  <2>3. QED  BY <2>2, TypeOfLeaf, LeafCovers
<1> HIDE DEF list
<1>3. leaves \in Seq(Lists) /\ Len(leaves) = K
  <2>1. leaves \in [1..K -> Lists]  BY <1>2
  <2> HIDE DEF leaves, K
  <2>2. QED  BY <1>1, <2>1, SequenceOfLists
<1>4. ASSUME NEW m \in 1..K, NEW n \in 1..K, m # n PROVE W[m] \cap W[n] = {}
  <2>1. m - 1 \in Nat /\ n - 1 \in Nat /\ m - 1 # n - 1  BY <1>1, <1>4
  <2>2. ElementStep(m - 1) \in Steps /\ ElementStep(n - 1) \in Steps  BY <2>1, StepsAre
  <2>3. ElementStep(m - 1) # ElementStep(n - 1)  BY <2>1 DEF ElementStep
  <2>4. {<<>>} \in SUBSET Seq(Steps)  OBVIOUS
  <2>5. NamesUnder(name \o <<ElementStep(m - 1)>>, {<<>>})
            \cap NamesUnder(name \o <<ElementStep(n - 1)>>, {<<>>}) = {}
    BY <2>2, <2>3, <2>4, NamesApart
  <2>6. ASSUME NEW k \in {m, n}
        PROVE  W[k] = NamesUnder(name \o <<ElementStep(k - 1)>>, {<<>>})
    <3>1. k \in 1..K /\ ElementStep(k - 1) \in Steps  BY <2>2
    <3>2. name \o <<ElementStep(k - 1)>> \in Seq(Steps)  BY <3>1, NamesAreSequences
    <3>3. (name \o <<ElementStep(k - 1)>>) \o <<>> = name \o <<ElementStep(k - 1)>>
      BY <3>2, NamesAreSequences
    <3>4. W[k] = {name \o <<ElementStep(k - 1)>>}  BY <1>2, <3>1
    <3>5. QED  BY <3>3, <3>4 DEF NamesUnder
  <2>7. QED  BY <2>5, <2>6
<1>5. \A n \in 1..K : Covers(leaves[n], W[n])  BY <1>2
<1>6. UNION {W[n] : n \in 1..K} = NamesUnder(name, Indices(id))
  <2>1. Indices(id) = {<<ElementStep(n)>> : n \in 0..(K - 1)}  BY DEF Indices
  <2>2. ASSUME NEW n \in 1..K PROVE W[n] \subseteq NamesUnder(name, Indices(id))
    <3>1. n - 1 \in 0..(K - 1)  BY <1>1
    <3>2. QED  BY <1>2, <2>1, <3>1 DEF NamesUnder
  <2>3. ASSUME NEW n \in 0..(K - 1) PROVE \E k \in 1..K : name \o <<ElementStep(n)>> \in W[k]
    <3>1. n + 1 \in 1..K /\ (n + 1) - 1 = n  BY <1>1
    <3>2. QED  BY <1>2, <3>1
  <2>4. QED  BY <2>1, <2>2, <2>3 DEF NamesUnder
<1> HIDE DEF leaves, W, K
<1>7. Joined(leaves) \in Lists /\ Covers(Joined(leaves), UNION {W[n] : n \in 1..K})
  BY <1>3, <1>4, <1>5, JoinedCovers
<1>8. Covers(Parent(name, "Array", leaves), NamesUnder(name, Indices(id)))
  BY <1>6, <1>7, ParentCovers
<1>9. QED  BY <1>8 DEF leaves, list, K

\* What one member adds.
LEMMA MemberCovers ==
  ASSUME ir \in Programs, NEW nested \in NestedLists, NEW ways, NEW id \in Nat, IsStruct(id),
         NestedCovered(nested, ways, id, Dims(id) # <<>>),
         NEW name \in Seq(Steps), NamedUnder(id, name),
         NEW m \in 1..Len(Instruction(id).members)
  PROVE  Covers(MemberUniforms(nested, id, name, m), WaysInMember(ways, id, name, m))
<1> DEFINE sub == Instruction(id).members[m]
           step == MemberStep(MemberNamed(id, m))
           full == MemberName(name, MemberNamed(id, m))
           leaves == [n \in 1..Dims(sub)[1] |-> Leaf(ElementName(full, n), ParseSpirType(sub))]
<1>1. sub \in Nat
  <2>1. Instruction(id).members \in Seq(Nat)  BY StructInstruction
  <2>2. QED  BY <2>1
<1>2. MemberNamed(id, m) \in Names /\ step \in Steps  BY NamesGiven, StepsAre DEF MemberNamed
<1>3. full = name \o <<step>> /\ full \in Seq(Steps) /\ full # <<>>
  <2>1. name # <<>> \/ MemberNamed(id, m) # ""  BY DEF NamedUnder
  <2>2. full = name \o <<step>>  BY <1>2, <2>1, NamesOfParts
  <2>3. QED  BY <1>2, <2>2, NamesAreSequences
<1>4. OneArray(sub, Dims(id) # <<>>)  BY DEF NestedCovered
<1>5. WaysInMember(ways, id, name, m) = NamesUnder(full, ways[sub])
  BY <1>3 DEF WaysInMember
<1>6. MemberUniforms(nested, id, name, m) =
            IF IsStruct(sub) THEN nested[<<sub, full>>]
            ELSE IF Dims(id) = <<>> /\ Dims(sub) # <<>> THEN Parent(full, "Array", leaves)
            ELSE Leaf(full, ParseSpirType(sub))
  BY DEF MemberUniforms, MemberNamed
<1>7. CASE IsStruct(sub)
  <2>1. Covers(nested[<<sub, full>>], NamesUnder(full, ways[sub]))
    BY <1>3, <1>7 DEF NestedCovered
  <2>2. QED  BY <1>5, <1>6, <1>7, <2>1
<1>8. CASE ~IsStruct(sub)
  <2>1. ways[sub] = Indices(sub)  BY <1>1, <1>8 DEF NestedCovered
  <2>2. CASE Dims(sub) # <<>>
    <3>1. Dims(id) = <<>>  BY <1>4, <1>8, <2>2 DEF OneArray
    <3>2. Covers(Parent(full, "Array", leaves), NamesUnder(full, Indices(sub)))
      BY <1>1, <1>3, <2>2, ArrayOfLeavesCovers
    <3>3. QED  BY <1>5, <1>6, <1>8, <2>1, <2>2, <3>1, <3>2
  <2>3. CASE Dims(sub) = <<>>
    <3>1. Indices(sub) = {<<>>}  BY <2>3 DEF Indices
    <3>2. NamesUnder(full, {<<>>}) = {full}  BY <1>3, NamesAreSequences DEF NamesUnder
    <3>3. Covers(Leaf(full, ParseSpirType(sub)), {full})
      BY <1>1, <1>3, TypeOfLeaf, LeafCovers
    <3>4. MemberUniforms(nested, id, name, m) = Leaf(full, ParseSpirType(sub))
      BY <1>6, <1>8, <2>3
    <3>5. QED  BY <1>5, <2>1, <3>1, <3>2, <3>3, <3>4
  <2>4. QED  BY <2>2, <2>3
<1>9. QED  BY <1>7, <1>8
\* What the members add, joined.
MembersApart(id) == \A m, n \in 1..Len(Instruction(id).members) :
    m # n => MemberNamed(id, m) # MemberNamed(id, n)

LEMMA MembersCover ==
  ASSUME ir \in Programs, NEW nested \in NestedLists, NEW ways, NEW id \in Nat, IsStruct(id),
         NestedCovered(nested, ways, id, Dims(id) # <<>>), MembersApart(id),
         NEW name \in Seq(Steps), NamedUnder(id, name)
  PROVE  /\ Joined(Members(nested, id, name)) \in Lists
         /\ Covers(Joined(Members(nested, id, name)), WaysInMembers(ways, id, name))
<1> DEFINE N == Len(Instruction(id).members)
           parts == Members(nested, id, name)
           W == [m \in 1..N |-> WaysInMember(ways, id, name, m)]
<1>1. parts \in Seq(Lists) /\ Len(parts) = N  BY ListsMade
<1>2. ASSUME NEW m \in 1..N PROVE Covers(parts[m], W[m])
  <2>1. parts[m] = MemberUniforms(nested, id, name, m)  BY DEF Members
  <2>2. QED  BY <2>1, MemberCovers
<1>3. ASSUME NEW m \in 1..N, NEW n \in 1..N, m # n PROVE W[m] \cap W[n] = {}
  <2>1. MemberNamed(id, m) # MemberNamed(id, n)  BY <1>3 DEF MembersApart
  <2>2. /\ MemberStep(MemberNamed(id, m)) \in Steps /\ MemberStep(MemberNamed(id, n)) \in Steps
        /\ MemberStep(MemberNamed(id, m)) # MemberStep(MemberNamed(id, n))
    <3>1. MemberStep(MemberNamed(id, m)) \in Steps /\ MemberStep(MemberNamed(id, n)) \in Steps
      BY StepsAre DEF MemberNamed
    <3>2. QED  BY <2>1, <3>1 DEF MemberStep
  <2>3. Instruction(id).members[m] \in Nat /\ Instruction(id).members[n] \in Nat
    <3>1. Instruction(id).members \in Seq(Nat)  BY StructInstruction
    <3>2. QED  BY <3>1
  <2>4. /\ ways[Instruction(id).members[m]] \in SUBSET Seq(Steps)
        /\ ways[Instruction(id).members[n]] \in SUBSET Seq(Steps)
    BY <2>3 DEF NestedCovered
  <2>5. WaysInMember(ways, id, name, m) \cap WaysInMember(ways, id, name, n) = {}
    BY <2>2, <2>4, NamesApart DEF WaysInMember
  <2>6. QED  BY <2>5
<1>4. UNION {W[m] : m \in 1..N} = WaysInMembers(ways, id, name)  BY DEF WaysInMembers
<1> HIDE DEF parts, W, N
<1>5. Joined(parts) \in Lists /\ Covers(Joined(parts), UNION {W[m] : m \in 1..N})
  BY <1>1, <1>2, <1>3, JoinedCovers
<1>6. QED  BY <1>4, <1>5 DEF parts

\* The ways into a struct, or into an array of structs, by those into the members.
LEMMA WaysByMembers ==
  ASSUME ir \in Programs, NEW ways, NEW id \in Nat, IsStruct(id), NEW name \in Seq(Steps),
         \A sub \in Nat : ways[sub] \in SUBSET Seq(Steps)
  PROVE  /\ WaysInMembers(ways, id, name) \in SUBSET Seq(Steps)
         /\ NamesUnder(name, WaysFrom(ways, id)) =
                UNION {WaysInMembers(ways, id, name \o e) : e \in Indices(id)}
         /\ \A e \in Seq(Steps) : WaysInMembers(ways, id, name \o e)
                = NamesUnder(name \o e, WaysInMembers(ways, id, <<>>))
<1> DEFINE N == Len(Instruction(id).members)
           mem == Instruction(id).members
           step(m) == MemberStep(MemberNamed(id, m))
           LeadsTo(base, x) == \E m \in 1..N : \E w \in ways[mem[m]] :
                                x = (base \o <<step(m)>>) \o w
<1>1. \A m \in 1..N : mem[m] \in Nat
  <2>1. mem \in Seq(Nat)  BY StructInstruction
  <2>2. QED  BY <2>1
<1>2. \A m \in 1..N : step(m) \in Steps  BY StepsAre DEF MemberNamed
<1>3. \A e \in Indices(id) : e \in Seq(Steps)  BY StepsAre
<1>4. ASSUME NEW base, NEW x
      PROVE  x \in WaysInMembers(ways, id, base) <=> LeadsTo(base, x)
  <2>1. x \in WaysInMembers(ways, id, base) <=>
            \E m \in 1..N : x \in WaysInMember(ways, id, base, m)
    BY DEF WaysInMembers
  <2>2. ASSUME NEW m \in 1..N
        PROVE  x \in WaysInMember(ways, id, base, m) <=>
                    \E w \in ways[mem[m]] : x = (base \o <<step(m)>>) \o w
    <3> DEFINE b == base \o <<step(m)>>
    <3>1. WaysInMember(ways, id, base, m) = NamesUnder(b, ways[mem[m]])  BY DEF WaysInMember
    <3> HIDE DEF b, mem, N
    <3>2. x \in NamesUnder(b, ways[mem[m]]) <=> \E w \in ways[mem[m]] : x = b \o w
      BY DEF NamesUnder
    <3>3. QED  BY <3>1, <3>2 DEF b
  <2> HIDE DEF step, mem, N
  <2>3. QED  BY <2>1, <2>2 DEF LeadsTo
<1>5. ASSUME NEW x
      PROVE  x \in WaysFrom(ways, id) <=>
                \E e \in Indices(id), m \in 1..N : \E w \in ways[mem[m]] :
                    x = e \o <<step(m)>> \o w
  <2> DEFINE to(e, m) == {WayTo(id, e, m, w) : w \in ways[mem[m]]}
  <2>1. x \in WaysFrom(ways, id) <=> \E e \in Indices(id), m \in 1..N : x \in to(e, m)
    <3>1. WaysFrom(ways, id) = UNION {to(e, m) : e \in Indices(id), m \in 1..N}
      BY DEF WaysFrom
    <3> HIDE DEF to, N
    <3>2. QED  BY <3>1
  <2>2. ASSUME NEW e, NEW m
        PROVE  x \in to(e, m) <=> \E w \in ways[mem[m]] : x = e \o <<step(m)>> \o w
    BY DEF WayTo, MemberNamed
  <2> HIDE DEF step, mem, N, to
  <2>3. QED  BY <2>1, <2>2
<1>6. ASSUME NEW e \in Seq(Steps), NEW m \in 1..N, NEW w \in ways[mem[m]]
      PROVE  /\ (name \o e \o <<step(m)>>) \o w = name \o (e \o <<step(m)>> \o w)
             /\ (name \o e \o <<step(m)>>) \o w = (name \o e) \o ((<<>> \o <<step(m)>>) \o w)
             /\ (name \o <<step(m)>>) \o w \in Seq(Steps)
  <2>1. w \in Seq(Steps)  BY <1>1
  <2>2. step(m) \in Steps  BY <1>2
  <2> DEFINE s == <<step(m)>>
  <2>3. s \in Seq(Steps)  BY <2>2
  <2> HIDE DEF s, step
  <2>4. name \o e \in Seq(Steps) /\ e \o s \in Seq(Steps) /\ s \o w \in Seq(Steps)
        /\ name \o s \in Seq(Steps) /\ <<>> \o s = s
    BY <2>1, <2>3, NamesAreSequences
  <2>5. (name \o e \o s) \o w = (name \o e) \o (s \o w)  BY <2>1, <2>3, <2>4, NamesAreSequences
  <2>6. (name \o e) \o (s \o w) = name \o (e \o (s \o w))
    BY <2>4, NamesAreSequences
  <2>7. e \o (s \o w) = e \o s \o w
    <3>1. e \in Seq(Steps)  OBVIOUS
    <3>2. QED  BY <2>1, <2>3, <3>1, ConcatAssociative
  <2>8. (name \o s) \o w \in Seq(Steps)  BY <2>1, <2>4, NamesAreSequences
  <2>9. QED  BY <2>4, <2>5, <2>6, <2>7, <2>8 DEF s
<1> HIDE DEF N, mem, step, LeadsTo
<1>7. WaysInMembers(ways, id, name) \in SUBSET Seq(Steps)
  <2>1. <<>> \in Seq(Steps)  OBVIOUS
  <2>2. \A m \in 1..N : \A w \in ways[mem[m]] : (name \o <<step(m)>>) \o w \in Seq(Steps)
    BY <1>6, <2>1
  <2>3. ASSUME NEW x \in WaysInMembers(ways, id, name) PROVE x \in Seq(Steps)
    <3>1. LeadsTo(name, x)  BY <1>4
    <3>2. QED  BY <2>2, <3>1 DEF LeadsTo
  <2>4. QED  BY <2>3
<1>8. NamesUnder(name, WaysFrom(ways, id)) =
            UNION {WaysInMembers(ways, id, name \o e) : e \in Indices(id)}
  <2>1. ASSUME NEW x \in NamesUnder(name, WaysFrom(ways, id))
        PROVE  \E e \in Indices(id) : x \in WaysInMembers(ways, id, name \o e)
    <3>1. PICK v \in WaysFrom(ways, id) : x = name \o v  BY DEF NamesUnder
    <3>2. PICK e \in Indices(id), m \in 1..N :
             \E w \in ways[mem[m]] : v = e \o <<step(m)>> \o w
      BY <1>5
    <3>3. PICK w \in ways[mem[m]] : v = e \o <<step(m)>> \o w  BY <3>2
    <3>4. e \in Seq(Steps)  BY <1>3
    <3>5. x = (name \o e \o <<step(m)>>) \o w  BY <1>6, <3>1, <3>3, <3>4
    <3>6. LeadsTo(name \o e, x)  BY <3>5 DEF LeadsTo
    <3>7. QED  BY <1>4, <3>6
  <2>2. ASSUME NEW e \in Indices(id), NEW x \in WaysInMembers(ways, id, name \o e)
        PROVE  x \in NamesUnder(name, WaysFrom(ways, id))
    <3>0. LeadsTo(name \o e, x)  BY <1>4
    <3>1. PICK m \in 1..N : \E w \in ways[mem[m]] : x = (name \o e \o <<step(m)>>) \o w
      BY <3>0 DEF LeadsTo
    <3>2. PICK w \in ways[mem[m]] : x = (name \o e \o <<step(m)>>) \o w  BY <3>1
    <3>3. e \in Seq(Steps)  BY <1>3
    <3>4. x = name \o (e \o <<step(m)>> \o w)  BY <1>6, <3>2, <3>3
    <3>5. e \o <<step(m)>> \o w \in WaysFrom(ways, id)  BY <1>5
    <3>6. QED  BY <3>4, <3>5 DEF NamesUnder
  <2>3. QED  BY <2>1, <2>2
<1>9. ASSUME NEW e \in Seq(Steps)
      PROVE  WaysInMembers(ways, id, name \o e)
                = NamesUnder(name \o e, WaysInMembers(ways, id, <<>>))
  <2>1. ASSUME NEW x \in WaysInMembers(ways, id, name \o e)
        PROVE  x \in NamesUnder(name \o e, WaysInMembers(ways, id, <<>>))
    <3>0. LeadsTo(name \o e, x)  BY <1>4
    <3>1. PICK m \in 1..N : \E w \in ways[mem[m]] : x = (name \o e \o <<step(m)>>) \o w
      BY <3>0 DEF LeadsTo
    <3>2. PICK w \in ways[mem[m]] : x = (name \o e \o <<step(m)>>) \o w  BY <3>1
    <3>3. x = (name \o e) \o ((<<>> \o <<step(m)>>) \o w)  BY <1>6, <3>2
    <3>4. (<<>> \o <<step(m)>>) \o w \in WaysInMembers(ways, id, <<>>)  BY <1>4 DEF LeadsTo
    <3>5. QED  BY <3>3, <3>4 DEF NamesUnder
  <2>2. ASSUME NEW x \in NamesUnder(name \o e, WaysInMembers(ways, id, <<>>))
        PROVE  x \in WaysInMembers(ways, id, name \o e)
    <3>1. PICK v \in WaysInMembers(ways, id, <<>>) : x = (name \o e) \o v  BY DEF NamesUnder
    <3>0. LeadsTo(<<>>, v)  BY <1>4
    <3>2. PICK m \in 1..N : \E w \in ways[mem[m]] : v = (<<>> \o <<step(m)>>) \o w
      BY <3>0 DEF LeadsTo
    <3>3. PICK w \in ways[mem[m]] : v = (<<>> \o <<step(m)>>) \o w  BY <3>2
    <3>4. x = (name \o e \o <<step(m)>>) \o w  BY <1>6, <3>1, <3>3
    <3>5. LeadsTo(name \o e, x)  BY <3>4 DEF LeadsTo
    <3>6. QED  BY <1>4, <3>5
  <2>3. QED  BY <2>1, <2>2
<1>10. QED  BY <1>7, <1>8, <1>9
\* What a struct adds, or an array of structs.
LEMMA StructCovers ==
  ASSUME ir \in Programs, NEW nested \in NestedLists, NEW ways, NEW id \in Nat, IsStruct(id),
         NestedCovered(nested, ways, id, Dims(id) # <<>>), MembersApart(id),
         NEW name \in Seq(Steps), Dims(id) # <<>> \/ NamedUnder(id, name)
  PROVE  Covers(StructUniforms(nested, id, name), NamesUnder(name, WaysFrom(ways, id)))
<1> DEFINE K == Dims(id)[1]
           list(n) == Parent(name, "Struct", Members(nested, id, ElementName(name, n)))
           elements == [n \in 1..K |-> list(n)]
           W == [n \in 1..K |-> WaysInMembers(ways, id, ElementName(name, n))]
<1>1. StructUniforms(nested, id, name) =
            IF Dims(id) # <<>> THEN Parent(name, "Array", elements)
            ELSE IF name = <<>> THEN Joined(Members(nested, id, name))
            ELSE Parent(name, "Struct", Members(nested, id, name))
  BY DEF StructUniforms
<1>2. /\ \A base \in Seq(Steps) : WaysInMembers(ways, id, base) \in SUBSET Seq(Steps)
      /\ NamesUnder(name, WaysFrom(ways, id)) =
                UNION {WaysInMembers(ways, id, name \o e) : e \in Indices(id)}
      /\ \A e \in Seq(Steps) : WaysInMembers(ways, id, name \o e)
                = NamesUnder(name \o e, WaysInMembers(ways, id, <<>>))
  BY WaysByMembers DEF NestedCovered
<1>3. CASE Dims(id) = <<>>
  <2>1. Indices(id) = {<<>>} /\ name \o <<>> = name  BY <1>3, NamesAreSequences DEF Indices
  <2>2. NamesUnder(name, WaysFrom(ways, id)) = WaysInMembers(ways, id, name)
    BY <1>2, <2>1
  <2>3. /\ Joined(Members(nested, id, name)) \in Lists
        /\ Covers(Joined(Members(nested, id, name)), WaysInMembers(ways, id, name))
    BY <1>3, MembersCover
  <2>4. Covers(Parent(name, "Struct", Members(nested, id, name)),
               WaysInMembers(ways, id, name))
    BY <2>3, ParentCovers
  <2>5. QED  BY <1>1, <1>3, <2>2, <2>3, <2>4
<1>4. CASE Dims(id) # <<>>
  <2>1. K \in Nat
    <3>1. Dims(id) \in Seq(Nat)  BY ShapeIs
    <3>2. QED  BY <1>4, <3>1
  <2>2. ASSUME NEW n \in 1..K
        PROVE  /\ ElementStep(n - 1) \in Steps /\ <<ElementStep(n - 1)>> \in Seq(Steps)
               /\ ElementName(name, n) = name \o <<ElementStep(n - 1)>>
               /\ ElementName(name, n) \in Seq(Steps) /\ ElementName(name, n) # <<>>
    <3>1. n \in Nat \ {0} /\ n - 1 \in Nat  BY <2>1
    <3>2. ElementStep(n - 1) \in Steps  BY <3>1, StepsAre
    <3>3. <<ElementStep(n - 1)>> \in Seq(Steps)  BY <3>2
    <3>4. /\ ElementName(name, n) = name \o <<ElementStep(n - 1)>>
          /\ ElementName(name, n) \in Seq(Steps) /\ ElementName(name, n) # <<>>
      BY <3>1, NamesOfParts
    <3>5. QED  BY <3>2, <3>3, <3>4
  <2>3. ASSUME NEW n \in 1..K PROVE list(n) \in Lists /\ Covers(list(n), W[n])
    <3> DEFINE base == ElementName(name, n)
    <3>1. base \in Seq(Steps) /\ NamedUnder(id, base)  BY <2>2 DEF NamedUnder
    <3> HIDE DEF base
    <3>2. /\ Joined(Members(nested, id, base)) \in Lists
          /\ Covers(Joined(Members(nested, id, base)), WaysInMembers(ways, id, base))
      BY <3>1, MembersCover
    <3>3. /\ Parent(name, "Struct", Members(nested, id, base)) \in Lists
          /\ Covers(Parent(name, "Struct", Members(nested, id, base)),
                    WaysInMembers(ways, id, base))
      BY <3>2, ParentCovers
    <3>4. QED  BY <3>3 DEF base
  <2>4. elements \in Seq(Lists) /\ Len(elements) = K
    <3> HIDE DEF list
    <3>1. elements \in [1..K -> Lists]  BY <2>3
    <3> HIDE DEF elements, K
    <3>2. QED  BY <2>1, <3>1, SequenceOfLists
  <2>5. ASSUME NEW m \in 1..K, NEW n \in 1..K, m # n PROVE W[m] \cap W[n] = {}
    <3>1. m - 1 # n - 1  BY <2>1, <2>5
    <3>2. ElementStep(m - 1) # ElementStep(n - 1)  BY <3>1 DEF ElementStep
    <3> DEFINE S == WaysInMembers(ways, id, <<>>)
    <3>3. S \in SUBSET Seq(Steps)
      <4>1. <<>> \in Seq(Steps)  OBVIOUS
      <4>2. QED  BY <1>2, <4>1
    <3>4. \A k \in 1..K : W[k] = NamesUnder(name \o <<ElementStep(k - 1)>>, S)
      BY <1>2, <2>2
    <3> HIDE DEF S, W, K
    <3>5. QED  BY <2>2, <3>2, <3>3, <3>4, NamesApart
  <2>6. \A n \in 1..K : Covers(elements[n], W[n])  BY <2>3
  <2>7. UNION {W[n] : n \in 1..K} = NamesUnder(name, WaysFrom(ways, id))
    <3>1. Indices(id) = {<<ElementStep(n)>> : n \in 0..(K - 1)}  BY <1>4 DEF Indices
    <3>2. ASSUME NEW n \in 0..(K - 1) PROVE n + 1 \in 1..K /\ (n + 1) - 1 = n  BY <2>1
    <3>3. ASSUME NEW n \in 1..K PROVE n - 1 \in 0..(K - 1)  BY <2>1
    <3>4. Indices(id) = {<<ElementStep(n - 1)>> : n \in 1..K}
      <4> HIDE DEF K
      <4>1. ASSUME NEW n \in 0..(K - 1)
            PROVE  \E k \in 1..K : <<ElementStep(n)>> = <<ElementStep(k - 1)>>
        <5>1. n + 1 \in 1..K /\ ElementStep((n + 1) - 1) = ElementStep(n)  BY <3>2
        <5>2. QED  BY <5>1
      <4>2. QED  BY <3>1, <3>3, <4>1
    <3>5. UNION {W[n] : n \in 1..K}
            = UNION {WaysInMembers(ways, id, name \o <<ElementStep(n - 1)>>) : n \in 1..K}
      BY <2>2
    <3> HIDE DEF K, W
    <3>6. QED  BY <1>2, <3>4, <3>5
  <2> HIDE DEF elements, W, K
  <2>8. Joined(elements) \in Lists /\ Covers(Joined(elements), UNION {W[n] : n \in 1..K})
    BY <2>4, <2>5, <2>6, JoinedCovers
  <2>9. Covers(Parent(name, "Array", elements), NamesUnder(name, WaysFrom(ways, id)))
    BY <2>7, <2>8, ParentCovers
  <2>10. QED  BY <1>1, <1>4, <2>9
<1>5. QED  BY <1>3, <1>4

\* Structs nested to any depth.
LEMMA NestedStructsCover ==
  ASSUME ir \in Programs, \A s \in Positions(ir, "TypeStruct") : DistinctMembers(s)
  PROVE  \A d \in 0..Len(ir) : \A id \in Nat, inArray \in BOOLEAN, name \in Seq(Steps) :
            /\ IsStruct(id) /\ FollowedAt[d][<<id, inArray>>]
            /\ Dims(id) # <<>> \/ NamedUnder(id, name)
            => Covers(GetStructUniforms[d][<<id, name>>], NamesUnder(name, WaysAt[d][id]))
<1> DEFINE N == Len(ir)
           Hyp(d, id, inArray, name) ==
                /\ IsStruct(id) /\ FollowedAt[d][<<id, inArray>>]
                /\ Dims(id) # <<>> \/ NamedUnder(id, name)
           Holds(d) == \A id \in Nat, inArray \in BOOLEAN, name \in Seq(Steps) :
                Hyp(d, id, inArray, name)
                => Covers(GetStructUniforms[d][<<id, name>>], NamesUnder(name, WaysAt[d][id]))
           T == {d \in 0..N : Holds(d)}
<1>1. N \in Nat  BY ProgramRead
<1>2. 0 \in T
  <2>1. 0 \in 0..N  BY <1>1
  <2>2. ASSUME NEW id \in Nat, NEW inArray \in BOOLEAN, NEW name \in Seq(Steps),
               Hyp(0, id, inArray, name)
        PROVE  Covers(GetStructUniforms[0][<<id, name>>], NamesUnder(name, WaysAt[0][id]))
    <3>1. GetStructUniforms[0][<<id, name>>] = <<>>  BY <2>1, UniformListsUnfold
    <3>2. WaysAt[0][id] = {}  BY <2>1, <2>2, WaysUnfold
    <3>3. NamesUnder(name, {}) = {}  BY DEF NamesUnder
    <3>4. QED  BY <3>1, <3>2, <3>3, EmptyCovers
  <2> HIDE DEF Hyp
  <2>3. Holds(0)  BY <2>2
  <2> HIDE DEF Holds, N
  <2>4. QED  BY <2>1, <2>3
<1>3. ASSUME NEW d \in 1..N, d - 1 \in T PROVE d \in T
  <2>1. d \in 0..N /\ d - 1 \in 0..N /\ d # 0  BY <1>1
  <2>2. ASSUME NEW id \in Nat, NEW inArray \in BOOLEAN, NEW name \in Seq(Steps),
               Hyp(d, id, inArray, name)
        PROVE  Covers(GetStructUniforms[d][<<id, name>>], NamesUnder(name, WaysAt[d][id]))
    <3> DEFINE nested == GetStructUniforms[d - 1]
               ways == WaysAt[d - 1]
               mem == Instruction(id).members
               in == Dims(id) # <<>>
    <3>1. nested \in NestedLists
          /\ GetStructUniforms[d][<<id, name>>] = StructUniforms(nested, id, name)
      BY <2>1, <2>2, UniformListsUnfold
    <3>2. WaysAt[d][id] = WaysFrom(ways, id)  BY <2>1, <2>2, WaysUnfold
    <3>3. MembersFollowed(FollowedAt[d - 1], id)  BY <2>1, <2>2, FollowedUnfold
    <3>4. mem \in Seq(Nat)  BY <2>2, StructInstruction
    <3>5. ASSUME NEW m \in 1..Len(mem)
          PROVE  mem[m] \in Nat /\ FollowedAt[d - 1][<<mem[m], in>>]
      <4>1. mem[m] \in Nat  BY <3>4
      <4>2. QED  BY <2>2, <3>3, <4>1 DEF MembersFollowed
    <3>6. NestedCovered(nested, ways, id, in)
      <4>1. \A sub \in Nat : /\ ways[sub] \in SUBSET Seq(Steps)
                             /\ ~IsStruct(sub) => ways[sub] = Indices(sub)
        BY <2>1, WaysUnfold
      <4>2. ASSUME NEW m \in 1..Len(mem) PROVE OneArray(mem[m], in)
        <5>1. in \in BOOLEAN  OBVIOUS
        <5> HIDE DEF in, mem
        <5>2. QED  BY <2>1, <3>5, <5>1, FollowedUnfold
      <4>3. ASSUME NEW m \in 1..Len(mem), IsStruct(mem[m]), NEW full \in Seq(Steps), full # <<>>
            PROVE  Covers(nested[<<mem[m], full>>], NamesUnder(full, ways[mem[m]]))
        <5>1. in \in BOOLEAN /\ NamedUnder(mem[m], full)  BY <4>3 DEF NamedUnder
        <5>2. mem[m] \in Nat /\ FollowedAt[d - 1][<<mem[m], in>>]  BY <3>5
        <5>3. Hyp(d - 1, mem[m], in, full)  BY <4>3, <5>1, <5>2
        <5>4. Holds(d - 1)  BY <1>3
        <5> HIDE DEF Hyp, in, mem
        <5>5. QED  BY <5>1, <5>2, <5>3, <5>4
      <4> HIDE DEF in, nested, ways
      <4>4. QED  BY <4>1, <4>2, <4>3 DEF NestedCovered
    <3>7. MembersApart(id)
      <4>1. PICK s \in Positions(ir, "TypeStruct") : Instruction(id) = ir[s]
        BY <2>2, StructInstruction
      <4>2. DistinctMembers(s)  BY <4>1
      <4>3. DOMAIN mem = 1..Len(mem)  BY <3>4
      <4>4. QED  BY <4>1, <4>2, <4>3 DEF DistinctMembers, MembersApart, MemberNamed
    <3>8. Dims(id) # <<>> \/ NamedUnder(id, name)  BY <2>2
    <3>9. IsStruct(id)  BY <2>2
    <3> HIDE DEF nested, ways
    <3>10. Covers(StructUniforms(nested, id, name), NamesUnder(name, WaysFrom(ways, id)))
      BY <3>1, <3>6, <3>7, <3>8, <3>9, StructCovers
    <3>11. QED  BY <3>1, <3>2, <3>10
  <2> HIDE DEF Hyp
  <2>3. Holds(d)  BY <2>2
  <2> HIDE DEF Holds, N
  <2>4. QED  BY <2>1, <2>3
<1>4. 0..N \subseteq T
  <2> HIDE DEF T, N
  <2>1. QED  BY <1>1, <1>2, <1>3, BoundedInduction
<1>5. \A d \in 0..N : Holds(d)
  <2> HIDE DEF Holds
  <2>1. QED  BY <1>4
<1>6. QED  BY <1>5
-----------------------------------------------------------------------------
\* Resources.
LEMMA ResourceIs ==
  ASSUME ir \in Programs, NEW k \in Outside(ir)
  PROVE  /\ k \in 1..Len(ir) /\ TypeOf(k) \in Nat
         /\ BaseName(k) \in Seq(Steps) /\ BlockName(k) \in Seq(Steps)
<1>1. k \in 1..Len(ir) /\ ir[k].op = "Variable" /\ IsInstruction(ir[k])
  BY ProgramRead DEF Outside, Positions
<1>2. ir[k].type \in Nat  BY <1>1 DEF IsInstruction, OfAType
<1>3. Pointee(ir, ir[k].type) \in Nat
  <2> DEFINE t == ir[k].type
             IsIt(l) == l \in DOMAIN ir /\ ir[l].op \in TypeOps /\ ir[l].id = t
             c == CHOOSE l : IsIt(l)
  <2>1. CASE IsPointer(ir, t)
    <3>1. \E l : IsIt(l)  BY <2>1 DEF IsPointer, IsDeclared
    <3>2. IsIt(c)
      <4> HIDE DEF IsIt
      <4>1. QED  BY <3>1
    <3>3. TypeAt(ir, t) = c  BY Zenon DEF TypeAt
    <3> HIDE DEF c
    <3>4. c \in 1..Len(ir) /\ ir[c].op = "TypePointer"
      BY <2>1, <3>2, <3>3, ProgramRead DEF IsPointer
    <3>5. ir[c].type \in Nat  BY <3>4, ProgramRead DEF IsInstruction, OfAType
    <3>6. Pointee(ir, t) = ir[c].type  BY <2>1, <3>3 DEF Pointee
    <3>7. QED  BY <3>5, <3>6
  <2>2. CASE ~IsPointer(ir, t)  BY <1>2, <2>2 DEF Pointee
  <2>3. QED  BY <2>1, <2>2
<1>4. \A name \in Names : <<MemberStep(name)>> \in Seq(Steps)
  <2>1. \A name \in Names : MemberStep(name) \in Steps  BY StepsAre
  <2>2. QED  BY <2>1
<1>5. BaseName(k) \in Seq(Steps)
  <2>1. NameAt(k) \in Names  BY NamesGiven DEF NameAt
  <2>2. <<>> \in Seq(Steps)  OBVIOUS
  <2>3. QED  BY <1>4, <2>1, <2>2 DEF BaseName
<1>6. BlockName(k) \in Seq(Steps)
  <2>1. ResourceName(ir, k) \in Names  BY ResourceNamesAssumption DEF Outside
  <2>2. QED  BY <1>4, <2>1 DEF BlockName
<1>7. TypeOf(k) \in Nat  BY <1>3, ShapeIs DEF TypeOf
<1>8. QED  BY <1>1, <1>5, <1>6, <1>7

\* A resource is of one kind.
LEMMA KindsApart ==
  ASSUME ir \in Programs
  PROVE  /\ StorageBuffers \cap (UniformBuffers \cup SampledImages \cup StorageImages) = {}
         /\ UniformBuffers \cap (SampledImages \cup StorageImages) = {}
         /\ SampledImages \cap StorageImages = {}
<1>1. StorageBuffers \cap UniformBuffers = {}
  <2>1. "Uniform" # "StorageBuffer"  OBVIOUS
  <2>2. QED  BY <2>1 DEF StorageBuffers, UniformBuffers, StructsOf, OfStorage
<1>2. ASSUME NEW k \in StorageBuffers \cup UniformBuffers PROVE IsStruct(TypeOf(k))
  BY DEF StorageBuffers, UniformBuffers, StructsOf
<1>3. ASSUME NEW id \in Nat, NEW kind \in {"SampledImage", "StorageImage"}, IsKind(id, kind)
      PROVE  ~IsStruct(id)
  <2>1. kind \in OtherTypes /\ "Array" \in OtherTypes /\ kind # "Array"  BY DEF OtherTypes
  <2>2. ~IsDeclared(ir, id) /\ ~IsArray(id)  BY <1>3, <2>1, OthersAre DEF IsArray
  <2>3. Element(id) = id  BY <2>2, ShapeIs
  <2>4. QED  BY <2>2, <2>3 DEF IsStruct
<1>4. ASSUME NEW k \in SampledImages \cup StorageImages
      PROVE  k \notin StorageBuffers \cup UniformBuffers
  <2>1. k \in Outside(ir)  BY DEF SampledImages, StorageImages, OfStorage
  <2>2. TypeOf(k) \in Nat  BY <2>1, ResourceIs
  <2>3. IsKind(TypeOf(k), "SampledImage") \/ IsKind(TypeOf(k), "StorageImage")
    BY DEF SampledImages, StorageImages
  <2>4. QED  BY <1>2, <1>3, <2>2, <2>3
<1>5. SampledImages \cap StorageImages = {}
  <2>1. "SampledImage" \in OtherTypes /\ "StorageImage" \in OtherTypes
        /\ "SampledImage" # "StorageImage"
    BY DEF OtherTypes
  <2>2. QED  BY <2>1, OthersAre DEF SampledImages, StorageImages
<1>6. QED  BY <1>1, <1>4, <1>5

\* What is reported of some resources, in order.
LEMMA InOrderCovers ==
  ASSUME ir \in Programs, NEW R \in SUBSET Outside(ir), NEW of \in [R -> Lists],
         \A k \in R : Covers(of[k], WaysTo(k)),
         \A k, l \in R : k # l => WaysTo(k) \cap WaysTo(l) = {}
  PROVE  InOrder(of) \in Lists /\ Covers(InOrder(of), UNION {WaysTo(k) : k \in R})
<1> DEFINE N == Len(ir)
           parts == [k \in 1..N |-> IF k \in DOMAIN of THEN of[k] ELSE <<>>]
           W == [k \in 1..N |-> IF k \in R THEN WaysTo(k) ELSE {}]
<1>1. N \in Nat /\ R \subseteq 1..N /\ DOMAIN of = R  BY ProgramRead, ResourceIs
<1>2. ASSUME NEW k \in 1..N PROVE parts[k] \in Lists /\ Covers(parts[k], W[k])
  <2>1. CASE k \in R
    <3>1. parts[k] = of[k] /\ W[k] = WaysTo(k)  BY <1>1, <2>1
    <3>2. QED  BY <2>1, <3>1
  <2>2. CASE k \notin R
    <3>1. parts[k] = <<>> /\ W[k] = {}  BY <1>1, <2>2
    <3> HIDE DEF parts, W
    <3>2. QED  BY <3>1, EmptyCovers
  <2>3. QED  BY <2>1, <2>2
<1>3. parts \in Seq(Lists) /\ Len(parts) = N
  <2>1. parts \in [1..N -> Lists]  BY <1>2
  <2> HIDE DEF parts, N
  <2>2. QED  BY <1>1, <2>1, SequenceOfLists
<1>4. \A k, l \in 1..N : k # l => W[k] \cap W[l] = {}  OBVIOUS
<1>5. UNION {W[k] : k \in 1..N} = UNION {WaysTo(k) : k \in R}  BY <1>1
<1>6. InOrder(of) = Joined(parts)  BY DEF InOrder
<1> HIDE DEF parts, W, N
<1>7. Joined(parts) \in Lists /\ Covers(Joined(parts), UNION {W[k] : k \in 1..N})
  BY <1>2, <1>3, <1>4, JoinedCovers
<1>8. QED  BY <1>5, <1>6, <1>7

\* What is reported of one resource.
LEMMA ResourceCovers ==
  ASSUME ir \in Programs, \A s \in Positions(ir, "TypeStruct") : DistinctMembers(s),
         \A k \in UniformBuffers : /\ Followed(TypeOf(k))
                                   /\ BaseName(k) = <<>> => MembersHaveNames(k)
  PROVE  /\ \A k \in UniformBuffers : BufferUniforms(k) \in Lists
                                      /\ Covers(BufferUniforms(k), WaysTo(k))
         /\ \A k \in StorageBuffers :
                LET leaf == Leaf(BlockName(k), <<"StorageBuffer", 0>>)
                IN  leaf \in Lists /\ Covers(leaf, WaysTo(k))
         /\ \A k \in SampledImages \cup StorageImages, type \in {"Sampler", "Image"} :
                LET leaf == Leaf(BaseName(k), <<type, 0>>)
                IN  leaf \in Lists /\ Covers(leaf, WaysTo(k))
<1>1. ASSUME NEW k \in UniformBuffers
      PROVE  BufferUniforms(k) \in Lists /\ Covers(BufferUniforms(k), WaysTo(k))
  <2> DEFINE id == TypeOf(k)
             name == BaseName(k)
  <2>1. k \in Outside(ir) /\ IsStruct(id)  BY DEF UniformBuffers, StructsOf, OfStorage
  <2>2. id \in Nat /\ name \in Seq(Steps)  BY <2>1, ResourceIs
  <2>3. Len(ir) \in 0..Len(ir)  BY ProgramRead
  <2>4. FollowedAt[Len(ir)][<<id, FALSE>>]  BY DEF Followed
  <2>5. NamedUnder(id, name)
    <3>1. Instruction(id).members \in Seq(Nat)  BY <2>1, <2>2, StructInstruction
    <3>2. DOMAIN Instruction(id).members = 1..Len(Instruction(id).members)  BY <3>1
    <3>3. name = <<>> => MembersHaveNames(k)  OBVIOUS
    <3>4. QED  BY <3>2, <3>3 DEF NamedUnder, MembersHaveNames, MemberNamed
  <2>6. WaysTo(k) = NamesUnder(name, WaysAt[Len(ir)][id])  BY DEF WaysTo, NamesUnder
  <2>7. BufferUniforms(k) = GetStructUniforms[Len(ir)][<<id, name>>]  BY DEF BufferUniforms
  <2> HIDE DEF id, name
  <2>8. GetStructUniforms[Len(ir)] \in NestedLists  BY <2>3, UniformListsUnfold
  <2>9. GetStructUniforms[Len(ir)][<<id, name>>] \in Lists  BY <2>2, <2>8 DEF NestedLists
  <2>10. Covers(GetStructUniforms[Len(ir)][<<id, name>>],
                NamesUnder(name, WaysAt[Len(ir)][id]))
    <3>1. FALSE \in BOOLEAN  OBVIOUS
    <3>2. IsStruct(id)  BY <2>1 DEF id
    <3>3. FollowedAt[Len(ir)][<<id, FALSE>>]  BY <2>4 DEF id
    <3>4. QED  BY <2>2, <2>3, <2>5, <3>1, <3>2, <3>3, NestedStructsCover
  <2>11. QED  BY <2>6, <2>7, <2>9, <2>10
<1>2. ASSUME NEW name \in Seq(Steps), NEW type \in {"StorageBuffer", "Sampler", "Image"}
      PROVE  Leaf(name, <<type, 0>>) \in Lists /\ Covers(Leaf(name, <<type, 0>>), {name})
  <2>1. <<type, 0>> \in VarTypes  BY DEF VarTypes
  <2>2. <<type, 0>> \notin {<<"Struct", 0>>, <<"Array", 0>>}  OBVIOUS
  <2>3. QED  BY <2>1, <2>2, LeafCovers
<1>3. ASSUME NEW k \in StorageBuffers
      PROVE  k \in Outside(ir) /\ WaysTo(k) = {BlockName(k)}
  <2>1. k \notin UniformBuffers  BY KindsApart
  <2>2. QED  BY <2>1 DEF WaysTo, StorageBuffers, StructsOf, OfStorage
<1>4. ASSUME NEW k \in SampledImages \cup StorageImages
      PROVE  k \in Outside(ir) /\ WaysTo(k) = {BaseName(k)}
  <2>1. k \notin UniformBuffers /\ k \notin StorageBuffers  BY KindsApart
  <2>2. QED  BY <2>1 DEF WaysTo, SampledImages, StorageImages, OfStorage
<1>5. QED  BY <1>1, <1>2, <1>3, <1>4, ResourceIs
\* All of the resources.
LEMMA ResourcesCovered ==
  ASSUME ir \in Programs, \A s \in Positions(ir, "TypeStruct") : DistinctMembers(s),
         \A k \in UniformBuffers : /\ Followed(TypeOf(k))
                                   /\ BaseName(k) = <<>> => MembersHaveNames(k),
         NEW all,
         all = StorageBuffers \cup UniformBuffers \cup SampledImages \cup StorageImages,
         \A k, l \in all : k # l => WaysTo(k) \cap WaysTo(l) = {}
  PROVE  Covers(GetUniforms, UNION {WaysTo(k) : k \in all})
<1> DEFINE A == StorageBuffers
           B == UniformBuffers
           C == SampledImages
           D == StorageImages
           a == [k \in A |-> Leaf(BlockName(k), <<"StorageBuffer", 0>>)]
           b == [k \in B |-> BufferUniforms(k)]
           c == [k \in C |-> Leaf(BaseName(k), <<"Sampler", 0>>)]
           d == [k \in D |-> Leaf(BaseName(k), <<"Image", 0>>)]
           ways(R) == UNION {WaysTo(k) : k \in R}
<1>1. /\ A \subseteq Outside(ir) /\ B \subseteq Outside(ir)
      /\ C \subseteq Outside(ir) /\ D \subseteq Outside(ir)
  BY DEF StorageBuffers, UniformBuffers, SampledImages, StorageImages, StructsOf, OfStorage
<1>2. /\ a \in [A -> Lists] /\ \A k \in A : Covers(a[k], WaysTo(k))
      /\ b \in [B -> Lists] /\ \A k \in B : Covers(b[k], WaysTo(k))
      /\ c \in [C -> Lists] /\ \A k \in C : Covers(c[k], WaysTo(k))
      /\ d \in [D -> Lists] /\ \A k \in D : Covers(d[k], WaysTo(k))
  BY ResourceCovers
<1>3. /\ A \cap (B \cup C \cup D) = {} /\ B \cap (C \cup D) = {} /\ C \cap D = {}
  BY KindsApart
<1>4. GetUniforms = InOrder(a) \o InOrder(b) \o InOrder(c) \o InOrder(d)  BY DEF GetUniforms
<1> HIDE DEF A, B, C, D, a, b, c, d
<1>5. all = A \cup B \cup C \cup D  BY DEF A, B, C, D
<1>6. /\ InOrder(a) \in Lists /\ Covers(InOrder(a), ways(A))
      /\ InOrder(b) \in Lists /\ Covers(InOrder(b), ways(B))
      /\ InOrder(c) \in Lists /\ Covers(InOrder(c), ways(C))
      /\ InOrder(d) \in Lists /\ Covers(InOrder(d), ways(D))
  <2>1. ASSUME NEW R \in SUBSET Outside(ir), R \subseteq all, NEW of \in [R -> Lists],
               \A k \in R : Covers(of[k], WaysTo(k))
        PROVE  InOrder(of) \in Lists /\ Covers(InOrder(of), ways(R))
    BY <2>1, InOrderCovers
  <2>2. A \subseteq all /\ B \subseteq all /\ C \subseteq all /\ D \subseteq all  BY <1>5
  <2> HIDE DEF ways
  <2>3. InOrder(a) \in Lists /\ Covers(InOrder(a), ways(A))  BY <1>1, <1>2, <2>1, <2>2
  <2>4. InOrder(b) \in Lists /\ Covers(InOrder(b), ways(B))  BY <1>1, <1>2, <2>1, <2>2
  <2>5. InOrder(c) \in Lists /\ Covers(InOrder(c), ways(C))  BY <1>1, <1>2, <2>1, <2>2
  <2>6. InOrder(d) \in Lists /\ Covers(InOrder(d), ways(D))  BY <1>1, <1>2, <2>1, <2>2
  <2>7. QED  BY <2>3, <2>4, <2>5, <2>6
<1>7. ASSUME NEW R \in SUBSET all, NEW S \in SUBSET all, R \cap S = {}
      PROVE  ways(R) \cap ways(S) = {} /\ ways(R \cup S) = ways(R) \cup ways(S)
  <2>1. \A k \in R, l \in S : WaysTo(k) \cap WaysTo(l) = {}  BY <1>7
  <2>2. QED  BY <2>1
<1> HIDE DEF ways
<1>8. /\ InOrder(a) \o InOrder(b) \in Lists
      /\ Covers(InOrder(a) \o InOrder(b), ways(A \cup B))
  <2>1. A \in SUBSET all /\ B \in SUBSET all /\ A \cap B = {}  BY <1>3, <1>5
  <2>2. QED  BY <1>6, <1>7, <2>1, ConcatCovers
<1>9. /\ InOrder(a) \o InOrder(b) \o InOrder(c) \in Lists
      /\ Covers(InOrder(a) \o InOrder(b) \o InOrder(c), ways(A \cup B \cup C))
  <2>1. A \cup B \in SUBSET all /\ C \in SUBSET all /\ (A \cup B) \cap C = {}
    BY <1>3, <1>5
  <2>2. QED  BY <1>6, <1>7, <1>8, <2>1, ConcatCovers
<1>10. Covers(InOrder(a) \o InOrder(b) \o InOrder(c) \o InOrder(d), ways(A \cup B \cup C \cup D))
  <2>1. A \cup B \cup C \in SUBSET all /\ D \in SUBSET all /\ (A \cup B \cup C) \cap D = {}
    BY <1>3, <1>5
  <2>2. QED  BY <1>6, <1>7, <1>9, <2>1, ConcatCovers
<1>11. QED  BY <1>4, <1>5, <1>10 DEF ways

\* The leaves that GetUniforms reports of any program are the ways into its buffers,
\* each once, and its storage buffers and images.
THEOREM LeavesAlwaysThePaths == Spec => []LeavesAreThePaths
<1>1. ReadersInv => LeavesAreThePaths
  <2> SUFFICES ASSUME ReadersInv, Done, ir # <<>>
               PROVE  LeavesAreThePaths
    BY DEF LeavesAreThePaths
  <2>1. ir \in Programs  BY DEF ReadersInv
  <2>2. QED  BY <2>1, ResourcesCovered DEF LeavesAreThePaths
<1>2. QED  BY <1>1, ReadersInit, ReadersStep, PTL DEF Spec
=============================================================================
