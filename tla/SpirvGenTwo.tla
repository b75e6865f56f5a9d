---------------------------- MODULE SpirvGenTwo ----------------------------
(***************************************************************************)
(* shadertrans::SpirvGenTwo, the functions that append instructions to the *)
(* basic blocks of one function created by CreateFunc.  A value is known   *)
(* by its type; Null is the null pointer that every operation returns when *)
(* it cannot apply, and that its caller passes on.                         *)
(*                                                                         *)
(* Variables of the function (func->variable) are declared by the library  *)
(* ahead of the instructions of its blocks, so they are kept apart.  An    *)
(* instruction keeps the blocks that it names and, for a store made by     *)
(* AddVariable, the variable and the value.                                *)
(*                                                                         *)
(* The caller is assumed to append only to blocks that it has not ended    *)
(* and to give every block one role, arm or merge, in one If: OpenBlocks   *)
(* and FreshBlocks guard what the callers decide.  What the code decides   *)
(* by itself (empty and exited arms, a second Return, null operands, the   *)
(* block that AddVariable and FuncCall append to, the type of a variable)  *)
(* is not assumed.                                                         *)
(***************************************************************************)
EXTENDS Integers, Sequences

CONSTANTS
    Null,           \* the null pointer
    Types,          \* types of the values that callers pass, of ValueTypes
    MaxBlocks,      \* bound on the blocks of the function
    MaxCalls        \* bound on the calls other than AddBlock and If

\* create_type knows no vectors of integers; values of these types come from the
\* functions of compiled libraries.
ScalarTypes  == {"int", "float"}
FloatVectors == {"vec2", "vec3", "vec4"}
IntVectors   == {"ivec2", "ivec3", "ivec4"}
VectorTypes  == FloatVectors \cup IntVectors
ValueTypes   == ScalarTypes \cup VectorTypes \cup {"bool", "sampler"}

ASSUME TypesAssumption == Types \subseteq ValueTypes /\ Null \notin ValueTypes
ASSUME BlocksAssumption == MaxBlocks \in Nat \ {0} /\ MaxCalls \in Nat

VARIABLES
    blocks,         \* the instructions of every block; block 1 is FunctionEntry
    variables,      \* the function's variables: type, and AddVariable's value or Null
    ifs,            \* history: the Ifs built, with their merge blocks
    calls           \* history: how many calls other than AddBlock and If appended

vars == <<blocks, variables, ifs, calls>>

-----------------------------------------------------------------------------
Values == Types \cup {Null}
Entry == 1
Blocks == DOMAIN blocks
NoBlock == 0        \* a block parameter that is nullptr
NoVariable == 0     \* of an instruction that is not AddVariable's store
MaxParams == 16     \* the parameters that FuncCall can pass

Exits == {"kill", "return", "returnValue"}
Terminators == Exits \cup {"branch", "branchConditional"}

Inst(op, to) == [op |-> op, to |-> to, var |-> NoVariable, value |-> Null]
Set(variable, value) == [op |-> "store", to |-> <<>>, var |-> variable, value |-> value]

\* What the code asks of a block: back().isTerminator().
Terminated(b) == blocks[b] # <<>> /\ blocks[b][Len(blocks[b])].op \in Terminators

\* The caller's discipline: the blocks that nobody has ended yet.
OpenBlocks == {b \in Blocks : \A i \in DOMAIN blocks[b] : blocks[b][i].op \notin Terminators}
Roles(i) == {ifs[i].true, ifs[i].false, ifs[i].merge}
FreshBlocks == Blocks \ ({Entry} \cup UNION {Roles(i) : i \in DOMAIN ifs})

-----------------------------------------------------------------------------
\* CreateFunc leaves one empty block.
Init == blocks = << <<>> >> /\ variables = <<>> /\ ifs = <<>> /\ calls = 0

AddBlock ==
    /\ Len(blocks) < MaxBlocks
    /\ blocks' = Append(blocks, <<>>)
    /\ UNCHANGED <<variables, ifs, calls>>

\* When an operation applies to the operands that it must have.  vectorOp: Normalize,
\* Length.  scalarOp: Negate, Max, Min, Clamp, by the type of the first operand.  The
\* others only refuse null operands: they are compute, sample, load, or store.
Accepts(op, args) ==
    /\ \A i \in DOMAIN args : args[i] # Null
    /\ op = "vectorOp" => args[1] \in VectorTypes
    /\ op = "scalarOp" => args[1] \in ScalarTypes

AppendTo(b, inst) ==
    /\ calls < MaxCalls
    /\ blocks' = [blocks EXCEPT ![b] = Append(@, inst)]
    /\ calls' = calls + 1
    /\ UNCHANGED ifs

Emit(b, op, args) ==
    Accepts(op, args) /\ AppendTo(b, Inst(op, <<>>)) /\ UNCHANGED variables

\* ImageSample may be given no level of detail, and then lets the driver choose.
ImageSample(b, img, uv, lod) ==
    Emit(b, IF lod = Null THEN "sample" ELSE "sampleLod", <<img, uv>>)

\* An operation that does not apply returns null and appends nothing: a stuttering
\* step, as is a Store with a null operand.  Clamp, Mix and ComposeFloat3 and 4 check
\* their third and fourth operand as the second.
Operation(b) ==
    \/ \E op \in {"vectorOp", "scalarOp", "compute", "load"}, x \in Values : Emit(b, op, <<x>>)
    \/ \E op \in {"scalarOp", "compute", "store"}, x, y \in Values : Emit(b, op, <<x, y>>)
    \/ \E img, uv, lod \in Values : ImageSample(b, img, uv, lod)

Components(type) ==
    CASE type \in {"vec2", "ivec2"} -> 2
      [] type \in {"vec3", "ivec3"} -> 3
      [] type \in {"vec4", "ivec4"} -> 4
      [] OTHER -> 1

FloatType(components) ==
    CASE components = 1 -> "float" [] components = 2 -> "vec2"
      [] components = 3 -> "vec3"  [] components = 4 -> "vec4"

\* VariableFloat, VariableFloat2, VariableFloat3 and VariableFloat4.
VariableFloat(components) ==
    /\ calls < MaxCalls
    /\ variables' = Append(variables, [type |-> FloatType(components), value |-> Null])
    /\ calls' = calls + 1
    /\ UNCHANGED <<blocks, ifs>>

\* Mutant: the switch lacks its breaks.
VariableTypeFallsThrough(value) ==
    IF value \in VectorTypes THEN "vec4"
    ELSE IF value \in ScalarTypes THEN value ELSE Null

\* The type of AddVariable's variable; Null when it makes none.  A vector gives a
\* vector of floats, whatever its components are.
VariableType(value) ==
    IF value \in VectorTypes THEN FloatType(Components(value))
    ELSE IF value \in ScalarTypes THEN value ELSE Null

\* AddVariable stores in FunctionEntry, whichever block the caller is filling, and
\* whether or not FunctionEntry was ended.
AddVariable(value) ==
    /\ value # Null /\ VariableType(value) # Null
    /\ variables' = Append(variables, [type |-> VariableType(value), value |-> value])
    /\ AppendTo(Entry, Set(Len(variables) + 1, value))

\* FuncCall calls from FunctionEntry, too, unless a parameter is null or there are
\* too many.
FuncCall(count, nulls) ==
    /\ nulls = 0 /\ count <= MaxParams
    /\ AppendTo(Entry, Inst("call", <<>>))
    /\ UNCHANGED variables

Exit(b, op) == AppendTo(b, Inst(op, <<>>)) /\ UNCHANGED variables

Kill(b) == Exit(b, "kill")

\* ReturnValue checks neither its operand nor the block.
ReturnValue(b) == Exit(b, "returnValue")

\* Mutant: Return does not look at the block.
ReturnAlways(b) == Exit(b, "return")

\* Return checks the block: any block will do.
Return(b) == ~Terminated(b) /\ Exit(b, "return")

\* Mutant: an arm is joined unless it is empty or killed.
JoinArmUnlessKilled(content, merge) ==
    IF content # <<>> /\ content[Len(content)].op # "kill"
    THEN Append(content, Inst("branch", <<merge>>)) ELSE content

\* What If leaves in an arm: a branch to the merge block, unless the arm is
\* empty or was exited.
JoinArm(content, merge) ==
    IF content # <<>> /\ content[Len(content)].op \notin Terminators
    THEN Append(content, Inst("branch", <<merge>>)) ELSE content

\* What If appends to the block it starts from; f is NoBlock without an else.
Header(t, f, m) ==
    << Inst("selectionMerge", <<m>>),
       Inst("branchConditional", <<t, IF f = NoBlock THEN m ELSE f>>) >>

\* Mutant: the true arm falls through into the false one.
RewiredFallThrough(b, content, bb, t, f, m) ==
    CASE b = bb -> content \o Header(t, f, m)
      [] b = t  -> JoinArm(content, IF f = NoBlock THEN m ELSE f)
      [] b = f  -> JoinArm(content, m)
      [] OTHER  -> content

\* The content of block b after an If from bb.
Rewired(b, content, bb, t, f, m) ==
    CASE b = bb       -> content \o Header(t, f, m)
      [] b \in {t, f} -> JoinArm(content, m)
      [] OTHER        -> content

\* Mutant: a merge block made by If is not added to the function.
BranchDetachedMerge(before, bb, t, f, m) ==
    blocks' = [b \in DOMAIN blocks |-> Rewired(b, before[b], bb, t, f, m)]

\* If over the blocks of the function, the merge block among them.
Branch(before, bb, t, f, m) ==
    blocks' = [b \in DOMAIN before |-> Rewired(b, before[b], bb, t, f, m)]

\* If without a merge block (NoBlock) adds one.
If(bb, cond, t, f, m) ==
    /\ cond # Null
    /\ bb # t /\ bb # f /\ t # f
    /\ \/ /\ m # NoBlock /\ m \notin {bb, t, f}
          /\ Branch(blocks, bb, t, f, m)
          /\ ifs' = Append(ifs, [header |-> bb, true |-> t, false |-> f, merge |-> m])
       \/ /\ m = NoBlock /\ Len(blocks) < MaxBlocks
          /\ LET new == Len(blocks) + 1
             IN  /\ Branch(Append(blocks, <<>>), bb, t, f, new)
                 /\ ifs' = Append(ifs, [header |-> bb, true |-> t, false |-> f, merge |-> new])
    /\ UNCHANGED <<variables, calls>>

Next ==
    \/ AddBlock
    \/ \E b \in OpenBlocks :
          Operation(b) \/ Kill(b) \/ ReturnValue(b)
    \/ \E b \in Blocks : Return(b)
    \/ \E v \in Values : AddVariable(v)
    \/ \E components \in 1..4 : VariableFloat(components)
    \/ \E count \in {0, 1, MaxParams, MaxParams + 1}, nulls \in {0, 1} :
          nulls <= count /\ FuncCall(count, nulls)
    \/ \E bb \in OpenBlocks, t \in FreshBlocks, f, m \in FreshBlocks \cup {NoBlock} :
          \E c \in Values : If(bb, c, t, f, m)

Spec == Init /\ [][Next]_vars

-----------------------------------------------------------------------------
Ops == Terminators \cup {"selectionMerge", "vectorOp", "scalarOp", "compute", "load", "store",
                         "sample", "sampleLod", "call"}

Insts == [op : Ops, to : Seq(1..MaxBlocks), var : Nat, value : Values]

TypeOK ==
    /\ blocks \in Seq(Seq(Insts)) /\ Len(blocks) \in 1..MaxBlocks
    /\ variables \in Seq([type : ScalarTypes \cup FloatVectors, value : Values])
    /\ ifs \in Seq([header : Blocks, true : Blocks, false : Blocks \cup {NoBlock}, merge : Blocks])
    /\ calls \in 0..MaxCalls

\* SpirvGenTwo.cpp:251-257,651: neither If nor Return ends a block that was ended.
\* The exception is FunctionEntry, where AddVariable and FuncCall append after the
\* terminator (lines 322 and 758) and Return, which looks at the last instruction
\* alone, then appends another.
TerminatorsAreLast ==
    \A b \in Blocks : \A i, j \in DOMAIN blocks[b] :
        (i < j /\ blocks[b][i].op \in Terminators) =>
            b = Entry /\ blocks[b][j].op \in {"store", "call", "return"}

\* A plain branch joins an arm to the merge block of its own If; and the header of
\* an If, whatever was nested in its arms or appended since, still declares that
\* merge block and branches to that If's true arm.
ArmsJoinOwnMerge ==
    /\ \A b \in Blocks : \A k \in DOMAIN blocks[b] : blocks[b][k].op = "branch" =>
          \E i \in DOMAIN ifs : /\ b \in {ifs[i].true, ifs[i].false}
                                /\ blocks[b][k].to = <<ifs[i].merge>>
    /\ \A i \in DOMAIN ifs : \E k \in DOMAIN blocks[ifs[i].header] :
          /\ blocks[ifs[i].header][k].to = <<ifs[i].merge>>
          /\ blocks[ifs[i].header][k + 1].to[1] = ifs[i].true

\* SpirvGenTwo.cpp:287-326: whatever else is declared and appended, each variable of
\* AddVariable is set once, in FunctionEntry, in the order of declaration, to its value;
\* the variables of VariableFloat are not.  The value is of the variable's type, but
\* for a vector of integers, which is stored into a vector of floats (lines 300-310) of
\* as many components.
VariablesAreSet ==
    /\ \A b \in Blocks : \A i \in DOMAIN blocks[b] :
          LET inst == blocks[b][i]
          IN  inst.var # NoVariable =>
                  /\ b = Entry /\ inst.var \in DOMAIN variables
                  /\ inst.value # Null /\ inst.value = variables[inst.var].value
                  /\ \/ inst.value = variables[inst.var].type
                     \/ /\ inst.value \in IntVectors /\ variables[inst.var].type \in FloatVectors
                        /\ Components(inst.value) = Components(variables[inst.var].type)
    /\ \A n \in DOMAIN variables : variables[n].value # Null =>
          \E i \in DOMAIN blocks[Entry] : blocks[Entry][i].var = n
    /\ \A i, j \in DOMAIN blocks[Entry] :
          (i < j /\ blocks[Entry][i].var # NoVariable /\ blocks[Entry][j].var # NoVariable) =>
              blocks[Entry][i].var < blocks[Entry][j].var

\* SpirvGenTwo.cpp:251 "check if user didnt exit controlflow via kill or similar":
\* an arm that was not exited is joined to the merge block.
UnexitedArmsAreJoined ==
    \A i \in DOMAIN ifs :
        \A b \in {ifs[i].true, ifs[i].false} \ {NoBlock} : b \notin OpenBlocks
=============================================================================
