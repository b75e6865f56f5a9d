-------------------------- MODULE ShaderReflection --------------------------
(***************************************************************************)
(* ShaderReflection::GetUniforms, read from the vector that SpirvParser    *)
(* scans.                                                                  *)
(*                                                                         *)
(* A reported name is the sequence of its steps: "u.a[0]" is the member u, *)
(* its member a and the element 0 of that.  Reported variables are listed  *)
(* each before its children, with the level that it is at.                 *)
(*                                                                         *)
(* Types are followed to a depth, at most the number of instructions: as   *)
(* types are declared before those that contain them, they do not nest any *)
(* deeper.  External: spirv-cross, which reads the declarations.           *)
(***************************************************************************)
EXTENDS FunctionReaders

CONSTANT ResourceName(_, _)     \* external: resource.name of a program's variable

ASSUME ResourceNamesAssumption ==
    \A p \in Programs : \A k \in Positions(p, "Variable") : ResourceName(p, k) \in Names
ASSUME ArraysAssumption ==
    \A inst \in Instructions : inst.op = "Other" /\ inst.kind = "Array" =>
        inst.type \in Nat /\ inst.length \in Nat

Depths == 0..Len(ir)

Steps == ({"member"} \X Names) \cup ({"element"} \X Nat)
MemberStep(name) == <<"member", name>>
ElementStep(n) == <<"element", n>>

\* The parts of a sequence of sequences joined, up to each one and all of them.
JoinedUpTo(parts) ==
    LET upTo[n \in 0..Len(parts)] == IF n = 0 THEN <<>> ELSE upTo[n - 1] \o parts[n]
    IN  upTo
Joined(parts) == JoinedUpTo(parts)[Len(parts)]

-----------------------------------------------------------------------------
(* What spirv-cross knows of a type: the dimensions, the innermost first,   *)
(* and the instruction of what remains without them.                        *)

ArrayOf(id) ==
    ir[CHOOSE k \in Positions(ir, "Other") : ir[k].kind = "Array" /\ ir[k].id = id]

ShapeAt ==
    LET at[d \in Depths] == [id \in Nat |->
            IF d = 0 \/ ~IsArray(id) THEN [dims |-> <<>>, of |-> id]
            ELSE LET inner == at[d - 1][ArrayOf(id).type]
                 IN  [inner EXCEPT !.dims = Append(@, ArrayOf(id).length)]]
    IN  at
Dims(id) == ShapeAt[Len(ir)][id].dims
Element(id) == ShapeAt[Len(ir)][id].of

Instruction(id) == ir[TypeAt(ir, Element(id))]
IsStruct(id) == IsDeclared(ir, Element(id)) /\ Instruction(id).op = "TypeStruct"

\* parse_spir_type: the dimensions of an array are not looked at.
ParseSpirType(id) ==
    IF ~IsDeclared(ir, Element(id)) THEN <<"Unknown", 0>>
    ELSE LET t == Instruction(id) IN
         CASE t.op \in Scalars -> <<t.op, 1>>
           [] t.op = "TypeVector" /\ ir[TypeAt(ir, t.type)].op \in {"Int", "Float"} ->
                <<ir[TypeAt(ir, t.type)].op, t.count>>
           [] t.op = "TypeMatrix" /\ ir[TypeAt(ir, t.type)].count = t.count -> <<"Mat", t.count>>
           [] OTHER -> <<"Unknown", 0>>

-----------------------------------------------------------------------------
(* Lists of variables.                                                     *)

Entry(name, type) == [level |-> 0, name |-> name, type |-> type]
Leaf(name, type) == <<Entry(name, type)>>
Children(list) == [n \in DOMAIN list |-> [list[n] EXCEPT !.level = @ + 1]]
Parent(name, type, parts) == <<Entry(name, <<type, 0>>)>> \o Children(Joined(parts))

\* A member's name after the name of what it is a member of.
MemberName(name, member) ==
    IF name = <<>> /\ member = "" THEN <<>> ELSE Append(name, MemberStep(member))

\* Mutant: the elements of an array of structs have the name of the array.
ElementNameOfArray(name, n) == name

\* base_name + "[" + i + "]"
ElementName(name, n) == Append(name, ElementStep(n - 1))

\* What a member of a struct adds to the children of a name, when nested structs add
\* what is given.
MemberUniforms(nested, id, base, m) ==
    LET struct == Instruction(id)
        sub == struct.members[m]
        full == MemberName(base, DeclaredMember(ir, struct.id, m))
    IN  IF IsStruct(sub) THEN nested[<<sub, full>>]
        ELSE IF Dims(id) = <<>> /\ Dims(sub) # <<>>
        THEN Parent(full, "Array", [n \in 1..Dims(sub)[1] |->
                Leaf(ElementName(full, n), ParseSpirType(sub))])
        ELSE Leaf(full, ParseSpirType(sub))
Members(nested, id, base) ==
    [m \in 1..Len(Instruction(id).members) |-> MemberUniforms(nested, id, base, m)]

\* What a struct under a name, or an array of structs, adds to a list of variables.
StructUniforms(nested, id, name) ==
    IF Dims(id) # <<>>
    THEN Parent(name, "Array", [n \in 1..Dims(id)[1] |->
            Parent(name, "Struct", Members(nested, id, ElementName(name, n)))])
    ELSE IF name = <<>> THEN Joined(Members(nested, id, name))
    ELSE Parent(name, "Struct", Members(nested, id, name))

\* get_struct_uniforms: the same for any nesting.
GetStructUniforms ==
    LET at[d \in Depths] == [args \in Nat \X Seq(Steps) |->
            IF d = 0 \/ ~IsStruct(args[1]) THEN <<>>
            ELSE StructUniforms(at[d - 1], args[1], args[2])]
    IN  at

-----------------------------------------------------------------------------
(* Resources.                                                              *)

OfStorage(storage) == {k \in Outside(ir) : ir[k].storage = storage}

\* base_type_id: what is left of the type without pointers and dimensions.
TypeOf(k) == Element(Pointee(ir, ir[k].type))

\* External: get_shader_resources, by storage class and the decoration of the type;
\* "Uniform" stands for both classes that the parser takes for uniforms.  Until SPIR-V
\* 1.3 a storage buffer is a BufferBlock of the class of uniforms.
StructsOf(storage) == {k \in OfStorage(storage) : IsStruct(TypeOf(k))}
UniformBuffers == {k \in StructsOf("Uniform") : IsKind(TypeOf(k), "Block")}
StorageBuffers == StructsOf("StorageBuffer")
    \cup {k \in StructsOf("Uniform") \ UniformBuffers : IsKind(TypeOf(k), "BufferBlock")}
SampledImages  == {k \in OfStorage("Uniform") : IsKind(TypeOf(k), "SampledImage")}
StorageImages  == {k \in OfStorage("Uniform") : IsKind(TypeOf(k), "StorageImage")}

NameAt(k) == DeclaredName(ir, ir[k].id)
BaseName(k) == IF NameAt(k) = "" THEN <<>> ELSE <<MemberStep(NameAt(k))>>

\* A storage buffer has the name that spirv-cross chooses for it.
BlockName(k) == <<MemberStep(ResourceName(ir, k))>>

\* What GetUniforms reports of one buffer.
BufferUniforms(k) == GetStructUniforms[Len(ir)][<<TypeOf(k), BaseName(k)>>]

\* What is reported of the resources at a set of positions, in the order of the program.
InOrder(of) == Joined([k \in 1..Len(ir) |-> IF k \in DOMAIN of THEN of[k] ELSE <<>>])

\* GetUniforms: buffers, then images.  The names that images without one are
\* given are in Translation, the bindings are left out.
GetUniforms ==
    InOrder([k \in StorageBuffers |-> Leaf(BlockName(k), <<"StorageBuffer", 0>>)])
    \o InOrder([k \in UniformBuffers |-> BufferUniforms(k)])
    \o InOrder([k \in SampledImages |-> Leaf(BaseName(k), <<"Sampler", 0>>)])
    \o InOrder([k \in StorageImages |-> Leaf(BaseName(k), <<"Image", 0>>)])

-----------------------------------------------------------------------------
\* The names of the leaves of a list are these, each once.
Leaves(list) == {n \in DOMAIN list : list[n].type \notin {<<"Struct", 0>>, <<"Array", 0>>}}
Covers(list, ways) ==
    /\ {list[n].name : n \in Leaves(list)} = ways
    /\ \A m, n \in Leaves(list) : list[m].name = list[n].name => m = n

\* The types for which get_struct_uniforms follows all ways: no array in an array, or
\* in a struct that is an array's element.
OneArray(id, inArray) ==
    Len(Dims(id)) <= 1 /\ (inArray /\ Dims(id) # <<>> => IsStruct(id))
MembersFollowed(nested, id) ==
    LET subs == Instruction(id).members
    IN  IsStruct(id) => \A m \in 1..Len(subs) : nested[<<subs[m], Dims(id) # <<>>>>]
FollowedAt ==
    LET at[d \in Depths] == [args \in Nat \X BOOLEAN |->
            /\ OneArray(args[1], args[2])
            /\ d = 0 \/ MembersFollowed(at[d - 1], args[1])]
    IN  at
Followed(id) == FollowedAt[Len(ir)][<<id, FALSE>>]

\* The ways into such a type, by indices and names of members.
Indices(id) ==
    IF Dims(id) = <<>> THEN {<<>>} ELSE {<<ElementStep(n)>> : n \in 0..(Dims(id)[1] - 1)}
WayTo(id, e, m, w) ==
    e \o <<MemberStep(DeclaredMember(ir, Instruction(id).id, m))>> \o w
WaysFrom(nested, id) ==
    UNION {{WayTo(id, e, m, w) : w \in nested[Instruction(id).members[m]]} :
           e \in Indices(id), m \in 1..Len(Instruction(id).members)}
WaysAt ==
    LET at[d \in Depths] == [id \in Nat |->
            IF ~IsStruct(id) THEN Indices(id)
            ELSE IF d = 0 THEN {} ELSE WaysFrom(at[d - 1], id)]
    IN  at

WaysTo(k) ==
    IF k \in UniformBuffers
    THEN {BaseName(k) \o w : w \in WaysAt[Len(ir)][TypeOf(k)]}
    ELSE {IF k \in StorageBuffers THEN BlockName(k) ELSE BaseName(k)}

DistinctMembers(s) == \A m, n \in DOMAIN ir[s].members :
    m # n => DeclaredMember(ir, ir[s].id, m) # DeclaredMember(ir, ir[s].id, n)

\* The members of a buffer without a name are not without one.
MembersHaveNames(k) == \A m \in DOMAIN Instruction(TypeOf(k)).members :
    DeclaredMember(ir, Instruction(TypeOf(k)).id, m) # ""

\* ShaderReflection.cpp:115-217,406-515: the leaves that GetUniforms reports are
\* the ways into the uniform buffers, each once, and the storage buffers and images,
\* if members of a struct have distinct names and so have buffers and images.
LeavesAreThePaths ==
    (Done /\ ir # <<>>) =>
        LET all == StorageBuffers \cup UniformBuffers \cup SampledImages \cup StorageImages
        IN  (/\ \A k \in UniformBuffers : /\ Followed(TypeOf(k))
                                          /\ BaseName(k) = <<>> => MembersHaveNames(k)
             /\ \A s \in Positions(ir, "TypeStruct") : DistinctMembers(s)
             /\ \A k, l \in all : k # l => WaysTo(k) \cap WaysTo(l) = {})
            => Covers(GetUniforms, UNION {WaysTo(k) : k \in all})
=============================================================================
