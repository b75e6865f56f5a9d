-------------------------- MODULE FunctionReaders --------------------------
(***************************************************************************)
(* ShaderReflection::GetFunction, read from the vector that SpirvParser    *)
(* scans: two ways in which the library tells a caller what functions a    *)
(* module has, and how far they agree.                                     *)
(*                                                                         *)
(* A VarType is a pair: Float3 is <<"Float", 3>>.  External: spvgentwo,    *)
(* which reads the declarations.                                           *)
(***************************************************************************)
EXTENDS SpirvParser

\* The types that the parser has no case for; an id is of one type only.
OtherTypes == {"Array", "SampledImage", "StorageImage", "Void"}

ASSUME OthersAssumption ==
    \A p \in Programs : \A k \in Positions(p, "Other") : p[k].kind \in OtherTypes =>
        \A l \in DOMAIN p :
            /\ p[l].op \in TypeOps => p[l].id # p[k].id
            /\ (p[l].op = "Other" /\ p[l].kind \in OtherTypes /\ l # k) => p[l].id # p[k].id

IsKind(id, kind) == \E k \in Positions(ir, "Other") : ir[k].kind = kind /\ ir[k].id = id
IsArray(id) == IsKind(id, "Array")

-----------------------------------------------------------------------------
\* parser_spvgentwo_variable: a type, or what a pointer points to.
SpvgentwoType(id) ==
    LET pointee == Pointee(ir, id) IN
    IF IsArray(pointee) THEN <<"Array", 0>>
    ELSE IF IsKind(pointee, "SampledImage") THEN <<"Sampler", 0>>
    ELSE IF IsKind(pointee, "Void") THEN <<"Void", 0>>
    ELSE IF ~IsDeclared(ir, pointee) THEN <<"Unknown", 0>>
    ELSE LET t == ir[TypeAt(ir, pointee)] IN
         CASE t.op \in Scalars -> <<t.op, 1>>
           [] t.op = "TypeStruct" -> <<"Struct", 0>>
           [] t.op = "TypeMatrix" -> <<"Mat", t.count>>
           [] t.op = "TypeVector" /\ ir[TypeAt(ir, t.type)].op \in {"Int", "Float"} ->
                <<ir[TypeAt(ir, t.type)].op, t.count>>
           [] OTHER -> <<"Unknown", 0>>

NoFunction == [found |-> FALSE]

\* Mutant: only the parameters are cut off.
FunctionNameQualified(f) == BeforeParen(DeclaredName(ir, ir[f].id))

\* fun_name: what is after the first dot and before the parameters, compared as it is.
FunctionName(f) == BeforeParen(AfterDot(DeclaredName(ir, ir[f].id)))

IsAsked(f, name) == FunctionName(f) = name

\* The name and type of the parameter at a position; and those at a set of positions,
\* in order, by how many instructions there are.
ParameterAt(k) == <<DeclaredName(ir, ir[k].id), SpvgentwoType(ir[k].type)>>
ParametersAt(at) ==
    LET upTo[n \in 0..Len(ir)] ==
            IF n = 0 THEN <<>>
            ELSE IF n \in at THEN Append(upTo[n - 1], ParameterAt(n)) ELSE upTo[n - 1]
    IN  upTo

\* The parameters of the function that starts at a position.
ParametersOf(f) == {k \in Positions(ir, "FunctionParameter") : f < k /\ k < EndOf(ir, f)}

\* GetFunction: the first function of the name that is asked for.
GetFunction(name) ==
    LET at == {f \in Positions(ir, "Function") : IsAsked(f, name)}
    IN  IF at = {} THEN NoFunction
        ELSE LET f == CHOOSE g \in at : \A h \in at : g <= h
             IN  [found |-> TRUE, ret_type |-> SpvgentwoType(ir[f].type),
                  arguments |-> ParametersAt(ParametersOf(f))[Len(ir)]]

\* parser_spirv_variable: the VarType of a variable that the parser read.
VarType(var) ==
    LET type == IF var.base = "Void" THEN var.type ELSE var.base IN
    CASE type \in {"Int", "Float"} -> <<type, var.comp_count>>
      [] type = "Bool"   -> <<"Bool", 1>>
      [] type = "Matrix" -> <<"Mat", var.comp_count>>
      [] type = "Struct" -> <<"Struct", 0>>
      [] type = "Vector" -> <<"Array", 0>>
      [] type = "Void"   -> <<"Void", 0>>
      [] OTHER           -> <<"Unknown", 0>>

-----------------------------------------------------------------------------
\* Types that both readers know.  The parser takes for void what it has no case for,
\* and a pointer to a pointer; spvgentwo has no VarType for a vector of Booleans.
Known(id) ==
    \/ IsKind(Pointee(ir, id), "Void")
    \/ /\ IsDeclared(ir, Pointee(ir, id)) /\ ~IsPointer(ir, Pointee(ir, id))
       /\ LET t == ir[TypeAt(ir, Pointee(ir, id))] IN
          t.op = "TypeVector" => ir[TypeAt(ir, t.type)].op # "Bool"

\* ShaderReflection.cpp:517-549 and spirv_Parser.cpp:146-163: of a function that
\* is alone under its name, GetFunction and the parser report the same arguments
\* and the same return type, where both know the types; and neither knows of a
\* function that the other does not know.
FunctionReadersAgree ==
    (Done /\ ir # <<>>) =>
        /\ \A q \in {KeyOf(ir, f) : f \in Positions(ir, "Function")} \cup {"none"} :
              GetFunction(q).found <=> q \in DOMAIN module.functions
        /\ \A f \in Positions(ir, "Function") :
            LET ids == {ir[f].type} \cup {ir[k].type : k \in ParametersOf(f)}
                read == module.functions[KeyOf(ir, f)]
                told == GetFunction(KeyOf(ir, f))
            IN  (/\ \A g \in Positions(ir, "Function") \ {f} : KeyOf(ir, g) # KeyOf(ir, f)
                 /\ \A id \in ids : Known(id))
                => /\ told.ret_type = VarType(read.ret_type)
                   /\ told.arguments = [n \in DOMAIN read.arguments |->
                        <<read.arguments[n].name, VarType(read.arguments[n])>>]
=============================================================================
