------------------------- MODULE MCShaderReflection -------------------------
(***************************************************************************)
(* SpirvParser and ShaderReflection on programs laid out as compilers      *)
(* write them: names, types, global variables, functions.  Structs with    *)
(* and without names, of one name, named in part; a buffer with and        *)
(* without an instance name; blocks, storage buffers of either kind, and   *)
(* arrays of them and of images; functions that share a name once they are *)
(* trimmed, or have none.                                                  *)
(***************************************************************************)
EXTENDS ShaderReflection

Name(id, name) == [op |-> "Name", id |-> id, name |-> name]
Member(id, index, name) == [op |-> "MemberName", id |-> id, index |-> index, name |-> name]
Line(n) == [op |-> "Line", line |-> n]
Other(kind, id) == [op |-> "Other", kind |-> kind, id |-> id]
Array(id, type, n) == [op |-> "Other", kind |-> "Array", id |-> id, type |-> type, length |-> n]
Pointer(id, type) == [op |-> "TypePointer", id |-> id, type |-> type]
Variable(id, type, storage) ==
    [op |-> "Variable", id |-> id, type |-> type, storage |-> storage]

\* Types: 1 to 8 are given, 10 and 11 are the structs, 20 and on are pointers.
Basics == << [op |-> "Float", id |-> 1], [op |-> "Int", id |-> 2], Other("Void", 3),
    [op |-> "TypeVector", id |-> 4, type |-> 1, count |-> 3],
    [op |-> "TypeMatrix", id |-> 5, type |-> 4, count |-> 3],
    Array(6, 1, 2), Other("SampledImage", 7), Other("StorageImage", 8) >>

Inner(members) == [op |-> "TypeStruct", id |-> 10, members |-> members]
Outer(members) == [op |-> "TypeStruct", id |-> 11, members |-> members]

Structs ==
    { << Inner(<<1, 4>>), Array(12, 10, 2), Outer(<<10, 5>>) >>,
      << Inner(<<1, 4>>), Array(12, 10, 2), Outer(<<12, 6>>) >>,
      << Inner(<<6, 2>>), Array(12, 10, 2), Outer(<<10, 12>>) >> }

StructNames ==
    { <<Name(10, s), Name(11, t)>> \o inner \o outer \o <<Other("Block", 11)>> :
        s \in {"S", ""}, t \in {"T", "S"},
        outer \in { <<Member(11, 1, "q")>>, <<Member(11, 0, "p"), Member(11, 1, "q")>> },
        inner \in { << >>, <<Member(10, 0, "x")>>, <<Member(10, 1, "y")>>,
                    <<Member(10, 0, "x"), Member(10, 1, "y")>> } }

Pointers == << Pointer(20, 11), Pointer(21, 7), Pointer(22, 4), Pointer(23, 8) >>

Globals == { << Name(30, n), Name(33, "img") >> : n \in {"u", ""} }
GlobalVariables == << Variable(30, 20, "Uniform"), Variable(31, 21, "Uniform"),
                      Variable(32, 22, "Private"), Variable(33, 23, "Uniform") >>

\* Types and variables of blocks, or arrays of them, and of arrays of images.
Arrays == << Array(13, 11, 2), Array(16, 13, 2), Array(14, 7, 2), Array(15, 8, 2) >>
ArrayVariables(type, storage) ==
    << Pointer(20, type), Pointer(21, 14), Pointer(22, 4), Pointer(23, 15),
       Variable(30, 20, storage), Variable(31, 21, "Uniform"),
       Variable(32, 22, "Private"), Variable(33, 23, "Uniform") >>

\* A function of a return type, with parameters and locals, between lines.
Function(id, type, params, body) ==
    << [op |-> "Function", id |-> id, type |-> type] >>
    \o [n \in DOMAIN params |->
            [op |-> "FunctionParameter", id |-> id + n, type |-> params[n]]]
    \o << [op |-> "control_flow"] >> \o body \o << [op |-> "FunctionEnd"] >>

FunctionNames(f, g) == << Name(40, f), Name(41, "a"), Name(42, "b"), Name(50, g), Name(51, "c"),
                          Name(60, "l"), Name(31, "tex"), Name(32, "glob") >>

Bodies == { << >>, << Line(7), Variable(60, 22, "Function"), Line(5) >>,
            << Variable(60, 22, "Function"), Line(3), Line(4), Line(9) >> }

\* Programs about structs and buffers, about arrays of them, and about functions.
MCPrograms ==
    { FunctionNames("f(", "g(") \o n \o g \o Basics \o s \o Pointers \o GlobalVariables
      \o Function(40, 3, << >>, << >>) : n \in StructNames, g \in Globals, s \in Structs }
    \cup
    { FunctionNames("f(", "g(") \o <<Name(10, "S"), Name(11, t)>>
      \o <<Member(11, 0, "p"), Member(11, 1, "q"), Member(10, 0, "x"), Member(10, 1, "y")>>
      \o g \o decorations \o Basics \o s \o Arrays \o ArrayVariables(type, storage)
      \o Function(40, 3, << >>, << >>) :
        t \in {"T", ""}, g \in Globals, s \in Structs, type \in {11, 13, 16},
        storage \in {"Uniform", "StorageBuffer"},
        decorations \in {<< >>, <<Other("Block", 11)>>, <<Other("BufferBlock", 11)>>} }
    \cup
    { FunctionNames(f, g) \o <<Name(10, "S"), Name(30, "u")>>
      \o << [op |-> "LocalSize", size |-> <<8, 8, 1>>] >> \o Basics
      \o << Inner(<<1>>) >> \o << Pointer(20, 10), Pointer(21, 7), Pointer(22, 4) >>
      \o << Variable(30, 20, "StorageBuffer"), Variable(31, 21, "Uniform"), Line(1) >>
      \o Function(40, r, p, b) \o << [op |-> "Barrier"] >> \o Function(50, 1, <<4>>, c) :
        f \in {"f(", "src.main", ""}, g \in {"f(i", "g(", "main", ""}, r \in {1, 4},
        p \in {<<4, 20>>, <<21>>, <<22, 1>>}, b \in Bodies, c \in Bodies }
    \cup { << [op |-> "Float", id |-> 1], [op |-> "ZeroWords"] >> }

MCInstructions == UNION {{p[k] : k \in DOMAIN p} : p \in MCPrograms}

MCNames == {"", "_fallback", "S", "T", "p", "q", "x", "y", "u", "img", "f(", "f(i", "g(", "src.main",
            "f", "g", "main", "a", "b", "c", "l", "tex", "glob"}

MCAfterDot(name) == IF name = "src.main" THEN "main" ELSE name

MCBeforeParen(name) ==
    CASE name \in {"f(", "f(i"} -> "f"
      [] name = "g(" -> "g"
      [] OTHER -> name

\* The name of the block, of which there is one in a program, or a name made up.
MCResourceName(p, k) ==
    LET block == IF IsDeclared(p, 11) THEN 11 ELSE 10
    IN  IF DeclaredName(p, block) = "" THEN "_fallback" ELSE DeclaredName(p, block)
=============================================================================
