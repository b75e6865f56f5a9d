---------------------------- MODULE MCShaderInfo ----------------------------
(***************************************************************************)
(* ShaderInfo on shaders of two functions, of one name or of two, whose    *)
(* bodies nest indices, calls and assignments.                             *)
(***************************************************************************)
EXTENDS ShaderInfo

LOCAL INSTANCE SequencesExt

Moved(tree, by) ==
    [n \in DOMAIN tree |-> [tree[n] EXCEPT !.kids = [j \in DOMAIN @ |-> @[j] + by]]]

\* A node over trees, which follow it.
Over(kind, op, name, trees) ==
    FoldLeft(LAMBDA tree, kid :
            [tree EXCEPT ![1].kids = Append(@, Len(tree) + 1)] \o Moved(kid, Len(tree)),
        <<[kind |-> kind, op |-> op, name |-> name, kids |-> <<>>]>>, trees)

Sym(s) == Over("symbol", "", s, << >>)
Number == Over("constant", "", "", << >>)
Binary(op, l, r) == Over("binary", op, "", <<l, r>>)
Dot(l, field) == Over("binary", "IndexDirectStruct", field, <<l, Number>>)
Call(f, args) == Over("aggregate", "FunctionCall", f, args)

LValues == { Sym("a"), Dot(Sym("s"), "p"),
    Binary("VectorSwizzle", Dot(Sym("s"), "p"), Over("aggregate", "Sequence", "", <<Number>>)),
    Dot(Binary("IndexIndirect", Dot(Sym("s"), "q"), Call("h(i", <<Sym("i")>>)), "p") }

Arguments1 == LValues \cup { Binary("Add", Sym("a"), Dot(Sym("s"), "p")), Number,
    Call("h(i", <<Sym("b")>>), Dot(Call("k(", << >>), "p"),
    Binary("AddAssign", Sym("a"), Sym("b")) }

Calls == { Call("g(i", <<x>>) : x \in Arguments1 }
         \cup { Call("g(ii", <<x, Dot(Sym("t"), "p")>>) : x \in Arguments1 }

Statements == Calls
    \cup { Binary("Assign", l, r) : l \in LValues,
            r \in {Number, Call("g(i", <<Sym("b")>>), Binary("Assign", Sym("b"), Number)} }
    \cup { Binary("ModAssign", Sym("a"), Call("g(i", <<Sym("b")>>)),
           Over("other", "Return", "", <<Call("g(i", <<Sym("b")>>)>>) }

Function(f, body) == Over("aggregate", "Function", f,
    <<Over("aggregate", "Parameters", "", <<Sym("i")>>),
      Over("aggregate", "Sequence", "", body)>>)

MCTrees == { Over("aggregate", "Sequence", "",
                <<Function(f, body), Function("f(i", <<Binary("MulAssign", Sym("c"), Number)>>)>>) :
             f \in {"f(", "g(i"},
             body \in {<<s>> : s \in Statements}
                      \cup {<<s, Binary("SubAssign", Sym("d"), Sym("a"))>> : s \in Calls}
                      \cup { << >> } }

MCAsked == {"f", "f(", "g(i", "main("}

MCFunctionName(signature) ==
    CASE signature \in {"f", "f(", "f(i"} -> "f"
      [] signature \in {"g(i", "g(ii"} -> "g"
      [] signature = "main(" -> "main"
      [] OTHER -> signature
=============================================================================
