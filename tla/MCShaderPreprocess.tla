------------------------- MODULE MCShaderPreprocess -------------------------
(***************************************************************************)
(* ShaderPreprocess with two files that may include each other and         *)
(* themselves, once or twice, or be missing.                               *)
(***************************************************************************)
EXTENDS ShaderPreprocess

Files == {"a", "b"}
MCPaths == Files \cup {""}

Line(kind, path) == [kind |-> kind, path |-> path]
UpTo(n, S) == UNION {[1..k -> S] : k \in 0..n}

Includes == {Line("include", p) : p \in Files}
Contents(p) == UpTo(2, Includes \cup {Line("text", p)})

MCDisks == UNION {{d \in [present -> UNION {Contents(p) : p \in Files}] :
                    \A p \in present : d[p] \in Contents(p)} : present \in SUBSET Files}

MCTexts == UpTo(2, Includes \cup
                   {Line("text", ""), Line("version", ""), Line("indented", "a"),
                    Line("comment", "b"), Line("remark", "")})
=============================================================================
