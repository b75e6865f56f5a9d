-------------------------- MODULE MCShaderBuilder --------------------------
(***************************************************************************)
(* ShaderBuilder on small instances. Names are strings, so that a          *)
(* requested name ("x1") can equal a suffixed one ("x" with suffix 1).     *)
(***************************************************************************)
EXTENDS ShaderBuilder, TLC

MCNames == {"x", "x1"}
MCSuffix(n, i) == n \o ToString(i)

\* Two functions of a library and one of main compete for the export names; the
\* other library has none, so it can be absent, compiled or not.
MCFuncs == {"f", "g", "main_f"}
MCHome == [f \in MCFuncs |-> IF f = "main_f" THEN "main" ELSE "lib1"]
NoHome == [f \in {} |-> "main"]
=============================================================================
