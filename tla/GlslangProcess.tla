--------------------------- MODULE GlslangProcess ---------------------------
(***************************************************************************)
(* Who keeps glslang's per-process tables alive.  glslang counts its users *)
(* (external): InitializeProcess and ShInitialize add one, ShFinalize      *)
(* takes one away and frees the tables with the last.  Two parts of the    *)
(* library are users: the GLSLangAdapter singleton, once and for good, and *)
(* every ShaderValidator that has built its GLSL compiler.                 *)
(***************************************************************************)
EXTENDS Integers, FiniteSets

CONSTANTS
    Validators,     \* the ShaderValidator objects callers may create
    MaxShaders      \* bound on the TShaders that ParseHLSL allocates

ASSUME ValidatorsAssumption == IsFiniteSet(Validators)
ASSUME ShadersAssumption == MaxShaders \in Nat

VARIABLES
    inited,         \* GLSLangAdapter::m_inited
    users,          \* external: glslang's count of users
    validator,      \* what a validator is: absent, or its m_glsl is null or live
    held,           \* TShaders that ParseHLSL returned and the caller still owns
    leaked          \* TShaders of a ParseHLSL that failed: nobody deletes them

vars == <<inited, users, validator, held, leaked>>

-----------------------------------------------------------------------------
Init ==
    /\ inited = FALSE /\ users = 0
    /\ validator = [v \in Validators |-> "absent"]
    /\ held = 0 /\ leaked = 0

ShInitialize(n) == n + 1
ShFinalize(n) == n - 1

\* Mutant: every Init is counted.
AdapterInitAlways == inited' = TRUE /\ users' = ShInitialize(users)

\* GLSLangAdapter::Init: only the first call counts.
AdapterInit ==
    /\ inited' = TRUE
    /\ users' = IF inited THEN users ELSE ShInitialize(users)

\* GLSL2SpirV: an empty source returns before Init; the TShader of another one
\* lives on the stack, and is gone when the call returns.
GLSL2SpirV == AdapterInit /\ UNCHANGED <<validator, held, leaked>>

\* Mutant: the parser relies on somebody else's Init.
ParseHLSLWithoutInit ==
    /\ held + leaked < MaxShaders
    /\ \/ held' = held + 1 /\ UNCHANGED leaked
       \/ leaked' = leaked + 1 /\ UNCHANGED held
    /\ UNCHANGED <<inited, users, validator>>

\* A TShader that parses is the caller's, one that does not is lost.
ParseHLSL ==
    /\ held + leaked < MaxShaders
    /\ AdapterInit
    /\ \/ held' = held + 1 /\ UNCHANGED leaked
       \/ leaked' = leaked + 1 /\ UNCHANGED held
    /\ UNCHANGED validator

\* The caller deletes a TShader that it was given.
DeleteShader ==
    /\ held > 0
    /\ held' = held - 1
    /\ UNCHANGED <<inited, users, validator, leaked>>

NewValidator(v) ==
    /\ validator[v] = "absent"
    /\ validator' = [validator EXCEPT ![v] = "idle"]
    /\ UNCHANGED <<inited, users, held, leaked>>

\* Mutant: the count is tested with a single ShInitialize.
NewCompilerSingle(n) == ShFinalize(ShInitialize(n))

\* CompilerGLSL::CompilerGLSL: two users come and one goes.
NewCompiler(n) == ShFinalize(ShInitialize(ShInitialize(n)))

\* Validate(is_glsl): the compiler is built on the first GLSL source.  Later
\* ones, and every HLSL source, leave the state as it is.
ValidateGLSL(v) ==
    /\ validator[v] = "idle"
    /\ users' = NewCompiler(users)
    /\ validator' = [validator EXCEPT ![v] = "live"]
    /\ UNCHANGED <<inited, held, leaked>>

\* Mutant: a validator finalizes although it never built a compiler.
DeleteValidatorAlways(v) ==
    /\ validator[v] # "absent"
    /\ users' = ShFinalize(users)
    /\ validator' = [validator EXCEPT ![v] = "absent"]
    /\ UNCHANGED <<inited, held, leaked>>

\* ~CompilerGLSL finalizes, if there is a compiler.
DeleteValidator(v) ==
    /\ validator[v] # "absent"
    /\ users' = IF validator[v] = "live" THEN ShFinalize(users) ELSE users
    /\ validator' = [validator EXCEPT ![v] = "absent"]
    /\ UNCHANGED <<inited, held, leaked>>

Next ==
    \/ GLSL2SpirV \/ ParseHLSL \/ DeleteShader
    \/ \E v \in Validators : NewValidator(v) \/ ValidateGLSL(v) \/ DeleteValidator(v)

Spec == Init /\ [][Next]_vars

-----------------------------------------------------------------------------
Live == {v \in Validators : validator[v] = "live"}

\* Type invariant of GLSLangAdapter.h, ShaderValidator.h and ShaderParser; glslang's
\* count never falls below zero.
TypeOK ==
    /\ inited \in BOOLEAN /\ users \in Nat
    /\ validator \in [Validators -> {"absent", "idle", "live"}]
    /\ held \in Nat /\ leaked \in Nat /\ held + leaked <= MaxShaders

\* Every user is counted once: the adapter after its first Init, however often
\* it is called, and each validator with a compiler (ShaderValidator.cpp:81-92).
UsersBalanced == users = Cardinality(Live) + (IF inited THEN 1 ELSE 0)

\* What was parsed or constructed has tables to point into: glslang frees them
\* only when no compiler and no TShader, returned or leaked, is left.
ProcessOutlivesClients == (Live # {} \/ held + leaked > 0) => users > 0

\* Once the adapter was initialised, no order of validators coming and going
\* makes glslang free its tables: translations need no second InitializeProcess.
AdapterPinsProcess == [][inited => users' > 0]_vars
=============================================================================
