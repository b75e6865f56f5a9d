----------------------- MODULE GlslangProcessProofs -----------------------
(***************************************************************************)
(* The count of glslang's users is exact, for any finite set of validators *)
(* and any bound on the shaders.                                           *)
(***************************************************************************)
EXTENDS GlslangProcess, FiniteSetTheorems, TLAPS

\* The inductive invariant: the count is exact, and a TShader was parsed only
\* after the adapter's Init.
IInv ==
    /\ TypeOK
    /\ UsersBalanced
    /\ held + leaked > 0 => inited

\* The live validators are finitely many.
LEMMA LiveFinite == IsFiniteSet(Live) /\ Cardinality(Live) \in Nat
  <1>1. Live \subseteq Validators
    BY DEF Live
  <1>2. IsFiniteSet(Live)
    BY <1>1, ValidatorsAssumption, FS_Subset
  <1> QED BY <1>2, FS_CardinalityType

\* A validator with a compiler makes the count positive, whatever it is.
LEMMA LiveIsCounted == Live # {} => Cardinality(Live) > 0
  <1> SUFFICES ASSUME Live # {} PROVE Cardinality(Live) > 0
    OBVIOUS
  <1>1. Cardinality(Live) # 0
    BY LiveFinite, FS_EmptySet
  <1> QED BY <1>1, LiveFinite

\* In the initial state nobody uses glslang.
LEMMA InitIInv == Init => IInv
  <1> SUFFICES ASSUME Init PROVE IInv
    OBVIOUS
  <1>1. TypeOK
    <2>1. inited \in BOOLEAN
      BY DEF Init
    <2>2. validator \in [Validators -> {"absent", "idle", "live"}]
      BY DEF Init
    <2>3. users \in Nat /\ held \in Nat /\ leaked \in Nat /\ held + leaked <= MaxShaders
      BY ShadersAssumption DEF Init
    <2> QED BY <2>1, <2>2, <2>3 DEF TypeOK
  <1>2. Live = {}
    BY DEF Init, Live
  <1>3. UsersBalanced
    BY <1>2, FS_EmptySet DEF Init, UsersBalanced
  <1> QED BY <1>1, <1>3 DEF IInv, Init

\* AdapterInit counts the adapter, once.
LEMMA AdapterInitStep ==
    ASSUME IInv, AdapterInit, UNCHANGED validator
    PROVE  UsersBalanced' /\ users' \in Nat /\ inited'
  <1>1. Live' = Live
    BY DEF Live
  <1> QED BY <1>1, LiveFinite
      DEF IInv, TypeOK, AdapterInit, ShInitialize, UsersBalanced

\* Steps that build or drop a compiler change the count with the set of Live.
LEMMA ValidatorSteps ==
    ASSUME IInv, NEW v \in Validators,
           NewValidator(v) \/ ValidateGLSL(v) \/ DeleteValidator(v)
    PROVE  IInv'
  <1> USE DEF IInv, TypeOK
  <1>1. CASE NewValidator(v)
    <2>1. Live' = Live
      BY <1>1 DEF NewValidator, Live
    <2>2. UsersBalanced'
      BY <1>1, <2>1 DEF NewValidator, UsersBalanced
    <2> QED BY <1>1, <2>2 DEF NewValidator
  <1>2. CASE ValidateGLSL(v)
    <2>1. v \notin Live /\ Live' = Live \cup {v}
      BY <1>2 DEF ValidateGLSL, Live
    <2>2. Cardinality(Live') = Cardinality(Live) + 1
      BY <2>1, LiveFinite, FS_AddElement
    <2>3. users' = users + 1
      BY <1>2 DEF ValidateGLSL, NewCompiler, ShInitialize, ShFinalize
    <2>4. UsersBalanced'
      BY <1>2, <2>2, <2>3, LiveFinite DEF ValidateGLSL, UsersBalanced
    <2> QED BY <1>2, <2>3, <2>4 DEF ValidateGLSL
  <1>3. CASE DeleteValidator(v) /\ validator[v] = "live"
    <2>1. v \in Live /\ Live' = Live \ {v}
      BY <1>3 DEF DeleteValidator, Live
    <2>2. Cardinality(Live') = Cardinality(Live) - 1
      BY <2>1, LiveFinite, FS_RemoveElement
    <2>3. users' = users - 1
      BY <1>3 DEF DeleteValidator, ShFinalize
    <2>4. UsersBalanced'
      BY <1>3, <2>2, <2>3, LiveFinite DEF DeleteValidator, UsersBalanced
    <2>5. users' \in Nat
      BY <2>1, <2>3, LiveFinite, LiveIsCounted DEF UsersBalanced
    <2> QED BY <1>3, <2>4, <2>5 DEF DeleteValidator
  <1>4. CASE DeleteValidator(v) /\ validator[v] # "live"
    <2>1. Live' = Live
      BY <1>4 DEF DeleteValidator, Live
    <2>2. UsersBalanced'
      BY <1>4, <2>1 DEF DeleteValidator, UsersBalanced
    <2> QED BY <1>4, <2>2 DEF DeleteValidator
  <1> QED BY <1>1, <1>2, <1>3, <1>4

\* Every step preserves the invariant.
LEMMA NextIInv == IInv /\ [Next]_vars => IInv'
  <1> SUFFICES ASSUME IInv, [Next]_vars PROVE IInv'
    OBVIOUS
  <1>1. CASE GLSL2SpirV
    <2>1. UsersBalanced' /\ users' \in Nat /\ inited'
      BY <1>1, AdapterInitStep DEF GLSL2SpirV
    <2> QED BY <1>1, <2>1 DEF GLSL2SpirV, AdapterInit, IInv, TypeOK
  <1>2. CASE ParseHLSL
    <2>1. UsersBalanced' /\ users' \in Nat /\ inited'
      BY <1>2, AdapterInitStep DEF ParseHLSL
    <2> QED BY <1>2, <2>1, ShadersAssumption DEF ParseHLSL, AdapterInit, IInv, TypeOK
  <1>3. CASE DeleteShader
    <2>1. Live' = Live
      BY <1>3 DEF DeleteShader, Live
    <2> QED BY <1>3, <2>1, ShadersAssumption DEF DeleteShader, IInv, TypeOK, UsersBalanced
  <1>4. CASE \E v \in Validators : NewValidator(v) \/ ValidateGLSL(v) \/ DeleteValidator(v)
    BY <1>4, ValidatorSteps
  <1>5. CASE UNCHANGED vars
    BY <1>5 DEF vars, IInv, TypeOK, UsersBalanced, Live
  <1> QED BY <1>1, <1>2, <1>3, <1>4, <1>5 DEF Next

\* The adapter, the validators and glslang's count keep their types.
THEOREM TypeCorrect == Spec => []TypeOK
  <1>1. IInv => TypeOK
    BY DEF IInv
  <1> QED BY InitIInv, NextIInv, <1>1, PTL DEF Spec

\* Each user is counted exactly once.
THEOREM UsersAlwaysBalanced == Spec => []UsersBalanced
  <1>1. IInv => UsersBalanced
    BY DEF IInv
  <1> QED BY InitIInv, NextIInv, <1>1, PTL DEF Spec

\* No compiler and no TShader, whoever holds it, outlives glslang's tables.
THEOREM ProcessAlwaysOutlivesClients == Spec => []ProcessOutlivesClients
  <1>1. IInv => ProcessOutlivesClients
    BY LiveFinite, LiveIsCounted DEF IInv, TypeOK, UsersBalanced, ProcessOutlivesClients
  <1> QED BY InitIInv, NextIInv, <1>1, PTL DEF Spec

\* The adapter keeps glslang initialised, whatever the validators do.
THEOREM AdapterAlwaysPinsProcess == Spec => AdapterPinsProcess
  <1>1. IInv /\ IInv' /\ [Next]_vars => [inited => users' > 0]_vars
    <2> SUFFICES ASSUME IInv, IInv', Next, inited PROVE users' > 0
      BY DEF vars
    <2>1. inited'
      BY DEF Next, GLSL2SpirV, ParseHLSL, DeleteShader, NewValidator, ValidateGLSL,
             DeleteValidator, AdapterInit
    <2>2. Live' \subseteq Validators
      BY DEF Live
    <2>3. Cardinality(Live') \in Nat
      BY <2>2, ValidatorsAssumption, FS_Subset, FS_CardinalityType
    <2> QED BY <2>1, <2>3 DEF IInv, UsersBalanced
  <1> QED BY InitIInv, NextIInv, <1>1, PTL DEF Spec, AdapterPinsProcess
=============================================================================
