------------------------ MODULE ShaderBuilderProofs ------------------------
(***************************************************************************)
(* Theorems about ShaderBuilder and NameTable, for every value of their    *)
(* constants.                                                              *)
(*                                                                         *)
(* The type of the uniform cache already needs an argument: a free suffix  *)
(* exists because the cache maps distinct names to distinct handles and    *)
(* there are fewer handles than suffixes.  So the type invariant is proved *)
(* together with the invariants of the caches, as one inductive invariant. *)
(***************************************************************************)
EXTENDS ShaderBuilder, NameTable, FiniteSetTheorems, WellFoundedInduction, TLAPS

\* A set of numbers that is not empty has a least element.
LEMMA LeastNumber ==
  ASSUME NEW T \in SUBSET Nat, T # {}
  PROVE  \E x \in T : \A y \in T : x <= y
<1>1. PICK R : /\ IsWellFoundedOn(R, Nat)
               /\ \A x, y \in Nat : y < x => <<y, x>> \in R
  <2>1. IsWellFoundedOn(OpToRel(<, Nat), Nat)  BY NatLessThanWellFounded
  <2>2. \A x, y \in Nat : y < x => <<y, x>> \in OpToRel(<, Nat)  BY DEF OpToRel
  <2>3. QED  BY <2>1, <2>2, Zenon
<1>2. PICK x \in T : \A y \in T : <<y, x>> \notin R  BY <1>1, WFMin
<1>3. \A y \in T : x <= y
  <2>1. TAKE y \in T
  <2>2. x \in Nat /\ y \in Nat  OBVIOUS
  <2>3. ~(y < x)  BY <1>1, <1>2, <2>2, Zenon
  <2>4. QED  BY <2>2, <2>3
<1>4. QED  BY <1>3

\* The size of an interval that starts at 1.
LEMMA IntervalSize ==
  ASSUME NEW n \in Nat
  PROVE  IsFiniteSet(1..n) /\ Cardinality(1..n) = n
<1>1. /\ IsFiniteSet(1..n)
      /\ Cardinality(1..n) = IF 1 > n THEN 0 ELSE n - 1 + 1
  <2>1. 1 \in Int /\ n \in Int  OBVIOUS
  <2>2. QED  BY <2>1, FS_Interval
<1>2. (IF 1 > n THEN 0 ELSE n - 1 + 1) = n  OBVIOUS
<1>3. QED  BY <1>1, <1>2

-----------------------------------------------------------------------------
\* A uniform cache binds distinct names to distinct handles.
OneNamePerUniform == \A j, k \in DOMAIN uniforms : uniforms[j] = uniforms[k] => j = k

\* GetAvaliableUnifName always ends, and with a name that is free: while there
\* is room for one more variable, one of the suffixes is not taken.
LEMMA FreeSuffix ==
  ASSUME NEW n \in Names, IsCache(uniforms), OneNamePerUniform,
         insts \in Seq(InstRecords), Len(insts) < MaxInsts
  PROVE  \E i \in 1..MaxInsts : Suffix(n, i) \notin DOMAIN uniforms
<1> SUFFICES ASSUME \A i \in 1..MaxInsts : Suffix(n, i) \in DOMAIN uniforms
             PROVE  FALSE
    OBVIOUS
<1> DEFINE f == [i \in 1..MaxInsts |-> uniforms[Suffix(n, i)]]
<1>1. /\ MaxInsts \in Nat /\ Len(insts) \in Nat
      /\ DOMAIN insts = 1..Len(insts)
  BY BoundsAssumption
<1>2. /\ IsFiniteSet(1..MaxInsts) /\ Cardinality(1..MaxInsts) = MaxInsts
      /\ IsFiniteSet(1..Len(insts)) /\ Cardinality(1..Len(insts)) = Len(insts)
  BY <1>1, IntervalSize
<1>3. f \in [1..MaxInsts -> 1..Len(insts)]
  BY <1>1 DEF IsCache, Handles
<1>4. PICK i, j \in 1..MaxInsts : i # j /\ f[i] = f[j]
  <2>1. Cardinality(1..Len(insts)) < Cardinality(1..MaxInsts)  BY <1>2
  <2> HIDE DEF f
  <2>2. QED  BY <1>2, <1>3, <2>1, FS_PigeonHole
<1>5. Suffix(n, i) = Suffix(n, j)  BY <1>4 DEF OneNamePerUniform
<1>6. QED  BY <1>4, <1>5, SuffixAssumption

\* The name GetAvaliableUnifName answers is a name, and no uniform has it.
LEMMA AvailableNameIsFree ==
  ASSUME NEW n \in Names, IsCache(uniforms), OneNamePerUniform,
         insts \in Seq(InstRecords), Len(insts) < MaxInsts
  PROVE  /\ GetAvaliableUnifName(n) \in AllNames
         /\ GetAvaliableUnifName(n) \notin DOMAIN uniforms
<1>1. CASE n \notin DOMAIN uniforms
  BY <1>1 DEF GetAvaliableUnifName, AllNames
<1>2. CASE n \in DOMAIN uniforms
  <2> DEFINE Free(i) == /\ Suffix(n, i) \notin DOMAIN uniforms
                        /\ \A j \in 1..(i - 1) : Suffix(n, j) \in DOMAIN uniforms
             T == {i \in 1..MaxInsts : Suffix(n, i) \notin DOMAIN uniforms}
  <2>1. MaxInsts \in Nat  BY BoundsAssumption
  <2>2. T \in SUBSET Nat /\ T # {}  BY <2>1, FreeSuffix
  <2>3. PICK i \in T : \A j \in T : i <= j
    <3> HIDE DEF T
    <3>1. QED  BY <2>2, LeastNumber
  <2>4. i \in 1..MaxInsts /\ Free(i)  BY <2>1, <2>3
  <2> DEFINE c == CHOOSE k \in 1..MaxInsts : Free(k)
  <2>5. c \in 1..MaxInsts /\ Free(c)
    <3> HIDE DEF Free
    <3>1. QED  BY <2>4
  <2>6. GetAvaliableUnifName(n) = Suffix(n, c)  BY <1>2 DEF GetAvaliableUnifName
  <2> HIDE DEF c
  <2>7. QED  BY <2>5, <2>6 DEF AllNames
<1>3. QED  BY <1>1, <1>2

-----------------------------------------------------------------------------
\* UniformsQueryable, read from the cache: its entries are the current uniforms,
\* each once, under their OpNames unless they are bool or int.
UniformCacheOK ==
    /\ \A k \in DOMAIN uniforms :
          /\ uniforms[k] \in Current("uniform")
          /\ \/ insts[uniforms[k]].name = k
             \/ insts[uniforms[k]].type \in RequestNamedTypes
    /\ \A h \in Current("uniform") : \E k \in DOMAIN uniforms : uniforms[k] = h
    /\ OneNamePerUniform

\* UniformsQueryable, said in terms of the cache instead of the names.
LEMMA QueryableFromCache == TypeOK => (UniformsQueryable <=> UniformCacheOK)
<1> SUFFICES ASSUME TypeOK PROVE UniformsQueryable <=> UniformCacheOK  OBVIOUS
<1> USE DEF QueryUniformName, OneNamePerUniform
<1>0. /\ DOMAIN uniforms \subseteq AllNames
      /\ \A k \in DOMAIN uniforms : uniforms[k] \in Handles
      /\ Current("uniform") \subseteq Handles
  BY DEF TypeOK, IsCache, Current
<1>1. ASSUME UniformsQueryable PROVE UniformCacheOK
  <2>1. ASSUME NEW k \in DOMAIN uniforms
        PROVE  /\ uniforms[k] \in Current("uniform")
               /\ \/ insts[uniforms[k]].name = k
                  \/ insts[uniforms[k]].type \in RequestNamedTypes
    BY <1>0, <1>1 DEF UniformsQueryable
  <2>2. ASSUME NEW h \in Current("uniform")
        PROVE  \E k \in DOMAIN uniforms : uniforms[k] = h
    BY <1>0, <1>1 DEF UniformsQueryable
  <2>3. ASSUME NEW j \in DOMAIN uniforms, NEW k \in DOMAIN uniforms, uniforms[j] = uniforms[k]
        PROVE  j = k
    <3>1. PICK n : QueryUniformName(uniforms[k]) = {n}
      BY <1>0, <1>1, <2>1 DEF UniformsQueryable
    <3>2. QED  BY <2>3, <3>1
  <2>4. QED  BY <2>1, <2>2, <2>3 DEF UniformCacheOK
<1>2. ASSUME UniformCacheOK PROVE UniformsQueryable
  <2>1. ASSUME NEW h \in Handles, h \in Current("uniform")
        PROVE  \E k \in AllNames :
                  /\ QueryUniformName(h) = {k}
                  /\ insts[h].name = k \/ insts[h].type \in RequestNamedTypes
    <3>1. PICK k \in DOMAIN uniforms : uniforms[k] = h  BY <1>2, <2>1 DEF UniformCacheOK
    <3>2. QueryUniformName(h) = {k}  BY <1>2, <3>1 DEF UniformCacheOK
    <3>3. QED  BY <1>0, <1>2, <3>1, <3>2 DEF UniformCacheOK
  <2>2. ASSUME NEW h \in Handles, h \notin Current("uniform")
        PROVE  QueryUniformName(h) = {}
    BY <1>2, <2>2 DEF UniformCacheOK
  <2>3. QED  BY <2>1, <2>2 DEF UniformsQueryable
<1>3. QED  BY <1>1, <1>2

\* The invariants of the variables and their caches, inductive together.
CacheInv ==
    TypeOK /\ UniformCacheOK /\ InterfaceMatchesCaches /\ UniformNamesDistinct

\* A new variable takes the next handle and leaves the others alone.
LEMMA NewInstAppends ==
  ASSUME TypeOK, NEW m \in Nat, NEW kind \in {"input", "output", "uniform"},
         NEW STATE name, name \in AllNames, NEW type \in Types, NewInst(m, kind, name, type)
  PROVE  /\ insts' \in Seq(InstRecords) /\ Len(insts') <= MaxInsts
         /\ Len(insts) < MaxInsts
         /\ NextHandle \in Nat /\ NextHandle \notin Handles
         /\ Handles' = Handles \cup {NextHandle}
         /\ \A h \in Handles : insts'[h] = insts[h]
         /\ insts'[NextHandle] = [module |-> m, kind |-> kind, name |-> name,
                                  type |-> type, epoch |-> links]
<1>1. [module |-> m, kind |-> kind, name |-> name, type |-> type, epoch |-> links]
         \in InstRecords
  BY DEF TypeOK, InstRecords
<1>2. insts \in Seq(InstRecords) /\ MaxInsts \in Nat  BY BoundsAssumption DEF TypeOK
<1>3. QED  BY <1>1, <1>2 DEF NewInst, Handles, NextHandle

\* In the initial state there is no variable and no cached name.
LEMMA InitCacheInv == Init => CacheInv
BY BoundsAssumption DEF Init, CacheInv, TypeOK, IsCache, EmptyMap, Handles, UniformCacheOK,
   OneNamePerUniform, InterfaceMatchesCaches, CachedByName, Current, UniformNamesDistinct

-----------------------------------------------------------------------------
\* A step that creates a variable of some kind, as the lemmas below see it.
NewVariable(kind) ==
    /\ NextHandle \notin Handles
    /\ Handles' = Handles \cup {NextHandle}
    /\ \A h \in Handles : insts'[h] = insts[h]
    /\ insts'[NextHandle].kind = kind /\ insts'[NextHandle].epoch = links
    /\ links' = links

\* Such a step adds the variable to the current variables of its kind only.
LEMMA CurrentAfterNew ==
  ASSUME NEW kind, NEW k, NewVariable(kind)
  PROVE  Current(k)' = Current(k) \cup (IF k = kind THEN {NextHandle} ELSE {})
BY DEF Current, NewVariable

\* TypeOK after such a step, given that the caches are caches.
LEMMA TypeAfterNew ==
  ASSUME TypeOK, NEW kind, NewVariable(kind),
         insts' \in Seq(InstRecords), Len(insts') <= MaxInsts,
         UNCHANGED <<modules, ided, callee, exported, decls>>,
         IsCache(inputs)', IsCache(outputs)', IsCache(uniforms)'
  PROVE  TypeOK'
<1>1. links \in Nat /\ links <= links  BY BoundsAssumption DEF TypeOK
<1>2. \A h \in Handles' : insts'[h].epoch <= links'
  BY <1>1 DEF TypeOK, NewVariable
<1>3. ided' \subseteq Handles'  BY DEF TypeOK, NewVariable
<1>4. QED  BY <1>2, <1>3 DEF TypeOK, NewVariable

\* A cache that is not touched stays a cache while handles are added, and one
\* that gains the new handle under a new name is a cache.
LEMMA CacheKept ==
  ASSUME NEW kind, NewVariable(kind)
  PROVE  /\ IsCache(inputs) /\ UNCHANGED inputs => IsCache(inputs)'
         /\ IsCache(outputs) /\ UNCHANGED outputs => IsCache(outputs)'
         /\ IsCache(uniforms) /\ UNCHANGED uniforms => IsCache(uniforms)'
BY DEF IsCache, NewVariable

\* MapInsert of the new handle under a new name keeps a cache a cache.
LEMMA CacheAfterInsert ==
  ASSUME NEW STATE map, IsCache(map), NEW kind, NewVariable(kind),
         NEW STATE key, key \in AllNames
  PROVE  /\ DOMAIN MapInsert(map, key, NextHandle) \subseteq AllNames
         /\ MapInsert(map, key, NextHandle)
               \in [DOMAIN MapInsert(map, key, NextHandle) -> Handles']
<1>1. \A k \in DOMAIN map : map[k] \in Handles' BY DEF IsCache, NewVariable
<1>2. NextHandle \in Handles' BY DEF NewVariable
<1>3. DOMAIN map \subseteq AllNames BY DEF IsCache
<1>4. QED BY <1>1, <1>2, <1>3 DEF MapInsert

\* The caches of the other kinds do not see the new variable.
LEMMA OtherCachesKept ==
  ASSUME NEW kind, NewVariable(kind)
  PROVE  /\ (kind # "input" /\ UNCHANGED inputs /\ CachedByName(inputs, "input"))
               => CachedByName(inputs, "input")'
         /\ (kind # "output" /\ UNCHANGED outputs /\ CachedByName(outputs, "output"))
               => CachedByName(outputs, "output")'
         /\ (kind # "uniform" /\ UNCHANGED uniforms /\ UniformCacheOK) => UniformCacheOK'
<1>0. /\ \A h \in Handles : insts'[h] = insts[h]
      /\ \A k : Current(k) \subseteq Handles
  BY DEF Current, NewVariable
<1>1. ASSUME kind # "input", UNCHANGED inputs, CachedByName(inputs, "input")
      PROVE  CachedByName(inputs, "input")'
  <2>1. Current("input")' = Current("input")  BY <1>1, CurrentAfterNew
  <2>2. QED  BY <1>0, <1>1, <2>1 DEF CachedByName
<1>2. ASSUME kind # "output", UNCHANGED outputs, CachedByName(outputs, "output")
      PROVE  CachedByName(outputs, "output")'
  <2>1. Current("output")' = Current("output")  BY <1>2, CurrentAfterNew
  <2>2. QED  BY <1>0, <1>2, <2>1 DEF CachedByName
<1>3. ASSUME kind # "uniform", UNCHANGED uniforms, UniformCacheOK
      PROVE  UniformCacheOK'
  <2>1. Current("uniform")' = Current("uniform")  BY <1>3, CurrentAfterNew
  <2>2. QED  BY <1>0, <1>3, <2>1 DEF UniformCacheOK, OneNamePerUniform
<1>4. QED  BY <1>1, <1>2, <1>3

\* A variable that is no uniform disturbs no uniform's name.
LEMMA UniformNamesKept ==
  ASSUME UniformNamesDistinct, NEW kind, kind # "uniform", NewVariable(kind)
  PROVE  UniformNamesDistinct'
BY DEF UniformNamesDistinct, NewVariable

-----------------------------------------------------------------------------
\* Each action keeps the invariant.
LEMMA AddInputStep ==
  ASSUME CacheInv, NEW n \in Names, NEW t \in Types, AddInput(n, t)
  PROVE  CacheInv'
<1>1. /\ n \in AllNames /\ n \notin DOMAIN inputs
      /\ NewInst(MainModule, "input", n, t)
      /\ inputs' = MapInsert(inputs, n, NextHandle)
      /\ UNCHANGED <<modules, ided, callee, outputs, uniforms, exported, decls, links>>
  BY DEF AddInput, AllNames
<1>2. /\ NewVariable("input") /\ insts' \in Seq(InstRecords) /\ Len(insts') <= MaxInsts
      /\ insts'[NextHandle].name = n /\ insts'[NextHandle].module = MainModule
  <2>1. MainModule \in Nat /\ TypeOK  BY DEF MainModule, CacheInv
  <2>2. /\ insts' \in Seq(InstRecords) /\ Len(insts') <= MaxInsts
        /\ NextHandle \notin Handles /\ Handles' = Handles \cup {NextHandle}
        /\ \A h \in Handles : insts'[h] = insts[h]
        /\ insts'[NextHandle] = [module |-> MainModule, kind |-> "input", name |-> n,
                                 type |-> t, epoch |-> links]
    BY <1>1, <2>1, NewInstAppends
  <2>3. QED  BY <1>1, <2>2 DEF NewVariable
<1>3. /\ DOMAIN inputs' = DOMAIN inputs \cup {n}
      /\ inputs'[n] = NextHandle
      /\ \A x \in DOMAIN inputs : inputs'[x] = inputs[x]
  BY <1>1 DEF MapInsert
<1>4. TypeOK'
  <2>1. IsCache(inputs)'
    <3>1. IsCache(inputs)  BY DEF CacheInv, TypeOK
    <3>2. QED  BY <1>1, <1>2, <3>1, CacheAfterInsert DEF IsCache
  <2>2. IsCache(outputs)' /\ IsCache(uniforms)'  BY <1>1, <1>2, CacheKept DEF CacheInv, TypeOK
  <2>3. QED  BY <1>1, <1>2, <2>1, <2>2, TypeAfterNew DEF CacheInv
<1>5. UniformCacheOK' /\ CachedByName(outputs, "output")'
  BY <1>1, <1>2, OtherCachesKept DEF CacheInv, InterfaceMatchesCaches
<1>6. CachedByName(inputs, "input")'
  <2>1. Current("input")' = Current("input") \cup {NextHandle}  BY <1>2, CurrentAfterNew
  <2>2. CachedByName(inputs, "input")  BY DEF CacheInv, InterfaceMatchesCaches
  <2>3. \A h \in Handles : insts'[h] = insts[h]  BY <1>2 DEF NewVariable
  <2>4. Current("input") \subseteq Handles  BY DEF Current
  <2>5. QED  BY <1>2, <1>3, <2>1, <2>2, <2>3, <2>4 DEF CachedByName
<1>7. UniformNamesDistinct'  BY <1>2, UniformNamesKept DEF CacheInv
<1>8. QED  BY <1>4, <1>5, <1>6, <1>7 DEF CacheInv, InterfaceMatchesCaches

\* Outputs are kept as inputs are.
LEMMA AddOutputStep ==
  ASSUME CacheInv, NEW n \in Names, NEW t \in Types, AddOutput(n, t)
  PROVE  CacheInv'
<1>1. /\ n \in AllNames /\ n \notin DOMAIN outputs
      /\ NewInst(MainModule, "output", n, t)
      /\ outputs' = MapInsert(outputs, n, NextHandle)
      /\ UNCHANGED <<modules, ided, callee, inputs, uniforms, exported, decls, links>>
  BY DEF AddOutput, AllNames
<1>2. /\ NewVariable("output") /\ insts' \in Seq(InstRecords) /\ Len(insts') <= MaxInsts
      /\ insts'[NextHandle].name = n /\ insts'[NextHandle].module = MainModule
  <2>1. MainModule \in Nat /\ TypeOK  BY DEF MainModule, CacheInv
  <2>2. /\ insts' \in Seq(InstRecords) /\ Len(insts') <= MaxInsts
        /\ NextHandle \notin Handles /\ Handles' = Handles \cup {NextHandle}
        /\ \A h \in Handles : insts'[h] = insts[h]
        /\ insts'[NextHandle] = [module |-> MainModule, kind |-> "output", name |-> n,
                                 type |-> t, epoch |-> links]
    BY <1>1, <2>1, NewInstAppends
  <2>3. QED  BY <1>1, <2>2 DEF NewVariable
<1>3. /\ DOMAIN outputs' = DOMAIN outputs \cup {n}
      /\ outputs'[n] = NextHandle
      /\ \A x \in DOMAIN outputs : outputs'[x] = outputs[x]
  BY <1>1 DEF MapInsert
<1>4. TypeOK'
  <2>1. IsCache(outputs)'
    <3>1. IsCache(outputs)  BY DEF CacheInv, TypeOK
    <3>2. QED  BY <1>1, <1>2, <3>1, CacheAfterInsert DEF IsCache
  <2>2. IsCache(inputs)' /\ IsCache(uniforms)'  BY <1>1, <1>2, CacheKept DEF CacheInv, TypeOK
  <2>3. QED  BY <1>1, <1>2, <2>1, <2>2, TypeAfterNew DEF CacheInv
<1>5. UniformCacheOK' /\ CachedByName(inputs, "input")'
  BY <1>1, <1>2, OtherCachesKept DEF CacheInv, InterfaceMatchesCaches
<1>6. CachedByName(outputs, "output")'
  <2>1. Current("output")' = Current("output") \cup {NextHandle}  BY <1>2, CurrentAfterNew
  <2>2. CachedByName(outputs, "output")  BY DEF CacheInv, InterfaceMatchesCaches
  <2>3. \A h \in Handles : insts'[h] = insts[h]  BY <1>2 DEF NewVariable
  <2>4. Current("output") \subseteq Handles  BY DEF Current
  <2>5. QED  BY <1>2, <1>3, <2>1, <2>2, <2>3, <2>4 DEF CachedByName
<1>7. UniformNamesDistinct'  BY <1>2, UniformNamesKept DEF CacheInv
<1>8. QED  BY <1>4, <1>5, <1>6, <1>7 DEF CacheInv, InterfaceMatchesCaches

\* A uniform is cached under the free name, and named so unless it is a bool or int.
LEMMA AddUniformStep ==
  ASSUME CacheInv, NEW m \in ModuleRefs, NEW n \in Names, NEW t \in Types, AddUniform(m, n, t)
  PROVE  CacheInv'
<1> DEFINE key == GetAvaliableUnifName(n)
<1>1. /\ key \in AllNames /\ key \notin DOMAIN uniforms
  <2>1. Len(insts) < MaxInsts  BY DEF AddUniform, NewInst
  <2>2. QED  BY <2>1, AvailableNameIsFree DEF CacheInv, TypeOK, UniformCacheOK
<1>2. /\ UniformOpName(n, t) \in AllNames
      /\ t \in RequestNamedTypes \/ UniformOpName(n, t) = key
  BY <1>1 DEF UniformOpName, AllNames
<1>3. /\ NewInst(m, "uniform", UniformOpName(n, t), t)
      /\ uniforms' = MapInsert(uniforms, key, NextHandle)
      /\ UNCHANGED <<modules, ided, callee, inputs, outputs, exported, decls, links>>
  BY DEF AddUniform
<1> HIDE DEF key
<1>4. /\ NewVariable("uniform") /\ insts' \in Seq(InstRecords) /\ Len(insts') <= MaxInsts
      /\ insts'[NextHandle].name = UniformOpName(n, t) /\ insts'[NextHandle].type = t
      /\ insts'[NextHandle].epoch = links
  <2>1. m \in Nat /\ TypeOK  BY DEF ModuleRefs, MainModule, CacheInv, TypeOK
  <2>2. /\ insts' \in Seq(InstRecords) /\ Len(insts') <= MaxInsts
        /\ NextHandle \notin Handles /\ Handles' = Handles \cup {NextHandle}
        /\ \A h \in Handles : insts'[h] = insts[h]
        /\ insts'[NextHandle] = [module |-> m, kind |-> "uniform",
                                 name |-> UniformOpName(n, t), type |-> t, epoch |-> links]
    BY <1>2, <1>3, <2>1, NewInstAppends
  <2>3. QED  BY <1>3, <2>2 DEF NewVariable
<1>5. /\ DOMAIN uniforms' = DOMAIN uniforms \cup {key}
      /\ uniforms'[key] = NextHandle
      /\ \A x \in DOMAIN uniforms : uniforms'[x] = uniforms[x]
  BY <1>1, <1>3 DEF MapInsert
<1>6. TypeOK'
  <2>1. IsCache(uniforms)'
    <3>1. IsCache(uniforms)  BY DEF CacheInv, TypeOK
    <3>2. QED  BY <1>1, <1>3, <1>4, <3>1, CacheAfterInsert DEF IsCache
  <2>2. IsCache(inputs)' /\ IsCache(outputs)'  BY <1>3, <1>4, CacheKept DEF CacheInv, TypeOK
  <2>3. QED  BY <1>3, <1>4, <2>1, <2>2, TypeAfterNew DEF CacheInv
<1>7. InterfaceMatchesCaches'
  BY <1>3, <1>4, OtherCachesKept DEF CacheInv, InterfaceMatchesCaches
<1>8. /\ \A h \in Handles : insts'[h] = insts[h]
      /\ Handles' = Handles \cup {NextHandle} /\ NextHandle \notin Handles
      /\ links' = links
      /\ Current("uniform") \subseteq Handles
      /\ Current("uniform")' = Current("uniform") \cup {NextHandle}
  BY <1>4, CurrentAfterNew DEF NewVariable, Current
<1>9. UniformCacheOK'
  <2>1. UniformCacheOK  BY DEF CacheInv
  <2>2. ASSUME NEW k \in DOMAIN uniforms'
        PROVE  /\ uniforms'[k] \in Current("uniform")'
               /\ \/ insts'[uniforms'[k]].name = k
                  \/ insts'[uniforms'[k]].type \in RequestNamedTypes
    BY <1>2, <1>4, <1>5, <1>8, <2>1 DEF UniformCacheOK
  <2>3. \A h \in Current("uniform")' : \E k \in DOMAIN uniforms' : uniforms'[k] = h
    BY <1>5, <1>8, <2>1 DEF UniformCacheOK
  <2>4. OneNamePerUniform'
    BY <1>5, <1>8, <2>1 DEF UniformCacheOK, OneNamePerUniform
  <2>5. QED  BY <2>2, <2>3, <2>4 DEF UniformCacheOK
<1>10. UniformNamesDistinct'
  \* A current uniform of this name would hold the key, which is free.
  <2>1. ASSUME NEW h \in Handles, insts[h].kind = "uniform", insts[h].epoch = links,
               insts[h].type \notin RequestNamedTypes
        PROVE  insts[h].name # key
    <3>1. PICK k \in DOMAIN uniforms : uniforms[k] = h
      BY <2>1 DEF Current, CacheInv, UniformCacheOK
    <3>2. insts[h].name = k  BY <2>1, <3>1 DEF CacheInv, UniformCacheOK
    <3>3. QED  BY <1>1, <3>2
  <2>2. UniformNamesDistinct  BY DEF CacheInv
  <2>3. QED  BY <1>2, <1>4, <1>8, <2>1, <2>2 DEF UniformNamesDistinct
<1>11. QED  BY <1>6, <1>7, <1>9, <1>10 DEF CacheInv

\* Steps that leave the variables and the caches alone.
LEMMA FrameStep ==
  ASSUME CacheInv, UNCHANGED <<insts, caches, links>>, TypeOK'
  PROVE  CacheInv'
BY DEF CacheInv, caches, UniformCacheOK, OneNamePerUniform, InterfaceMatchesCaches,
   CachedByName, Current, Handles, UniformNamesDistinct

\* AddModule touches the registry alone.
LEMMA AddModuleStep ==
  ASSUME CacheInv, NEW n \in ModuleNames, NEW c \in Codes, AddModule(n, c)
  PROVE  CacheInv'
<1>1. modules' \in Seq([name : ModuleNames, code : Codes, ok : BOOLEAN])
  BY DEF CacheInv, TypeOK, AddModule
<1>2. UNCHANGED <<insts, caches, links>> /\ UNCHANGED <<ided, callee, exported, decls>>
  BY DEF AddModule
<1>3. TypeOK'  BY <1>1, <1>2 DEF CacheInv, TypeOK, caches, IsCache, Handles
<1>4. QED  BY <1>2, <1>3, FrameStep

\* ReplaceFunc redirects calls and gives out ids alone.
LEMMA ReplaceFuncStep ==
  ASSUME CacheInv, NEW f \in Funcs, NEW g \in Funcs, ReplaceFunc(f, g)
  PROVE  CacheInv'
<1>1. ided' \subseteq Handles /\ callee' \in [Funcs -> Funcs]
  BY DEF CacheInv, TypeOK, ReplaceFunc, Replace, AssignIDs
<1>2. UNCHANGED <<insts, caches, links>> /\ UNCHANGED <<modules, exported, decls>>
  BY DEF ReplaceFunc
<1>3. TypeOK'  BY <1>1, <1>2 DEF CacheInv, TypeOK, caches, IsCache, Handles
<1>4. QED  BY <1>2, <1>3, FrameStep

\* AddLinkDecl touches the exported names and the decorations alone.
LEMMA AddLinkDeclStep ==
  ASSUME CacheInv, NEW f \in Funcs, NEW n \in LinkNames, NEW e \in BOOLEAN, AddLinkDecl(f, n, e)
  PROVE  CacheInv'
<1>1. [func |-> f, name |-> n, kind |-> IF e THEN "export" ELSE "import", epoch |-> links]
         \in DeclRecords
  BY DEF CacheInv, TypeOK, DeclRecords
<1>2. decls' \in Seq(DeclRecords) /\ exported' \subseteq LinkNames
  BY <1>1 DEF CacheInv, TypeOK, AddLinkDecl, Decorate
<1>3. UNCHANGED <<insts, caches, links>> /\ UNCHANGED <<modules, ided, callee>>
  BY DEF AddLinkDecl
<1>4. TypeOK'  BY <1>2, <1>3 DEF CacheInv, TypeOK, caches, IsCache, Handles
<1>5. QED  BY <1>3, <1>4, FrameStep

\* After a Link no variable is current, and the caches are empty.
LEMMA LinkStep ==
  ASSUME CacheInv, Link
  PROVE  CacheInv'
<1>1. /\ links \in Nat /\ links' = links + 1 /\ links' \in 0..MaxLinks
      /\ UNCHANGED <<modules, insts, callee, decls>>
      /\ DOMAIN inputs' = {} /\ DOMAIN outputs' = {} /\ DOMAIN uniforms' = {}
      /\ exported' = {}
      /\ ided' \subseteq Handles
  BY BoundsAssumption DEF Link, LinkSpvtools, ResetState, EmptyMap, AssignIDs, CacheInv, TypeOK
<1>2. IsCache(inputs)' /\ IsCache(outputs)' /\ IsCache(uniforms)'
  BY DEF Link, LinkSpvtools, ResetState, EmptyMap, IsCache
<1>3. \A h \in Handles : insts[h].epoch \in Nat /\ insts[h].epoch <= links
  <2>1. \A h \in Handles : insts[h] \in InstRecords /\ insts[h].epoch <= links
    BY DEF CacheInv, TypeOK, Handles
  <2>2. \A h \in Handles : insts[h].epoch \in Nat
    BY <2>1, BoundsAssumption DEF InstRecords
  <2>3. QED  BY <2>1, <2>2
<1>4. TypeOK'  BY <1>1, <1>2, <1>3 DEF CacheInv, TypeOK, Handles
<1>5. \A k : Current(k)' = {}
  BY <1>1, <1>3 DEF Current, Handles
<1>6. UniformCacheOK' /\ InterfaceMatchesCaches'
  BY <1>1, <1>5 DEF UniformCacheOK, OneNamePerUniform, InterfaceMatchesCaches, CachedByName
<1>7. UniformNamesDistinct'  BY <1>1 DEF CacheInv, UniformNamesDistinct, Handles
<1>8. QED  BY <1>4, <1>6, <1>7 DEF CacheInv

\* Every step keeps the invariant of the caches.
LEMMA NextCacheInv == CacheInv /\ [Next]_vars => CacheInv'
<1> SUFFICES ASSUME CacheInv, [Next]_vars PROVE CacheInv'  OBVIOUS
<1>1. ASSUME NEW n \in Names, NEW t \in Types, AddInput(n, t) PROVE CacheInv'
  BY <1>1, AddInputStep
<1>2. ASSUME NEW n \in Names, NEW t \in Types, AddOutput(n, t) PROVE CacheInv'
  BY <1>2, AddOutputStep
<1>3. ASSUME NEW n \in Names, NEW t \in Types, NEW m \in ModuleRefs, AddUniform(m, n, t)
      PROVE  CacheInv'
  BY <1>3, AddUniformStep
<1>4. ASSUME NEW n \in ModuleNames, NEW c \in Codes, AddModule(n, c) PROVE CacheInv'
  BY <1>4, AddModuleStep
<1>5. ASSUME NEW f \in Funcs, NEW g \in Funcs, ReplaceFunc(f, g) PROVE CacheInv'
  BY <1>5, ReplaceFuncStep
<1>6. ASSUME NEW f \in Funcs, NEW n \in LinkNames, NEW e \in BOOLEAN, AddLinkDecl(f, n, e)
      PROVE  CacheInv'
  BY <1>6, AddLinkDeclStep
<1>7. CASE Link  BY <1>7, LinkStep
<1>8. CASE UNCHANGED vars
  <2>1. UNCHANGED <<insts, caches, links>> /\ UNCHANGED <<modules, ided, callee, exported, decls>>
    BY <1>8 DEF vars
  <2>2. TypeOK'  BY <2>1 DEF CacheInv, TypeOK, caches, IsCache, Handles
  <2>3. QED  BY <2>1, <2>2, FrameStep
<1>9. QED  BY <1>1, <1>2, <1>3, <1>4, <1>5, <1>6, <1>7, <1>8 DEF Next

\* ShaderBuilder.cpp:72-174,363-388: the builder's variables and caches keep
\* their types and agree with each other, however its calls are ordered.
THEOREM CacheInvariant == Spec => []CacheInv
<1>1. Init => CacheInv  BY InitCacheInv
<1>2. CacheInv /\ [Next]_vars => CacheInv'  BY NextCacheInv
<1>3. QED  BY <1>1, <1>2, PTL DEF Spec

\* The types of the builder's fields; no cache ever holds a null pointer.
THEOREM TypeCorrect == Spec => []TypeOK
<1>1. CacheInv => TypeOK  BY DEF CacheInv
<1>2. QED  BY <1>1, CacheInvariant, PTL

\* QueryUniformName answers every uniform created since the last Link with one
\* name, its OpName unless it is a bool or an int, and no older uniform.
THEOREM UniformsAlwaysQueryable == Spec => []UniformsQueryable
<1>1. CacheInv => UniformsQueryable  BY QueryableFromCache DEF CacheInv
<1>2. QED  BY <1>1, CacheInvariant, PTL

\* Main never declares two inputs, or two outputs, of one name between two Links.
THEOREM InterfaceAlwaysCached == Spec => []InterfaceMatchesCaches
<1>1. CacheInv => InterfaceMatchesCaches  BY DEF CacheInv
<1>2. QED  BY <1>1, CacheInvariant, PTL

\* Uniforms other than bools and ints never share a name between two Links.
THEOREM UniformNamesAlwaysDistinct == Spec => []UniformNamesDistinct
<1>1. CacheInv => UniformNamesDistinct  BY DEF CacheInv
<1>2. QED  BY <1>1, CacheInvariant, PTL

-----------------------------------------------------------------------------
\* What users of a name table rely on.  Bound holders were issued, so a holder
\* about to be issued is bound nowhere.
NameTableInv == TableTypeOK /\ OneNamePerHolder

LEMMA InitNameTableInv == TableInit => NameTableInv
  BY DEF TableInit, EmptyTable, NameTableInv, TableTypeOK, OneNamePerHolder

LEMMA NextNameTableInv == NameTableInv /\ [TableNext]_tableVars => NameTableInv'
<1> SUFFICES ASSUME NameTableInv, [TableNext]_tableVars PROVE NameTableInv'  OBVIOUS
<1> USE DEF NameTableInv, TableTypeOK, OneNamePerHolder
<1>1. ASSUME NEW n \in Keys, NEW h \in Holders, Bind(n, h) PROVE NameTableInv'
  BY <1>1 DEF Bind
<1>2. ASSUME NEW h \in Holders, IssueElsewhere(h) PROVE NameTableInv'
  BY <1>2 DEF IssueElsewhere
<1>3. CASE DropAll  BY <1>3 DEF DropAll, EmptyTable
<1>4. CASE UNCHANGED tableVars  BY <1>4 DEF tableVars
<1>5. QED  BY <1>1, <1>2, <1>3, <1>4 DEF TableNext

\* Only issued holders are bound, by names.
THEOREM TableTypeCorrect == TableSpec => []TableTypeOK
<1>1. NameTableInv => TableTypeOK  BY DEF NameTableInv
<1>2. QED  BY InitNameTableInv, NextNameTableInv, <1>1, PTL DEF TableSpec

\* A name can be recovered from its holder, however bindings and drops alternate.
THEOREM NamesRecoverable == TableSpec => []OneNamePerHolder
<1>1. NameTableInv => OneNamePerHolder  BY DEF NameTableInv
<1>2. QED  BY InitNameTableInv, NextNameTableInv, <1>1, PTL DEF TableSpec

-----------------------------------------------------------------------------
\* Refinement: each cache is a NameTable whose holders are the handles.
Issues(h) ==
    /\ h \in 1..MaxInsts /\ h \notin DOMAIN insts
    /\ DOMAIN insts' = DOMAIN insts \cup {h}

\* A new variable takes a handle that was never issued.
LEMMA NewHandleIssued ==
  ASSUME TypeOK, NEW STATE m, NEW kind, NEW STATE name, NEW type, NewInst(m, kind, name, type)
  PROVE  Issues(NextHandle)
<1>1. insts \in Seq(InstRecords) /\ MaxInsts \in Nat  BY BoundsAssumption DEF TypeOK
<1>2. QED  BY <1>1 DEF NewInst, Issues, NextHandle

\* Every step of the builder is a step of the input cache's name table, or a stutter.
LEMMA InputsStepRefines ==
  CacheInv /\ [Next]_vars => [Inputs!TableNext]_<<inputs, DOMAIN insts>>
<1> SUFFICES ASSUME CacheInv, [Next]_vars
             PROVE  Inputs!TableNext \/ UNCHANGED <<inputs, DOMAIN insts>>
    OBVIOUS
<1>1. ASSUME NEW n \in Names, NEW t \in Types, NEW m \in ModuleRefs,
             AddOutput(n, t) \/ AddUniform(m, n, t)
      PROVE  Inputs!TableNext
  <2>1. Issues(NextHandle)  BY <1>1, NewHandleIssued DEF AddOutput, AddUniform, CacheInv
  <2>2. Inputs!IssueElsewhere(NextHandle)
    BY <1>1, <2>1 DEF AddOutput, AddUniform, Inputs!IssueElsewhere, Issues
  <2>3. QED  BY <2>1, <2>2 DEF Inputs!TableNext, Issues
<1>2. ASSUME NEW n \in Names, NEW t \in Types, NEW m \in ModuleRefs, AddInput(n, t)
      PROVE  Inputs!TableNext
  <2>1. Issues(NextHandle)  BY <1>2, NewHandleIssued DEF AddInput, CacheInv
  <2>2. Inputs!Bind(n, NextHandle)
    BY <1>2, <2>1 DEF AddInput, MapInsert, Inputs!Bind, Issues
  <2>3. n \in AllNames  BY DEF AllNames
  <2>4. QED  BY <2>1, <2>2, <2>3 DEF Inputs!TableNext, Issues
<1>3. CASE Link
  <2>1. Inputs!DropAll
    BY <1>3 DEF Link, LinkSpvtools, ResetState, EmptyMap, Inputs!DropAll, Inputs!EmptyTable
  <2>2. QED  BY <2>1 DEF Inputs!TableNext
<1>4. CASE \/ \E n \in ModuleNames, c \in Codes : AddModule(n, c)
           \/ \E f, g \in Funcs : ReplaceFunc(f, g)
           \/ \E f \in Funcs, n \in LinkNames, e \in BOOLEAN : AddLinkDecl(f, n, e)
           \/ UNCHANGED vars
  BY <1>4 DEF AddModule, ReplaceFunc, AddLinkDecl, vars, caches
<1>5. MainModule \in ModuleRefs  BY DEF ModuleRefs
<1>6. QED  BY <1>1, <1>2, <1>3, <1>4, <1>5 DEF Next

\* The same of the output cache.
LEMMA OutputsStepRefines ==
  CacheInv /\ [Next]_vars => [Outputs!TableNext]_<<outputs, DOMAIN insts>>
<1> SUFFICES ASSUME CacheInv, [Next]_vars
             PROVE  Outputs!TableNext \/ UNCHANGED <<outputs, DOMAIN insts>>
    OBVIOUS
<1>1. ASSUME NEW n \in Names, NEW t \in Types, NEW m \in ModuleRefs,
             AddInput(n, t) \/ AddUniform(m, n, t)
      PROVE  Outputs!TableNext
  <2>1. Issues(NextHandle)  BY <1>1, NewHandleIssued DEF AddInput, AddUniform, CacheInv
  <2>2. Outputs!IssueElsewhere(NextHandle)
    BY <1>1, <2>1 DEF AddInput, AddUniform, Outputs!IssueElsewhere, Issues
  <2>3. QED  BY <2>1, <2>2 DEF Outputs!TableNext, Issues
<1>2. ASSUME NEW n \in Names, NEW t \in Types, NEW m \in ModuleRefs, AddOutput(n, t)
      PROVE  Outputs!TableNext
  <2>1. Issues(NextHandle)  BY <1>2, NewHandleIssued DEF AddOutput, CacheInv
  <2>2. Outputs!Bind(n, NextHandle)
    BY <1>2, <2>1 DEF AddOutput, MapInsert, Outputs!Bind, Issues
  <2>3. n \in AllNames  BY DEF AllNames
  <2>4. QED  BY <2>1, <2>2, <2>3 DEF Outputs!TableNext, Issues
<1>3. CASE Link
  <2>1. Outputs!DropAll
    BY <1>3 DEF Link, LinkSpvtools, ResetState, EmptyMap, Outputs!DropAll, Outputs!EmptyTable
  <2>2. QED  BY <2>1 DEF Outputs!TableNext
<1>4. CASE \/ \E n \in ModuleNames, c \in Codes : AddModule(n, c)
           \/ \E f, g \in Funcs : ReplaceFunc(f, g)
           \/ \E f \in Funcs, n \in LinkNames, e \in BOOLEAN : AddLinkDecl(f, n, e)
           \/ UNCHANGED vars
  BY <1>4 DEF AddModule, ReplaceFunc, AddLinkDecl, vars, caches
<1>5. MainModule \in ModuleRefs  BY DEF ModuleRefs
<1>6. QED  BY <1>1, <1>2, <1>3, <1>4, <1>5 DEF Next

\* The same of the uniform cache.
LEMMA UniformsStepRefines ==
  CacheInv /\ [Next]_vars => [Uniforms!TableNext]_<<uniforms, DOMAIN insts>>
<1> SUFFICES ASSUME CacheInv, [Next]_vars
             PROVE  Uniforms!TableNext \/ UNCHANGED <<uniforms, DOMAIN insts>>
    OBVIOUS
<1>1. ASSUME NEW n \in Names, NEW t \in Types, NEW m \in ModuleRefs,
             AddInput(n, t) \/ AddOutput(n, t)
      PROVE  Uniforms!TableNext
  <2>1. Issues(NextHandle)  BY <1>1, NewHandleIssued DEF AddInput, AddOutput, CacheInv
  <2>2. Uniforms!IssueElsewhere(NextHandle)
    BY <1>1, <2>1 DEF AddInput, AddOutput, Uniforms!IssueElsewhere, Issues
  <2>3. QED  BY <2>1, <2>2 DEF Uniforms!TableNext, Issues
<1>2. ASSUME NEW n \in Names, NEW t \in Types, NEW m \in ModuleRefs, AddUniform(m, n, t)
      PROVE  Uniforms!TableNext
  <2>1. Issues(NextHandle)  BY <1>2, NewHandleIssued DEF AddUniform, CacheInv
  <2> DEFINE key == GetAvaliableUnifName(n)
  <2>2. key \in AllNames /\ key \notin DOMAIN uniforms
    <3>1. Len(insts) < MaxInsts  BY <1>2 DEF AddUniform, NewInst
    <3>2. QED  BY <3>1, AvailableNameIsFree DEF CacheInv, TypeOK, UniformCacheOK
  <2>3. uniforms' = MapInsert(uniforms, key, NextHandle)  BY <1>2 DEF AddUniform
  <2> HIDE DEF key
  <2>4. Uniforms!Bind(key, NextHandle)
    BY <2>1, <2>2, <2>3 DEF MapInsert, Uniforms!Bind, Issues
  <2>5. QED  BY <2>1, <2>2, <2>4 DEF Uniforms!TableNext, Issues
<1>3. CASE Link
  <2>1. Uniforms!DropAll
    BY <1>3 DEF Link, LinkSpvtools, ResetState, EmptyMap, Uniforms!DropAll, Uniforms!EmptyTable
  <2>2. QED  BY <2>1 DEF Uniforms!TableNext
<1>4. CASE \/ \E n \in ModuleNames, c \in Codes : AddModule(n, c)
           \/ \E f, g \in Funcs : ReplaceFunc(f, g)
           \/ \E f \in Funcs, n \in LinkNames, e \in BOOLEAN : AddLinkDecl(f, n, e)
           \/ UNCHANGED vars
  BY <1>4 DEF AddModule, ReplaceFunc, AddLinkDecl, vars, caches
<1>5. MainModule \in ModuleRefs  BY DEF ModuleRefs
<1>6. QED  BY <1>1, <1>2, <1>3, <1>4, <1>5 DEF Next

\* ShaderBuilder.h:86-88: every cache implements NameTable: no variable is handed
\* out under two names of a cache, and names are taken back by Link alone.
THEOREM CachesRefineNameTable == Spec => CachesAreNameTables
<1>1. Init => Inputs!TableInit /\ Outputs!TableInit /\ Uniforms!TableInit
  BY DEF Init, EmptyMap, Inputs!TableInit, Inputs!EmptyTable, Outputs!TableInit, Outputs!EmptyTable,
         Uniforms!TableInit, Uniforms!EmptyTable
<1>2. CacheInv /\ [Next]_vars => /\ [Inputs!TableNext]_(Inputs!tableVars)
                                 /\ [Outputs!TableNext]_(Outputs!tableVars)
                                 /\ [Uniforms!TableNext]_(Uniforms!tableVars)
  BY InputsStepRefines, OutputsStepRefines, UniformsStepRefines
     DEF Inputs!tableVars, Outputs!tableVars, Uniforms!tableVars
<1>3. QED  BY <1>1, <1>2, CacheInvariant, PTL
           DEF Spec, CachesAreNameTables, Inputs!TableSpec, Outputs!TableSpec, Uniforms!TableSpec

-----------------------------------------------------------------------------
\* The registry and the export declarations: decorations of a past epoch stay
\* past, so that a Link really starts the exports afresh.
LinkageInv ==
    /\ TypeOK /\ ExportsMatchDecorations /\ RegistryNamesDistinct
    /\ \A d \in DOMAIN decls : decls[d].epoch \in Nat /\ decls[d].epoch <= links

\* The names exported since the last Link.
CurrentExports == {decls[d].name : d \in {e \in DOMAIN decls :
                                            IsExport(e) /\ decls[e].epoch = links}}

\* In the initial state nothing is registered or exported.
LEMMA InitLinkageInv == Init => LinkageInv
<1> SUFFICES ASSUME Init PROVE LinkageInv  OBVIOUS
<1>1. TypeOK  BY InitCacheInv DEF CacheInv
<1>2. DOMAIN decls = {} /\ DOMAIN modules = {} /\ exported = {}  BY DEF Init
<1>3. QED  BY <1>1, <1>2 DEF LinkageInv, ExportsMatchDecorations, RegistryNamesDistinct

\* AddModule appends a name that is not registered.
LEMMA AddModuleKeepsLinkage ==
  ASSUME LinkageInv, TypeOK', NEW n \in ModuleNames, NEW c \in Codes, AddModule(n, c)
  PROVE  LinkageInv'
<1>1. PICK ok \in BOOLEAN :
        modules' = Append(modules, [name |-> n, code |-> c, ok |-> ok])
  BY DEF AddModule
<1>2. modules \in Seq([name : ModuleNames, code : Codes, ok : BOOLEAN])
  BY DEF LinkageInv, TypeOK
<1>3. \A i \in DOMAIN modules : modules[i].name # n  BY DEF AddModule, Registered
<1>4. RegistryNamesDistinct'
  BY <1>1, <1>2, <1>3 DEF LinkageInv, RegistryNamesDistinct
<1>5. QED  BY <1>4 DEF AddModule, LinkageInv, ExportsMatchDecorations, IsExport

\* AddLinkDecl remembers exactly the names it exports.
LEMMA AddLinkDeclKeepsLinkage ==
  ASSUME LinkageInv, TypeOK', NEW f \in Funcs, NEW n \in LinkNames, NEW e \in BOOLEAN,
         AddLinkDecl(f, n, e)
  PROVE  LinkageInv'
<1> DEFINE kind == IF e THEN "export" ELSE "import"
           new == Len(decls) + 1
<1>1. /\ decls \in Seq(DeclRecords) /\ links \in Nat
      /\ UNCHANGED <<modules, links>>
      /\ decls' = Append(decls, [func |-> f, name |-> n, kind |-> kind, epoch |-> links])
      /\ e => n \notin exported
      /\ exported' = IF e THEN exported \cup {n} ELSE exported
  BY BoundsAssumption DEF LinkageInv, TypeOK, AddLinkDecl, Decorate
<1>2. /\ DOMAIN decls' = DOMAIN decls \cup {new} /\ new \notin DOMAIN decls
      /\ \A d \in DOMAIN decls : decls'[d] = decls[d]
      /\ decls'[new].name = n /\ decls'[new].kind = kind /\ decls'[new].epoch = links
  BY <1>1
<1> HIDE DEF new
<1>3. \A d \in DOMAIN decls' : decls'[d].epoch \in Nat /\ decls'[d].epoch <= links'
  <2>1. links <= links  BY <1>1
  <2>2. QED  BY <1>1, <1>2, <2>1 DEF LinkageInv
<1>4. exported' = CurrentExports'
  <2>1. exported = CurrentExports
    BY DEF LinkageInv, ExportsMatchDecorations, CurrentExports
  <2>2. QED  BY <1>1, <1>2, <2>1 DEF CurrentExports, IsExport
<1>5. ASSUME NEW d \in DOMAIN decls', NEW d2 \in DOMAIN decls',
             IsExport(d)', IsExport(d2)',
             decls'[d].name = decls'[d2].name, decls'[d].epoch = decls'[d2].epoch
      PROVE  d = d2
  <2>1. exported = CurrentExports
    BY DEF LinkageInv, ExportsMatchDecorations, CurrentExports
  <2>2. e => \A x \in DOMAIN decls :
                 ~(IsExport(x) /\ decls[x].epoch = links /\ decls[x].name = n)
    BY <1>1, <2>1 DEF CurrentExports
  <2>3. QED  BY <1>2, <1>5, <2>2 DEF LinkageInv, ExportsMatchDecorations, IsExport
<1>6. QED  BY <1>1, <1>3, <1>4, <1>5
           DEF LinkageInv, ExportsMatchDecorations, CurrentExports, RegistryNamesDistinct

\* Link forgets the exported names, and makes their decorations old.
LEMMA LinkKeepsLinkage ==
  ASSUME LinkageInv, TypeOK', Link
  PROVE  LinkageInv'
<1>1. /\ links \in Nat /\ links' = links + 1 /\ exported' = {}
      /\ UNCHANGED <<modules, decls>>
  BY BoundsAssumption DEF LinkageInv, TypeOK, Link, LinkSpvtools, ResetState
<1>2. \A d \in DOMAIN decls' : decls'[d].epoch \in Nat /\ decls'[d].epoch < links'
  BY <1>1 DEF LinkageInv
<1>3. CurrentExports' = {}
  BY <1>1, <1>2 DEF CurrentExports
<1>4. QED  BY <1>1, <1>2, <1>3
           DEF LinkageInv, ExportsMatchDecorations, CurrentExports, IsExport, RegistryNamesDistinct

\* Every step keeps the invariant of registry and exports.
LEMMA NextLinkageInv == LinkageInv /\ TypeOK' /\ [Next]_vars => LinkageInv'
<1> SUFFICES ASSUME LinkageInv, TypeOK', [Next]_vars PROVE LinkageInv'  OBVIOUS
<1>1. ASSUME NEW n \in ModuleNames, NEW c \in Codes, AddModule(n, c) PROVE LinkageInv'
  BY <1>1, AddModuleKeepsLinkage
<1>2. ASSUME NEW f \in Funcs, NEW n \in LinkNames, NEW e \in BOOLEAN, AddLinkDecl(f, n, e)
      PROVE  LinkageInv'
  BY <1>2, AddLinkDeclKeepsLinkage
<1>3. CASE Link  BY <1>3, LinkKeepsLinkage
<1>4. CASE UNCHANGED <<modules, decls, exported, links>>
  BY <1>4 DEF LinkageInv, ExportsMatchDecorations, IsExport, RegistryNamesDistinct
<1>5. [Next]_vars => \/ \E n \in ModuleNames, c \in Codes : AddModule(n, c)
                     \/ \E f \in Funcs, n \in LinkNames, e \in BOOLEAN : AddLinkDecl(f, n, e)
                     \/ Link
                     \/ UNCHANGED <<modules, decls, exported, links>>
  BY DEF Next, vars, AddInput, AddOutput, AddUniform, ReplaceFunc
<1>6. QED  BY <1>1, <1>2, <1>3, <1>4, <1>5

\* Registry and exports stay consistent however calls and Links alternate.
THEOREM LinkageInvariant == Spec => []LinkageInv
<1>1. Init => LinkageInv  BY InitLinkageInv
<1>2. LinkageInv /\ TypeOK' /\ [Next]_vars => LinkageInv'  BY NextLinkageInv
<1>3. QED  BY <1>1, <1>2, TypeCorrect, PTL DEF Spec

\* ShaderBuilder.cpp:286-298,363: m_added_export_link_decl holds exactly the
\* names with an export decoration since the last Link, and each has only one.
THEOREM ExportsAlwaysMatch == Spec => []ExportsMatchDecorations
<1>1. LinkageInv => ExportsMatchDecorations  BY DEF LinkageInv
<1>2. QED  BY <1>1, LinkageInvariant, PTL

\* ShaderBuilder.cpp:179-182: no two registered modules have one name.
THEOREM RegistryAlwaysDistinct == Spec => []RegistryNamesDistinct
<1>1. LinkageInv => RegistryNamesDistinct  BY DEF LinkageInv
<1>2. QED  BY <1>1, LinkageInvariant, PTL

-----------------------------------------------------------------------------
\* With distinct names, FindModule answers the one module of the name.
LEMMA FindModuleAnswers ==
  ASSUME TypeOK, RegistryNamesDistinct, NEW i \in DOMAIN modules
  PROVE  FindModule(modules[i].name) = i
<1> DEFINE n == modules[i].name
           Found(k) == modules[k].name = n /\ \A j \in 1..(k - 1) : modules[j].name # n
<1>1. DOMAIN modules = 1..Len(modules) /\ Len(modules) \in Nat  BY DEF TypeOK
<1>2. Found(i)
  <2>1. ASSUME NEW j \in 1..(i - 1) PROVE modules[j].name # n
    <3>1. j \in DOMAIN modules /\ j # i  BY <1>1
    <3>2. QED  BY <3>1 DEF RegistryNamesDistinct
  <2>2. QED  BY <2>1
<1>3. \A k \in DOMAIN modules : Found(k) => k = i  BY DEF RegistryNamesDistinct
<1>4. FindModule(n) = CHOOSE k \in DOMAIN modules : Found(k)  BY DEF FindModule
<1> HIDE DEF Found
<1>5. QED  BY <1>2, <1>3, <1>4

\* ShaderBuilder.cpp:179-182,390-398: what AddModule returns for a name is what it
\* returned first, even when that code did not compile.
THEOREM RegistrationIsFinal == Spec => FirstRegistrationWins
<1>1. TypeOK /\ RegistryNamesDistinct =>
         \A k \in DOMAIN modules : FindModule(modules[k].name) = k
  BY FindModuleAnswers
<1>2. (TypeOK /\ RegistryNamesDistinct =>
         \A k \in DOMAIN modules : FindModule(modules[k].name) = k)'
  BY <1>1, PTL
<1>3. LinkageInv /\ LinkageInv' /\ [Next]_vars =>
         [\A n \in ModuleNames : Registered(n) =>
             Registered(n)' /\ modules'[FindModule(n)'] = modules[FindModule(n)]]_vars
  <2> SUFFICES ASSUME LinkageInv, LinkageInv', [Next]_vars,
                      NEW n \in ModuleNames, Registered(n)
               PROVE  Registered(n)' /\ modules'[FindModule(n)'] = modules[FindModule(n)]
      OBVIOUS
  <2>1. PICK i \in DOMAIN modules : modules[i].name = n  BY DEF Registered
  <2>2. i \in DOMAIN modules' /\ modules'[i] = modules[i]
    <3>1. CASE UNCHANGED modules  BY <3>1, <2>1
    <3>2. CASE \E m \in ModuleNames, c \in Codes : AddModule(m, c)
      <4>1. PICK r : modules' = Append(modules, r)  BY <3>2 DEF AddModule
      <4>2. modules \in Seq([name : ModuleNames, code : Codes, ok : BOOLEAN])
        BY DEF LinkageInv, TypeOK
      <4>3. QED  BY <4>1, <4>2, <2>1
    <3>3. QED  BY <3>1, <3>2 DEF Next, vars, AddInput, AddOutput, AddUniform, ReplaceFunc,
                                 AddLinkDecl, Link, LinkSpvtools
  <2>3. FindModule(n) = i  BY <2>1, FindModuleAnswers DEF LinkageInv
  <2>4. FindModule(n)' = i
    <3>1. TypeOK' /\ RegistryNamesDistinct'  BY DEF LinkageInv
    <3>2. modules'[i].name = n  BY <2>1, <2>2
    <3>3. QED  BY <1>2, <2>2, <3>1, <3>2
  <2>5. QED  BY <2>1, <2>2, <2>3, <2>4 DEF Registered
<1>4. QED  BY <1>3, LinkageInvariant, PTL DEF Spec, FirstRegistrationWins
=============================================================================
