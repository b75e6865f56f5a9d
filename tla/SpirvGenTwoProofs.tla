------------------------- MODULE SpirvGenTwoProofs -------------------------
(***************************************************************************)
(* Theorems about SpirvGenTwo, for any number of blocks, calls and types.  *)
(*                                                                         *)
(* Every step adds to the end of blocks: to each block nothing, one        *)
(* instruction, or the header of an If (Grown).  The invariants speak of   *)
(* one block each (Content), so it suffices that growth preserves them;    *)
(* only Headed relates blocks to ifs, and VariablesAreSet to variables.    *)
(***************************************************************************)
EXTENDS SpirvGenTwo, SequenceTheorems, TLAPS

Unended(c) == \A i \in DOMAIN c : c[i].op \notin Terminators

\* A branch joins block b as an arm to the merge block of an If of I.
Joins(b, x, I) ==
    x.op = "branch" => \E i \in DOMAIN I : /\ b \in {I[i].true, I[i].false}
                                           /\ x.to = <<I[i].merge>>

\* What can be appended by itself to block b with content c.
Permitted(b, c, x, I) ==
    /\ x.op \notin {"selectionMerge", "branchConditional"}
    /\ Joins(b, x, I)
    /\ \/ Unended(c)
       \/ b = Entry /\ x.op \in {"store", "call", "return"}
       \/ b # Entry /\ c[Len(c)].op \notin Terminators

\* How a step changes the content of block b from c to d.
Grown(b, c, d, I) ==
    /\ Len(c) <= Len(d) /\ \A i \in 1..Len(c) : d[i] = c[i]
    /\ \/ Len(d) = Len(c)
       \/ Len(d) = Len(c) + 1 /\ Permitted(b, c, d[Len(c) + 1], I)
       \/ /\ Len(d) = Len(c) + 2 /\ Unended(c)
          /\ d[Len(c) + 1].op = "selectionMerge" /\ d[Len(c) + 2].op = "branchConditional"

\* What is added to c is no store of AddVariable.
Plain(c, d) == \A i \in DOMAIN d : i \in DOMAIN c \/ d[i].var = NoVariable

\* The invariants, of one block.
Orderly(b, c) ==
    \A i, j \in DOMAIN c : (i < j /\ c[i].op \in Terminators) =>
        b = Entry /\ c[j].op \in {"store", "call", "return"}
Content(b, c, I) ==
    /\ Orderly(b, c)
    /\ \A i \in DOMAIN c : Joins(b, c[i], I)

\* Ifs are only added.
Longer(I, J) == DOMAIN I \subseteq DOMAIN J /\ \A i \in DOMAIN I : J[i] = I[i]

\* The header of every If is still there.
Headed ==
    \A i \in DOMAIN ifs : \E k \in DOMAIN blocks[ifs[i].header] :
        /\ k + 1 \in DOMAIN blocks[ifs[i].header]
        /\ blocks[ifs[i].header][k].to = <<ifs[i].merge>>
        /\ blocks[ifs[i].header][k + 1].to[1] = ifs[i].true

Inv == /\ TypeOK /\ (\A b \in Blocks : Content(b, blocks[b], ifs)) /\ Headed
       /\ VariablesAreSet

\* The content that a step starts from; a new block had none.
Old(b) == IF b \in Blocks THEN blocks[b] ELSE <<>>

-----------------------------------------------------------------------------
\* Growth keeps the order of terminators.
LEMMA GrowthOrderly ==
  ASSUME NEW c \in Seq(Insts), NEW d \in Seq(Insts), NEW b, NEW J,
         Orderly(b, c), Grown(b, c, d, J)
  PROVE  Orderly(b, d)
<1>0. /\ Len(c) \in Nat /\ DOMAIN c = 1..Len(c)
      /\ Len(d) \in Nat /\ DOMAIN d = 1..Len(d)
  BY LenProperties
<1>1. SUFFICES ASSUME NEW i \in DOMAIN d, NEW j \in DOMAIN d,
                      i < j, d[i].op \in Terminators
               PROVE  b = Entry /\ d[j].op \in {"store", "call", "return"}
  BY DEF Orderly
<1>2. CASE j \in 1..Len(c)
  <2>1. i \in DOMAIN c /\ j \in DOMAIN c
    BY <1>0, <1>1, <1>2
  <2>2. d[i] = c[i] /\ d[j] = c[j]
    BY <1>0, <2>1 DEF Grown
  <2>3. QED BY <1>1, <2>1, <2>2 DEF Orderly
<1>3. CASE j = Len(c) + 1 /\ Len(d) = Len(c) + 1 /\ Permitted(b, c, d[Len(c) + 1], J)
  <2>1. i \in DOMAIN c /\ c[i].op \in Terminators
    BY <1>0, <1>1, <1>3 DEF Grown
  <2>2. ~Unended(c)
    BY <2>1 DEF Unended
  <2>3. ~(b # Entry /\ c[Len(c)].op \notin Terminators)
    <3>1. CASE i = Len(c)
      BY <2>1, <3>1
    <3>2. CASE i < Len(c)
      BY <1>0, <2>1, <3>2 DEF Orderly
    <3>3. QED BY <1>0, <2>1, <3>1, <3>2
  <2>4. QED BY <1>3, <2>2, <2>3 DEF Permitted
<1>4. CASE /\ Len(d) = Len(c) + 2 /\ Unended(c) /\ j \notin 1..Len(c)
           /\ d[Len(c) + 1].op = "selectionMerge"
  <2>1. i \in DOMAIN c \/ i = Len(c) + 1
    BY <1>0, <1>1, <1>4
  <2>2. d[i].op \notin Terminators
    BY <1>0, <1>4, <2>1 DEF Grown, Unended, Terminators, Exits
  <2>3. QED BY <1>1, <2>2
<1>5. CASE j \notin 1..Len(c)
  <2>1. Len(d) # Len(c)
    BY <1>0, <1>5
  <2>2. CASE Len(d) = Len(c) + 1 /\ Permitted(b, c, d[Len(c) + 1], J)
    <3>1. j = Len(c) + 1
      BY <1>0, <1>5, <2>2
    <3>2. QED BY <1>3, <2>2, <3>1
  <2>3. QED BY <1>4, <1>5, <2>1, <2>2 DEF Grown
<1>6. QED BY <1>2, <1>5

\* Growth keeps the content of a block in order, as Ifs are added.
LEMMA GrowthContent ==
  ASSUME NEW c \in Seq(Insts), NEW d \in Seq(Insts), NEW b, NEW I, NEW J,
         Longer(I, J), Content(b, c, I), Grown(b, c, d, J)
  PROVE  Content(b, d, J)
<1>0. /\ Len(c) \in Nat /\ DOMAIN c = 1..Len(c)
      /\ Len(d) \in Nat /\ DOMAIN d = 1..Len(d)
      /\ Len(c) <= Len(d) /\ \A i \in 1..Len(c) : d[i] = c[i]
  BY LenProperties DEF Grown
<1>1. Orderly(b, d)
  BY GrowthOrderly DEF Content
<1>2. ASSUME NEW i \in DOMAIN d
      PROVE  Joins(b, d[i], J)
  <2>1. CASE i \in 1..Len(c)
    <3>1. d[i] = c[i] /\ Joins(b, c[i], I)
      BY <1>0, <2>1 DEF Content
    <3>2. QED BY <3>1 DEF Joins, Longer
  <2>2. CASE i \notin 1..Len(c)
    <3>1. CASE Len(d) = Len(c) + 1 /\ Permitted(b, c, d[Len(c) + 1], J)
      <4>1. i = Len(c) + 1
        BY <1>0, <1>2, <2>2, <3>1
      <4>2. QED BY <3>1, <4>1 DEF Permitted
    <3>2. CASE /\ Len(d) = Len(c) + 2
               /\ d[Len(c) + 1].op = "selectionMerge" /\ d[Len(c) + 2].op = "branchConditional"
      <4>1. i = Len(c) + 1 \/ i = Len(c) + 2
        BY <1>0, <1>2, <2>2, <3>2
      <4>2. QED BY <3>2, <4>1 DEF Joins
    <3>3. QED BY <1>0, <1>2, <2>2, <3>1, <3>2 DEF Grown
  <2>3. QED BY <2>1, <2>2
<1>3. QED BY <1>1, <1>2 DEF Content

-----------------------------------------------------------------------------
\* One more instruction is growth.
LEMMA AppendGrows ==
  ASSUME NEW c \in Seq(Insts), NEW x \in Insts, NEW b, NEW I, Permitted(b, c, x, I)
  PROVE  Append(c, x) \in Seq(Insts) /\ Grown(b, c, Append(c, x), I)
<1>1. Len(c) \in Nat /\ DOMAIN c = 1..Len(c)
  BY LenProperties
<1>2. /\ Append(c, x) \in Seq(Insts) /\ Len(Append(c, x)) = Len(c) + 1
      /\ \A i \in 1..Len(c) : Append(c, x)[i] = c[i]
      /\ Append(c, x)[Len(c) + 1] = x
  BY <1>1, AppendProperties
<1>3. QED BY <1>1, <1>2 DEF Grown

LEMMA AppendPlain ==
  ASSUME NEW c \in Seq(Insts), NEW x \in Insts, x.var = NoVariable
  PROVE  Plain(c, Append(c, x))
<1>1. Len(c) \in Nat /\ DOMAIN c = 1..Len(c)
  BY LenProperties
<1>2. /\ DOMAIN Append(c, x) = 1..(Len(c) + 1)
      /\ Append(c, x)[Len(c) + 1] = x
  BY <1>1, AppendProperties, LenProperties
<1>3. QED BY <1>1, <1>2 DEF Plain

\* Nothing more is growth.
LEMMA SameGrows ==
  ASSUME NEW c \in Seq(Insts), NEW b, NEW I
  PROVE  Grown(b, c, c, I)
  BY LenProperties DEF Grown

LEMMA InstType ==
  ASSUME NEW op \in Ops, NEW to \in Seq(1..MaxBlocks)
  PROVE  /\ Inst(op, to) \in Insts
         /\ Inst(op, to).op = op /\ Inst(op, to).to = to /\ Inst(op, to).var = NoVariable
  BY DEF Inst, Insts, Values, NoVariable

\* What If appends is growth, and names what it declares and branches to.
HeaderAdded(c, d, t, m) ==
    /\ d \in Seq(Insts) /\ (\A b, I : Grown(b, c, d, I)) /\ Len(d) = Len(c) + 2
    /\ d[Len(c) + 1].to = <<m>> /\ d[Len(c) + 2].to[1] = t
    /\ Plain(c, d)

LEMMA HeaderGrows ==
  ASSUME NEW c \in Seq(Insts), Unended(c),
         NEW t \in 1..MaxBlocks, NEW f \in (1..MaxBlocks) \cup {NoBlock}, NEW m \in 1..MaxBlocks
  PROVE  HeaderAdded(c, c \o Header(t, f, m), t, m)
<1> SUFFICES ASSUME NEW d, d = c \o Header(t, f, m)
             PROVE  HeaderAdded(c, d, t, m)
  OBVIOUS
<1> DEFINE g == IF f = NoBlock THEN m ELSE f
           h == Header(t, f, m)
           x == Inst("selectionMerge", <<m>>)
           y == Inst("branchConditional", <<t, g>>)
<1>1. x \in Insts /\ y \in Insts
  <2>1. g \in 1..MaxBlocks
    OBVIOUS
  <2>2. <<m>> \in Seq(1..MaxBlocks) /\ <<t, g>> \in Seq(1..MaxBlocks)
    BY <2>1
  <2>4. "selectionMerge" \in Ops /\ "branchConditional" \in Ops
    BY DEF Ops, Terminators
  <2>5. QED BY <2>2, <2>4, InstType
<1>2. h = <<x, y>>
  BY DEF Header
<1>3. h \in Seq(Insts) /\ Len(h) = 2 /\ h[1] = x /\ h[2] = y
  BY <1>1, <1>2
<1> HIDE DEF x, y, h
<1>4. Len(c) \in Nat /\ DOMAIN c = 1..Len(c)
  BY LenProperties
<1>5. /\ d \in Seq(Insts) /\ Len(d) = Len(c) + 2
      /\ \A i \in 1..(Len(c) + 2) : d[i] = IF i <= Len(c) THEN c[i] ELSE h[i - Len(c)]
  <2>1. /\ d \in Seq(Insts) /\ Len(d) = Len(c) + Len(h)
        /\ \A i \in 1..(Len(c) + Len(h)) : d[i] = IF i <= Len(c) THEN c[i] ELSE h[i - Len(c)]
    <3>1. d = c \o h
      BY DEF h
    <3>2. /\ c \o h \in Seq(Insts) /\ Len(c \o h) = Len(c) + Len(h)
          /\ \A i \in 1..(Len(c) + Len(h)) :
               (c \o h)[i] = IF i <= Len(c) THEN c[i] ELSE h[i - Len(c)]
      BY <1>3, ConcatProperties, Zenon
    <3>3. QED BY <3>1, <3>2, Zenon
  <2>2. QED BY <1>3, <2>1, Zenon
<1>6. \A i \in 1..Len(c) : d[i] = c[i]
  BY <1>4, <1>5
<1>7. d[Len(c) + 1] = x /\ d[Len(c) + 2] = y
  <2>1. Len(c) + 1 - Len(c) = 1 /\ Len(c) + 2 - Len(c) = 2
    BY <1>4
  <2>2. QED BY <1>3, <1>4, <1>5, <2>1
<1>8. /\ x.op = "selectionMerge" /\ x.to = <<m>> /\ x.var = NoVariable
      /\ y.op = "branchConditional" /\ y.to[1] = t /\ y.var = NoVariable
  BY DEF x, y, Inst
<1>9. \A b, I : Grown(b, c, d, I)
  BY <1>4, <1>5, <1>6, <1>7, <1>8 DEF Grown
<1>10. Plain(c, d)
  <2>1. ASSUME NEW i \in DOMAIN d, i \notin DOMAIN c
        PROVE  i = Len(c) + 1 \/ i = Len(c) + 2
    BY <1>4, <1>5, <2>1, LenProperties
  <2>2. QED BY <1>7, <1>8, <2>1 DEF Plain
<1>11. QED BY <1>5, <1>7, <1>8, <1>9, <1>10 DEF HeaderAdded

\* An arm is left alone or joined to the merge block of the If it is an arm of.
ArmJoined(b, c, d, I) == d \in Seq(Insts) /\ Grown(b, c, d, I) /\ Plain(c, d)

LEMMA JoinGrows ==
  ASSUME NEW c \in Seq(Insts), NEW b, b # Entry, NEW I, NEW m \in 1..MaxBlocks,
         \E i \in DOMAIN I : b \in {I[i].true, I[i].false} /\ I[i].merge = m
  PROVE  ArmJoined(b, c, JoinArm(c, m), I)
<1> SUFFICES ASSUME NEW d, d = JoinArm(c, m)
             PROVE  d \in Seq(Insts) /\ Grown(b, c, d, I) /\ Plain(c, d)
  BY DEF ArmJoined
<1> DEFINE x == Inst("branch", <<m>>)
<1>1. x \in Insts /\ x.op = "branch" /\ x.to = <<m>> /\ x.var = NoVariable
  <2>1. <<m>> \in Seq(1..MaxBlocks)
    OBVIOUS
  <2>2. "branch" \in Ops
    BY DEF Ops, Terminators
  <2>3. QED BY <2>1, <2>2, InstType
<1>2. CASE c # <<>> /\ c[Len(c)].op \notin Terminators
  <2>1. d = Append(c, x)
    BY <1>2 DEF JoinArm
  <2> HIDE DEF x
  <2>2. Permitted(b, c, x, I)
    BY <1>1, <1>2 DEF Permitted, Joins
  <2>3. d \in Seq(Insts) /\ Grown(b, c, d, I)
    BY <1>1, <2>1, <2>2, AppendGrows
  <2>4. Plain(c, d)
    BY <1>1, <2>1, AppendPlain
  <2>5. QED BY <2>3, <2>4
<1>3. CASE ~(c # <<>> /\ c[Len(c)].op \notin Terminators)
  BY <1>3, SameGrows DEF JoinArm, Plain
<1>4. QED BY <1>2, <1>3

-----------------------------------------------------------------------------
\* What a step does to the function: its blocks stay or are added to, and the Ifs.
Step ==
    /\ blocks' \in Seq(Seq(Insts)) /\ Len(blocks') \in 1..MaxBlocks
    /\ Blocks \subseteq DOMAIN blocks'
    /\ \A b \in DOMAIN blocks' : Grown(b, Old(b), blocks'[b], ifs')
    /\ Longer(ifs, ifs')

LEMMA Typed ==
  ASSUME TypeOK
  PROVE  /\ Len(blocks) \in 1..MaxBlocks /\ Blocks = 1..Len(blocks)
         /\ Blocks \subseteq 1..MaxBlocks /\ Entry \in Blocks
         /\ \A b \in Blocks : blocks[b] \in Seq(Insts) /\ Old(b) = blocks[b]
         /\ \A b : Old(b) \in Seq(Insts)
         /\ Longer(ifs, ifs) /\ MaxBlocks \in Nat
<1>1. /\ blocks \in Seq(Seq(Insts)) /\ Len(blocks) \in 1..MaxBlocks
      /\ MaxBlocks \in Nat
  BY BlocksAssumption DEF TypeOK
<1>2. Blocks = 1..Len(blocks) /\ \A b \in Blocks : blocks[b] \in Seq(Insts)
  BY <1>1, LenProperties, ElementOfSeq DEF Blocks
<1>3. \A b : Old(b) \in Seq(Insts)
  BY <1>2, EmptySeq DEF Old
<1>4. QED BY <1>1, <1>2, <1>3 DEF Old, Entry, Longer

\* The blocks of an If are blocks of the function.
LEMMA IfBlocks ==
  ASSUME TypeOK, NEW i \in DOMAIN ifs
  PROVE  ifs[i].header \in Blocks
<1> DEFINE R == [header : Blocks, true : Blocks, false : Blocks \cup {NoBlock}, merge : Blocks]
<1>1. ifs \in Seq(R)
  BY DEF TypeOK
<1> HIDE DEF R
<1>2. ifs[i] \in R
  BY <1>1, LenProperties, ElementOfSeq
<1>3. QED BY <1>2 DEF R

VariableRecords == [type : ScalarTypes \cup FloatVectors, value : Values]

\* A step adds a call, or none, and Ifs between blocks of the function.
LEMMA StepType ==
  ASSUME TypeOK, Step, calls' \in 0..MaxCalls, variables' \in Seq(VariableRecords),
         ifs' \in Seq([header : Blocks', true : Blocks', false : Blocks' \cup {NoBlock},
                       merge : Blocks'])
  PROVE  TypeOK'
  BY DEF Step, TypeOK, VariableRecords

\* What AddVariable's stores say of the variables, one store at a time.
SetsVariable(b, inst, V) ==
    inst.var # NoVariable =>
        /\ b = Entry /\ inst.var \in DOMAIN V
        /\ inst.value # Null /\ inst.value = V[inst.var].value
        /\ \/ inst.value = V[inst.var].type
           \/ /\ inst.value \in IntVectors /\ V[inst.var].type \in FloatVectors
              /\ Components(inst.value) = Components(V[inst.var].type)

\* Variables are declared and kept.
Declares(V, W) == DOMAIN V \subseteq DOMAIN W /\ \A n \in DOMAIN V : W[n] = V[n]

\* A step that adds no store of AddVariable, and no variable with a value.
LEMMA SetsKept ==
  ASSUME Inv, Step, \A b \in DOMAIN blocks' : Plain(Old(b), blocks'[b]),
         Declares(variables, variables'),
         \A n \in DOMAIN variables' \ DOMAIN variables : variables'[n].value = Null
  PROVE  VariablesAreSet'
<1>1. /\ TypeOK /\ VariablesAreSet /\ Entry \in Blocks /\ Entry \in DOMAIN blocks'
      /\ Blocks \subseteq DOMAIN blocks' /\ Blocks' = DOMAIN blocks'
  BY Typed DEF Inv, Step, Blocks
<1>2. ASSUME NEW b \in DOMAIN blocks', NEW i \in DOMAIN Old(b)
      PROVE  /\ b \in Blocks /\ Old(b) = blocks[b] /\ i \in DOMAIN blocks[b]
             /\ i \in DOMAIN blocks'[b] /\ blocks'[b][i] = blocks[b][i]
  <2>1. b \in Blocks /\ Old(b) = blocks[b] /\ i \in DOMAIN blocks[b]
    BY <1>2 DEF Old
  <2>2. /\ blocks[b] \in Seq(Insts) /\ blocks'[b] \in Seq(Insts)
        /\ Grown(b, blocks[b], blocks'[b], ifs')
    BY <1>1, <1>2, <2>1, Typed, LenProperties, ElementOfSeq DEF Step
  <2>3. QED BY <2>1, <2>2, LenProperties DEF Grown
<1>3. ASSUME NEW b \in DOMAIN blocks', NEW i \in DOMAIN blocks'[b], blocks'[b][i].var # NoVariable
      PROVE  /\ b \in Blocks /\ i \in DOMAIN blocks[b] /\ blocks'[b][i] = blocks[b][i]
  BY <1>2, <1>3 DEF Plain
<1>4. ASSUME NEW b \in DOMAIN blocks', NEW i \in DOMAIN blocks'[b]
      PROVE  SetsVariable(b, blocks'[b][i], variables')
  <2>1. CASE blocks'[b][i].var = NoVariable
    BY <2>1 DEF SetsVariable
  <2>2. CASE blocks'[b][i].var # NoVariable
    <3>1. b \in Blocks /\ i \in DOMAIN blocks[b] /\ blocks'[b][i] = blocks[b][i]
      BY <1>3, <2>2
    <3>2. SetsVariable(b, blocks[b][i], variables)
      BY <1>1, <3>1 DEF VariablesAreSet, SetsVariable
    <3>3. QED BY <2>2, <3>1, <3>2 DEF SetsVariable, Declares
  <2>3. QED BY <2>1, <2>2
<1>5. ASSUME NEW n \in DOMAIN variables', variables'[n].value # Null
      PROVE  \E i \in DOMAIN blocks'[Entry] : blocks'[Entry][i].var = n
  <2>1. n \in DOMAIN variables /\ variables[n].value # Null
    BY <1>5 DEF Declares
  <2>2. PICK i \in DOMAIN blocks[Entry] : blocks[Entry][i].var = n
    BY <1>1, <2>1 DEF VariablesAreSet
  <2>3. i \in DOMAIN Old(Entry)
    BY <1>1 DEF Old
  <2>4. i \in DOMAIN blocks'[Entry] /\ blocks'[Entry][i] = blocks[Entry][i]
    BY <1>1, <1>2, <2>3
  <2>5. QED BY <2>2, <2>4
<1>6. ASSUME NEW i \in DOMAIN blocks'[Entry], NEW j \in DOMAIN blocks'[Entry], i < j,
             blocks'[Entry][i].var # NoVariable, blocks'[Entry][j].var # NoVariable
      PROVE  blocks'[Entry][i].var < blocks'[Entry][j].var
  <2>1. /\ i \in DOMAIN blocks[Entry] /\ blocks'[Entry][i] = blocks[Entry][i]
        /\ j \in DOMAIN blocks[Entry] /\ blocks'[Entry][j] = blocks[Entry][j]
    BY <1>1, <1>3, <1>6
  <2>2. QED BY <1>1, <1>6, <2>1 DEF VariablesAreSet
<1>7. QED BY <1>1, <1>4, <1>5, <1>6 DEF VariablesAreSet, SetsVariable, Entry

\* Content stays in order, and headers stay, when a step adds to blocks; if it adds
\* an If, that If's header must be there.
LEMMA StepInv ==
  ASSUME Inv, Step, TypeOK', VariablesAreSet',
         \A i \in DOMAIN ifs' \ DOMAIN ifs : \E k \in DOMAIN blocks'[ifs'[i].header] :
            /\ k + 1 \in DOMAIN blocks'[ifs'[i].header]
            /\ blocks'[ifs'[i].header][k].to = <<ifs'[i].merge>>
            /\ blocks'[ifs'[i].header][k + 1].to[1] = ifs'[i].true
  PROVE  Inv'
<1>0. TypeOK
  BY DEF Inv
<1>1. \A b \in DOMAIN blocks' : blocks'[b] \in Seq(Insts) /\ Old(b) \in Seq(Insts)
  BY <1>0, Typed, LenProperties, ElementOfSeq DEF Step
<1>2. ASSUME NEW b \in DOMAIN blocks'
      PROVE  Content(b, blocks'[b], ifs')
  <2>1. Content(b, Old(b), ifs)
    <3>1. CASE b \in Blocks
      BY <3>1 DEF Inv, Old
    <3>2. CASE b \notin Blocks
      BY <3>2 DEF Old, Content, Orderly
    <3>3. QED BY <3>1, <3>2
  <2>2. QED BY <1>1, <1>2, <2>1, GrowthContent DEF Step
<1>3. Headed'
  <2>1. SUFFICES ASSUME NEW i \in DOMAIN ifs
                 PROVE  \E k \in DOMAIN blocks'[ifs'[i].header] :
                          /\ k + 1 \in DOMAIN blocks'[ifs'[i].header]
                          /\ blocks'[ifs'[i].header][k].to = <<ifs'[i].merge>>
                          /\ blocks'[ifs'[i].header][k + 1].to[1] = ifs'[i].true
    BY DEF Headed
  <2>2. ifs'[i] = ifs[i] /\ ifs[i].header \in Blocks
    BY <1>0, <2>1, IfBlocks DEF Step, Longer
  <2> DEFINE c == blocks[ifs[i].header]
             d == blocks'[ifs[i].header]
  <2>3. PICK k \in DOMAIN c : /\ k + 1 \in DOMAIN c
                              /\ c[k].to = <<ifs[i].merge>> /\ c[k + 1].to[1] = ifs[i].true
    BY <2>1 DEF Inv, Headed
  <2>4. /\ c \in Seq(Insts) /\ d \in Seq(Insts) /\ Old(ifs[i].header) = c
        /\ ifs[i].header \in DOMAIN blocks'
    BY <1>0, <1>1, <2>2, Typed DEF Step
  <2>5. Grown(ifs[i].header, c, d, ifs')
    BY <2>4 DEF Step
  <2> HIDE DEF c, d
  <2>6. \A j \in DOMAIN c : j \in DOMAIN d /\ d[j] = c[j]
    BY <2>4, <2>5, LenProperties DEF Grown
  <2>7. /\ k \in DOMAIN d /\ k + 1 \in DOMAIN d
        /\ d[k].to = <<ifs[i].merge>> /\ d[k + 1].to[1] = ifs[i].true
    BY <2>3, <2>6
  <2>8. QED BY <2>2, <2>7 DEF d
<1>4. QED BY <1>2, <1>3 DEF Inv, Blocks

-----------------------------------------------------------------------------
\* An instruction is appended to block b.
LEMMA AppendStep ==
  ASSUME Inv, NEW b \in Blocks, NEW x \in Insts, AppendTo(b, x),
         Permitted(b, blocks[b], x, ifs), variables' \in Seq(VariableRecords)
  PROVE  /\ Step /\ TypeOK' /\ ifs' = ifs /\ DOMAIN blocks' = Blocks
         /\ \A j \in Blocks :
              blocks'[j] = IF j = b THEN Append(blocks[b], x) ELSE blocks[j]
<1>0. /\ calls < MaxCalls /\ calls' = calls + 1 /\ ifs' = ifs
      /\ blocks' = [blocks EXCEPT ![b] = Append(@, x)]
  BY DEF AppendTo
<1>1. TypeOK
  BY DEF Inv
<1> DEFINE d == Append(blocks[b], x)
<1>3. d \in Seq(Insts) /\ Grown(b, blocks[b], d, ifs)
  BY <1>1, Typed, AppendGrows
<1> HIDE DEF d
<1>4. blocks \in Seq(Seq(Insts)) /\ b \in 1..Len(blocks) /\ blocks' = [blocks EXCEPT ![b] = d]
  BY <1>0, <1>1, Typed DEF TypeOK, d
<1>5. /\ blocks' \in Seq(Seq(Insts)) /\ Len(blocks') = Len(blocks)
      /\ \A j \in 1..Len(blocks) : blocks'[j] = IF j = b THEN d ELSE blocks[j]
  BY <1>3, <1>4, ExceptSeq
<1>6. DOMAIN blocks' = 1..Len(blocks) /\ Blocks = 1..Len(blocks)
  BY <1>1, <1>5, Typed, LenProperties
<1>7. Step
  <2>1. ASSUME NEW j \in DOMAIN blocks'
        PROVE  Grown(j, Old(j), blocks'[j], ifs')
    <3>1. j \in Blocks /\ Old(j) = blocks[j] /\ blocks[j] \in Seq(Insts)
      BY <1>1, <1>6, Typed
    <3>2. CASE j = b
      BY <1>0, <1>3, <1>5, <1>6, <3>1, <3>2
    <3>3. CASE j # b
      BY <1>5, <1>6, <3>1, <3>3, SameGrows
    <3>4. QED BY <3>2, <3>3
  <2>2. QED BY <1>0, <1>1, <1>5, <1>6, <2>1, Typed DEF Step
<1>8. TypeOK'
  <2>1. Blocks' = Blocks
    BY <1>6 DEF Blocks
  <2>2. calls' \in 0..MaxCalls
    BY <1>0, <1>1, BlocksAssumption DEF TypeOK
  <2>3. QED BY <1>0, <1>1, <1>7, <2>1, <2>2, StepType DEF TypeOK
<1>9. QED BY <1>0, <1>5, <1>6, <1>7, <1>8 DEF d

\* Variables keep their types, and AddVariable's stores, when nothing is declared.
LEMMA VariablesTyped ==
  ASSUME TypeOK
  PROVE  /\ variables \in Seq(VariableRecords) /\ Len(variables) \in Nat
         /\ DOMAIN variables = 1..Len(variables)
         /\ UNCHANGED variables => Declares(variables, variables')
  BY LenProperties DEF TypeOK, VariableRecords, Declares

\* An instruction other than AddVariable's store is appended.
LEMMA PlainStep ==
  ASSUME Inv, NEW b \in Blocks, NEW op \in Ops, AppendTo(b, Inst(op, <<>>)),
         UNCHANGED variables, Permitted(b, blocks[b], Inst(op, <<>>), ifs)
  PROVE  Inv'
<1> DEFINE x == Inst(op, <<>>)
<1>1. x \in Insts /\ x.var = NoVariable
  BY EmptySeq, InstType
<1> HIDE DEF x
<1>2. TypeOK /\ variables' \in Seq(VariableRecords) /\ Declares(variables, variables')
  BY VariablesTyped DEF Inv
<1>3. /\ Step /\ TypeOK' /\ ifs' = ifs /\ DOMAIN blocks' = Blocks
      /\ \A j \in Blocks :
           blocks'[j] = IF j = b THEN Append(blocks[b], x) ELSE blocks[j]
  BY <1>1, <1>2, AppendStep DEF x
<1>4. ASSUME NEW j \in DOMAIN blocks'
      PROVE  Plain(Old(j), blocks'[j])
  <2>1. j \in Blocks /\ Old(j) = blocks[j] /\ blocks[j] \in Seq(Insts)
    BY <1>2, <1>3, Typed
  <2>2. CASE j = b
    BY <1>1, <1>3, <2>1, <2>2, AppendPlain
  <2>3. CASE j # b
    BY <1>3, <2>1, <2>3 DEF Plain
  <2>4. QED BY <2>2, <2>3
<1>5. VariablesAreSet'
  BY <1>2, <1>3, <1>4, SetsKept
<1>6. QED BY <1>3, <1>5, StepInv

LEMMA AddBlockStep ==
  ASSUME Inv, AddBlock
  PROVE  Inv'
<1>0. /\ Len(blocks) < MaxBlocks /\ blocks' = Append(blocks, <<>>) /\ ifs' = ifs /\ calls' = calls
      /\ UNCHANGED variables
  BY DEF AddBlock
<1>1. TypeOK /\ blocks \in Seq(Seq(Insts)) /\ <<>> \in Seq(Insts)
  BY EmptySeq DEF Inv, TypeOK
<1>2. Blocks = 1..Len(blocks) /\ Len(blocks) \in 1..MaxBlocks /\ MaxBlocks \in Nat
  BY <1>1, Typed
<1>3. /\ blocks' \in Seq(Seq(Insts)) /\ Len(blocks') = Len(blocks) + 1
      /\ \A b \in 1..Len(blocks) : blocks'[b] = blocks[b]
      /\ blocks'[Len(blocks) + 1] = <<>>
  BY <1>0, <1>1, <1>2, AppendProperties
<1>4. DOMAIN blocks' = 1..(Len(blocks) + 1)
  BY <1>3, LenProperties
<1>5. Step
  <2>1. ASSUME NEW b \in DOMAIN blocks'
        PROVE  blocks'[b] = Old(b) /\ Old(b) \in Seq(Insts)
    BY <1>1, <1>2, <1>3, <1>4, Typed DEF Old
  <2>2. ASSUME NEW b \in DOMAIN blocks'
        PROVE  Grown(b, Old(b), blocks'[b], ifs')
    BY <2>1, SameGrows
  <2>3. Len(blocks') \in 1..MaxBlocks /\ Blocks \subseteq DOMAIN blocks'
    BY <1>0, <1>2, <1>3, <1>4
  <2>4. QED BY <1>0, <1>1, <1>3, <2>2, <2>3, Typed DEF Step
<1>6. TypeOK'
  <2>1. Blocks \subseteq Blocks'
    BY <1>5 DEF Step, Blocks
  <2> DEFINE R == [header : Blocks, true : Blocks, false : Blocks \cup {NoBlock}, merge : Blocks]
  <2>2. R \subseteq R'
    BY <2>1
  <2>3. ifs \in Seq(R)
    BY <1>1 DEF TypeOK
  <2> HIDE DEF R
  <2>4. ifs' \in Seq(R')
    BY <1>0, <2>2, <2>3, SeqMonotonic
  <2>5. QED BY <1>0, <1>1, <1>5, <2>4, StepType, VariablesTyped DEF R, TypeOK
<1>7. VariablesAreSet'
  <2>1. ASSUME NEW b \in DOMAIN blocks'
        PROVE  Plain(Old(b), blocks'[b])
    <3>1. CASE b \in Blocks
      <4>1. blocks'[b] = blocks[b] /\ Old(b) = blocks[b]
        BY <1>1, <1>2, <1>3, <3>1, Typed
      <4>2. QED BY <4>1 DEF Plain
    <3>2. CASE b \notin Blocks
      <4>1. b = Len(blocks) + 1
        BY <1>2, <1>4, <3>2
      <4>2. blocks'[b] = <<>>
        BY <1>3, <4>1
      <4>3. QED BY <4>2 DEF Plain
    <3>3. QED BY <3>1, <3>2
  <2>2. QED BY <1>0, <1>1, <1>5, <2>1, SetsKept, VariablesTyped
<1>8. QED BY <1>0, <1>5, <1>6, <1>7, StepInv

\* A function on 1..n is a sequence.
LEMMA FunctionIsSeq ==
  ASSUME NEW S, NEW n \in Nat, NEW g \in [1..n -> S]
  PROVE  g \in Seq(S) /\ Len(g) = n
  OBVIOUS

\* If adds a header to bb, joins its arms, and is the last of the Ifs.  before has
\* the blocks of the function, with one more when If makes the merge block.
LEMMA BranchStep ==
  ASSUME Inv, NEW n \in 1..MaxBlocks, Blocks \subseteq 1..n,
         NEW before, DOMAIN before = 1..n, \A b \in 1..n : before[b] = Old(b),
         NEW bb \in OpenBlocks, NEW t \in FreshBlocks, NEW f \in FreshBlocks \cup {NoBlock},
         NEW m \in 1..n, m \notin {bb, t, f}, bb # t, bb # f, t # f,
         Branch(before, bb, t, f, m),
         ifs' = Append(ifs, [header |-> bb, true |-> t, false |-> f, merge |-> m]),
         UNCHANGED <<variables, calls>>
  PROVE  Inv'
<1> DEFINE new == [header |-> bb, true |-> t, false |-> f, merge |-> m]
           d(b) == Rewired(b, before[b], bb, t, f, m)
           R == [header : Blocks, true : Blocks, false : Blocks \cup {NoBlock}, merge : Blocks]
           S == [header : 1..n, true : 1..n, false : (1..n) \cup {NoBlock}, merge : 1..n]
<1>0. TypeOK /\ n \in Nat
  BY BlocksAssumption DEF Inv
<1>1. /\ bb \in Blocks /\ Unended(blocks[bb]) /\ bb \in 1..n
      /\ t \in Blocks /\ t # Entry /\ t \in 1..n
      /\ f \in (1..n) \cup {NoBlock} /\ f # Entry
  BY DEF OpenBlocks, FreshBlocks, Unended, Entry, NoBlock
<1>2. /\ t \in 1..MaxBlocks /\ f \in (1..MaxBlocks) \cup {NoBlock} /\ m \in 1..MaxBlocks
      /\ MaxBlocks \in Nat
  BY <1>1, BlocksAssumption
<1>3. new \in S
  BY <1>1
<1>4. /\ ifs' \in Seq(S) /\ Len(ifs') = Len(ifs) + 1 /\ Len(ifs) \in Nat
      /\ \A i \in 1..Len(ifs) : ifs'[i] = ifs[i]
      /\ ifs'[Len(ifs) + 1] = new /\ DOMAIN ifs = 1..Len(ifs)
  <2>1. R \subseteq S
    OBVIOUS
  <2>2. ifs \in Seq(R)
    BY <1>0 DEF TypeOK
  <2>3. ifs' = Append(ifs, new)
    OBVIOUS
  <2> HIDE DEF R, S, new
  <2>4. ifs \in Seq(S)
    BY <2>1, <2>2, SeqMonotonic
  <2>5. QED BY <1>3, <2>3, <2>4, AppendProperties, LenProperties
<1> HIDE DEF S
<1>5. DOMAIN ifs' = 1..(Len(ifs) + 1)
  BY <1>4, LenProperties
<1>6. Longer(ifs, ifs')
  BY <1>4, <1>5 DEF Longer
<1>7. ASSUME NEW b \in 1..n
      PROVE  d(b) \in Seq(Insts) /\ Grown(b, Old(b), d(b), ifs') /\ Plain(Old(b), d(b))
  <2>1. before[b] = Old(b) /\ Old(b) \in Seq(Insts)
    BY <1>0, <1>7, Typed
  <2>2. CASE b = bb
    <3>1. d(b) = Old(b) \o Header(t, f, m) /\ Unended(Old(b))
      BY <1>0, <1>1, <2>1, <2>2, Typed DEF Rewired
    <3>2. HeaderAdded(Old(b), Old(b) \o Header(t, f, m), t, m)
      BY <1>2, <2>1, <3>1, HeaderGrows
    <3> HIDE DEF d
    <3>3. QED BY <3>1, <3>2 DEF HeaderAdded
  <2>3. CASE b # bb /\ b \in {t, f}
    <3>1. d(b) = JoinArm(Old(b), m) /\ b # Entry
      BY <1>1, <2>1, <2>3 DEF Rewired
    <3>2. \E i \in DOMAIN ifs' : b \in {ifs'[i].true, ifs'[i].false} /\ ifs'[i].merge = m
      <4>1. /\ Len(ifs) + 1 \in DOMAIN ifs' /\ new.merge = m
            /\ b \in {new.true, new.false} /\ ifs'[Len(ifs) + 1] = new
        BY <1>4, <1>5, <2>3
      <4>2. QED BY <4>1
    <3>3. ArmJoined(b, Old(b), JoinArm(Old(b), m), ifs')
      BY <1>2, <2>1, <3>1, <3>2, JoinGrows
    <3> HIDE DEF d
    <3>4. QED BY <3>1, <3>3 DEF ArmJoined
  <2>4. CASE b # bb /\ b \notin {t, f}
    <3>1. d(b) = Old(b)
      BY <2>1, <2>4 DEF Rewired
    <3>2. QED BY <2>1, <3>1, SameGrows DEF Plain
  <2>5. QED BY <2>2, <2>3, <2>4
<1>8. blocks' = [b \in 1..n |-> d(b)]
  BY DEF Branch
<1> HIDE DEF d
<1>9. blocks' \in Seq(Seq(Insts)) /\ Len(blocks') = n /\ DOMAIN blocks' = 1..n
  <2>1. blocks' \in [1..n -> Seq(Insts)]
    BY <1>7, <1>8
  <2>2. QED BY <1>0, <1>8, <2>1, FunctionIsSeq
<1>10. Step
  BY <1>6, <1>7, <1>8, <1>9 DEF Step
<1>11. TypeOK'
  <2>1. Blocks' = 1..n
    BY <1>9 DEF Blocks
  <2>2. calls' \in 0..MaxCalls
    BY <1>0 DEF TypeOK
  <2>3. QED BY <1>0, <1>4, <1>10, <2>1, <2>2, StepType, VariablesTyped DEF S
<1>12. /\ Len(blocks[bb]) + 1 \in DOMAIN blocks'[bb] /\ Len(blocks[bb]) + 2 \in DOMAIN blocks'[bb]
       /\ blocks'[bb][Len(blocks[bb]) + 1].to = <<m>>
       /\ blocks'[bb][Len(blocks[bb]) + 2].to[1] = t
       /\ Len(blocks[bb]) + 1 + 1 = Len(blocks[bb]) + 2
  <2>1. blocks'[bb] = blocks[bb] \o Header(t, f, m) /\ blocks[bb] \in Seq(Insts)
    BY <1>0, <1>1, <1>8, Typed DEF d, Rewired
  <2>2. /\ blocks'[bb] \in Seq(Insts) /\ Len(blocks'[bb]) = Len(blocks[bb]) + 2
        /\ blocks'[bb][Len(blocks[bb]) + 1].to = <<m>>
        /\ blocks'[bb][Len(blocks[bb]) + 2].to[1] = t
    <3>1. HeaderAdded(blocks[bb], blocks[bb] \o Header(t, f, m), t, m)
      BY <1>1, <1>2, <2>1, HeaderGrows
    <3>2. QED BY <2>1, <3>1 DEF HeaderAdded
  <2>3. Len(blocks[bb]) \in Nat /\ DOMAIN blocks'[bb] = 1..(Len(blocks[bb]) + 2)
    BY <2>1, <2>2, LenProperties
  <2>4. QED BY <2>2, <2>3
<1>13. ASSUME NEW i \in DOMAIN ifs' \ DOMAIN ifs
       PROVE  ifs'[i].header = bb /\ ifs'[i].merge = m /\ ifs'[i].true = t
  BY <1>4, <1>5, <1>13
<1>14. ASSUME NEW i \in DOMAIN ifs' \ DOMAIN ifs
       PROVE  \E k \in DOMAIN blocks'[ifs'[i].header] :
                /\ k + 1 \in DOMAIN blocks'[ifs'[i].header]
                /\ blocks'[ifs'[i].header][k].to = <<ifs'[i].merge>>
                /\ blocks'[ifs'[i].header][k + 1].to[1] = ifs'[i].true
  <2> DEFINE k == Len(blocks[bb]) + 1
  <2>1. /\ k \in DOMAIN blocks'[bb] /\ k + 1 \in DOMAIN blocks'[bb]
        /\ blocks'[bb][k].to = <<m>> /\ blocks'[bb][k + 1].to[1] = t
    BY <1>12
  <2> HIDE DEF k
  <2>2. QED BY <1>13, <1>14, <2>1
<1>15. VariablesAreSet'
  <2>1. ASSUME NEW b \in DOMAIN blocks'
        PROVE  Plain(Old(b), blocks'[b])
    BY <1>7, <1>8, <1>9
  <2>2. QED BY <1>0, <1>10, <2>1, SetsKept, VariablesTyped
<1>16. QED BY <1>10, <1>11, <1>14, <1>15, StepInv

-----------------------------------------------------------------------------
\* The operations, with what permits them.
LEMMA EmitStep ==
  ASSUME Inv, NEW b \in Blocks, NEW args, NEW op \in Ops, Emit(b, op, args), Unended(blocks[b]),
         op \notin Terminators \cup {"selectionMerge"}
  PROVE  Inv'
<1>1. Inst(op, <<>>).op = op
  BY DEF Inst
<1>2. Permitted(b, blocks[b], Inst(op, <<>>), ifs)
  BY <1>1 DEF Permitted, Joins, Terminators
<1>3. AppendTo(b, Inst(op, <<>>)) /\ UNCHANGED variables
  BY DEF Emit
<1>4. QED BY <1>2, <1>3, PlainStep

LEMMA FuncCallStep ==
  ASSUME Inv, NEW count, NEW nulls, FuncCall(count, nulls)
  PROVE  Inv'
<1>1. Entry \in Blocks /\ "call" \in Ops
  BY Typed DEF Inv, Ops
<1>2. Permitted(Entry, blocks[Entry], Inst("call", <<>>), ifs)
  BY DEF Permitted, Inst, Joins
<1>3. AppendTo(Entry, Inst("call", <<>>)) /\ UNCHANGED variables
  BY DEF FuncCall
<1>4. QED BY <1>1, <1>2, <1>3, PlainStep

LEMMA VariableFloatStep ==
  ASSUME Inv, NEW components \in 1..4, VariableFloat(components)
  PROVE  Inv'
<1> DEFINE x == [type |-> FloatType(components), value |-> Null]
<1>0. /\ TypeOK /\ calls < MaxCalls /\ calls' = calls + 1 /\ ifs' = ifs /\ blocks' = blocks
      /\ variables' = Append(variables, x)
  BY DEF Inv, VariableFloat
<1>1. x \in VariableRecords /\ x.value = Null
  <2>1. FloatType(components) \in ScalarTypes \cup FloatVectors
    BY DEF FloatType, ScalarTypes, FloatVectors
  <2>2. QED BY <2>1 DEF VariableRecords, Values
<1> HIDE DEF x
<1>2. /\ variables' \in Seq(VariableRecords) /\ Declares(variables, variables')
      /\ \A n \in DOMAIN variables' \ DOMAIN variables : variables'[n].value = Null
  <2>1. /\ variables \in Seq(VariableRecords) /\ Len(variables) \in Nat
        /\ DOMAIN variables = 1..Len(variables)
    BY <1>0, VariablesTyped
  <2>2. /\ variables' \in Seq(VariableRecords) /\ Len(variables') = Len(variables) + 1
        /\ \A i \in 1..Len(variables) : variables'[i] = variables[i]
        /\ variables'[Len(variables) + 1] = x
    BY <1>0, <1>1, <2>1, AppendProperties
  <2>3. DOMAIN variables' = 1..(Len(variables) + 1)
    BY <2>2, LenProperties
  <2>4. QED BY <1>1, <2>1, <2>2, <2>3 DEF Declares
<1>3. Step
  <2>1. \A b \in Blocks : Old(b) = blocks[b] /\ blocks[b] \in Seq(Insts)
    BY <1>0, Typed
  <2>2. \A b \in DOMAIN blocks' : Grown(b, Old(b), blocks'[b], ifs')
    BY <1>0, <2>1, SameGrows DEF Blocks
  <2>3. blocks \in Seq(Seq(Insts)) /\ Len(blocks) \in 1..MaxBlocks /\ Longer(ifs, ifs)
    BY <1>0, Typed DEF TypeOK
  <2>4. QED BY <1>0, <2>2, <2>3 DEF Step, Blocks
<1>4. TypeOK'
  <2>1. Blocks' = Blocks /\ calls' \in 0..MaxCalls
    BY <1>0, BlocksAssumption DEF Blocks, TypeOK
  <2>2. QED BY <1>0, <1>2, <1>3, <2>1, StepType DEF TypeOK
<1>5. \A b \in DOMAIN blocks' : Plain(Old(b), blocks'[b])
  BY <1>0 DEF Old, Plain, Blocks
<1>6. VariablesAreSet'
  BY <1>2, <1>3, <1>5, SetsKept
<1>7. QED BY <1>0, <1>3, <1>4, <1>6, StepInv

\* The variable that AddVariable makes for a value can hold it, or is a vector of floats
\* for a vector of integers.
LEMMA VariableTypes ==
  ASSUME NEW v \in Values, v # Null, VariableType(v) # Null
  PROVE  /\ VariableType(v) \in ScalarTypes \cup FloatVectors
         /\ \/ v = VariableType(v)
            \/ /\ v \in IntVectors /\ VariableType(v) \in FloatVectors
               /\ Components(v) = Components(VariableType(v))
<1>1. v \in VectorTypes \/ v \in ScalarTypes
  BY DEF VariableType
<1>2. CASE v \in VectorTypes
  <2>1. v \in {"vec2", "vec3", "vec4", "ivec2", "ivec3", "ivec4"}
    BY <1>2 DEF VectorTypes, FloatVectors, IntVectors
  <2>2. VariableType(v) = FloatType(Components(v))
    BY <1>2 DEF VariableType
  <2>3. CASE v \in {"vec2", "ivec2"}
    <3>1. Components(v) = 2 /\ VariableType(v) = "vec2" /\ Components("vec2") = 2
      BY <2>2, <2>3 DEF Components, FloatType
    <3>2. QED BY <2>3, <3>1 DEF FloatVectors, IntVectors
  <2>4. CASE v \in {"vec3", "ivec3"}
    <3>1. Components(v) = 3 /\ VariableType(v) = "vec3" /\ Components("vec3") = 3
      BY <2>2, <2>4 DEF Components, FloatType
    <3>2. QED BY <2>4, <3>1 DEF FloatVectors, IntVectors
  <2>5. CASE v \in {"vec4", "ivec4"}
    <3>1. Components(v) = 4 /\ VariableType(v) = "vec4" /\ Components("vec4") = 4
      BY <2>2, <2>5 DEF Components, FloatType
    <3>2. QED BY <2>5, <3>1 DEF FloatVectors, IntVectors
  <2>6. QED BY <2>1, <2>3, <2>4, <2>5
<1>3. CASE v \in ScalarTypes
  <2>1. VariableType(v) = v
    BY <1>3 DEF VariableType, ScalarTypes, VectorTypes, FloatVectors, IntVectors
  <2>2. QED BY <1>3, <2>1
<1>4. QED BY <1>1, <1>2, <1>3

\* The store that AddVariable appends to FunctionEntry is the last one, and sets the
\* last variable.
LEMMA AddVariableStep ==
  ASSUME Inv, NEW v \in Values, AddVariable(v)
  PROVE  Inv'
<1> DEFINE n == Len(variables) + 1
           x == Set(n, v)
           y == [type |-> VariableType(v), value |-> v]
           c == blocks[Entry]
<1>0. /\ TypeOK /\ VariablesAreSet /\ AppendTo(Entry, x) /\ variables' = Append(variables, y)
      /\ v # Null /\ VariableType(v) # Null
  BY DEF Inv, AddVariable
<1>1. /\ variables \in Seq(VariableRecords) /\ Len(variables) \in Nat
      /\ DOMAIN variables = 1..Len(variables)
  BY <1>0, VariablesTyped
<1>2. /\ x \in Insts /\ x.op = "store" /\ x.var = n /\ x.value = v
      /\ n \in Nat /\ n # NoVariable /\ n \notin DOMAIN variables
  <2>1. <<>> \in Seq(1..MaxBlocks) /\ "store" \in Ops
    BY EmptySeq DEF Ops
  <2>2. n \in Nat /\ n # 0
    BY <1>1
  <2>3. QED BY <1>1, <2>1, <2>2 DEF Set, Insts, NoVariable
<1>3. y \in VariableRecords /\ y.type = VariableType(v) /\ y.value = v
  BY <1>0, VariableTypes DEF VariableRecords
<1> HIDE DEF x, y
<1>4. /\ variables' \in Seq(VariableRecords) /\ DOMAIN variables' = 1..n
      /\ \A i \in DOMAIN variables : i \in DOMAIN variables' /\ variables'[i] = variables[i]
      /\ variables'[n] = y /\ n \in DOMAIN variables'
  <2>1. /\ variables' \in Seq(VariableRecords) /\ Len(variables') = Len(variables) + 1
        /\ \A i \in 1..Len(variables) : variables'[i] = variables[i]
        /\ variables'[Len(variables) + 1] = y
    BY <1>0, <1>1, <1>3, AppendProperties
  <2>2. QED BY <1>1, <2>1, LenProperties
<1>5. Entry \in Blocks /\ c \in Seq(Insts) /\ Len(c) \in Nat /\ DOMAIN c = 1..Len(c)
  BY <1>0, Typed, LenProperties
<1>6. /\ Step /\ TypeOK' /\ ifs' = ifs /\ DOMAIN blocks' = Blocks
      /\ \A j \in Blocks :
           blocks'[j] = IF j = Entry THEN Append(blocks[Entry], x) ELSE blocks[j]
  <2>1. Permitted(Entry, blocks[Entry], x, ifs)
    BY <1>2 DEF Permitted, Joins
  <2>2. QED BY <1>0, <1>2, <1>4, <1>5, <2>1, AppendStep
<1>7. /\ DOMAIN blocks'[Entry] = 1..(Len(c) + 1) /\ blocks'[Entry][Len(c) + 1] = x
      /\ \A i \in DOMAIN c : i \in DOMAIN blocks'[Entry] /\ blocks'[Entry][i] = c[i]
  <2> DEFINE d == Append(c, x)
  <2>1. /\ Len(d) = Len(c) + 1 /\ d \in Seq(Insts) /\ d[Len(c) + 1] = x
        /\ \A i \in 1..Len(c) : d[i] = c[i]
    BY <1>2, <1>5, AppendProperties
  <2>2. blocks'[Entry] = d
    BY <1>5, <1>6
  <2> HIDE DEF d
  <2>3. DOMAIN d = 1..(Len(c) + 1)
    BY <2>1, LenProperties
  <2>4. QED BY <1>5, <2>1, <2>2, <2>3
<1>8. \A i \in DOMAIN c : c[i].var # NoVariable => c[i].var \in 1..Len(variables)
  BY <1>0, <1>1, <1>5 DEF VariablesAreSet
<1> HIDE DEF n, c
<1>9. ASSUME NEW b \in DOMAIN blocks', NEW i \in DOMAIN blocks'[b]
      PROVE  SetsVariable(b, blocks'[b][i], variables')
  <2>1. CASE b = Entry /\ i = Len(c) + 1
    <3>1. blocks'[b][i] = x
      BY <1>7, <2>1
    <3>2. \/ v = VariableType(v)
          \/ /\ v \in IntVectors /\ VariableType(v) \in FloatVectors
             /\ Components(v) = Components(VariableType(v))
      BY <1>0, VariableTypes
    <3>3. QED BY <1>0, <1>2, <1>3, <1>4, <2>1, <3>1, <3>2 DEF SetsVariable
  <2>2. CASE ~(b = Entry /\ i = Len(c) + 1)
    <3>1. b \in Blocks /\ i \in DOMAIN blocks[b] /\ blocks'[b][i] = blocks[b][i]
      <4>1. CASE b = Entry
        BY <1>5, <1>6, <1>7, <2>2, <4>1 DEF c
      <4>2. CASE b # Entry
        BY <1>6, <4>2
      <4>3. QED BY <4>1, <4>2
    <3>2. SetsVariable(b, blocks[b][i], variables)
      BY <1>0, <3>1 DEF VariablesAreSet, SetsVariable
    <3>3. QED BY <1>4, <3>1, <3>2 DEF SetsVariable
  <2>3. QED BY <2>1, <2>2
<1>10. ASSUME NEW k \in DOMAIN variables', variables'[k].value # Null
       PROVE  \E i \in DOMAIN blocks'[Entry] : blocks'[Entry][i].var = k
  <2>1. CASE k = n
    <3>1. Len(c) + 1 \in DOMAIN blocks'[Entry]
      BY <1>5, <1>7
    <3>2. QED BY <1>2, <1>7, <2>1, <3>1
  <2>2. CASE k # n
    <3>1. k \in DOMAIN variables /\ variables[k].value # Null
      BY <1>1, <1>4, <1>10, <2>2 DEF n
    <3>2. PICK i \in DOMAIN c : c[i].var = k
      BY <1>0, <3>1 DEF VariablesAreSet, c
    <3>3. QED BY <1>7, <3>2
  <2>3. QED BY <2>1, <2>2
<1>11. ASSUME NEW i \in DOMAIN blocks'[Entry], NEW j \in DOMAIN blocks'[Entry], i < j,
              blocks'[Entry][i].var # NoVariable, blocks'[Entry][j].var # NoVariable
       PROVE  blocks'[Entry][i].var < blocks'[Entry][j].var
  <2>1. i \in DOMAIN c /\ blocks'[Entry][i] = c[i]
    BY <1>5, <1>7, <1>11
  <2>2. CASE j \in DOMAIN c
    <3>1. blocks'[Entry][j] = c[j]
      BY <1>7, <2>2
    <3>2. c[i].var < c[j].var
      BY <1>0, <1>11, <2>1, <2>2, <3>1 DEF VariablesAreSet, c
    <3>3. QED BY <2>1, <3>1, <3>2
  <2>3. CASE j = Len(c) + 1
    <3>1. c[i].var \in 1..Len(variables)
      BY <1>8, <1>11, <2>1
    <3>2. blocks'[Entry][j].var = n
      BY <1>2, <1>7, <2>3
    <3>3. QED BY <1>1, <2>1, <3>1, <3>2 DEF n
  <2>4. QED BY <1>5, <1>7, <2>2, <2>3
<1>12. Blocks' = DOMAIN blocks' /\ Entry' = Entry
  BY DEF Blocks, Entry
<1>13. VariablesAreSet'
  BY <1>9, <1>10, <1>11, <1>12 DEF VariablesAreSet, SetsVariable, Entry
<1>14. QED BY <1>6, <1>13, StepInv

LEMMA ExitStep ==
  ASSUME Inv, NEW b \in Blocks, NEW op \in Exits, Exit(b, op),
         Unended(blocks[b]) \/ (op = "return" /\ ~Terminated(b))
  PROVE  Inv'
<1> DEFINE x == Inst(op, <<>>)
<1>1. x.op = op /\ x.op \notin {"selectionMerge", "branchConditional", "branch"}
  BY DEF Inst, Exits
<1>2. \/ Unended(blocks[b])
      \/ b = Entry /\ x.op \in {"store", "call", "return"}
      \/ b # Entry /\ blocks[b][Len(blocks[b])].op \notin Terminators
  <2>1. ASSUME blocks[b] = <<>>
        PROVE  Unended(blocks[b])
    BY <2>1 DEF Unended
  <2>2. QED BY <1>1, <2>1 DEF Terminated
<1>3. Permitted(b, blocks[b], x, ifs)
  BY <1>1, <1>2 DEF Permitted, Joins
<1>4. op \in Ops
  BY DEF Ops, Terminators
<1>5. AppendTo(b, Inst(op, <<>>)) /\ UNCHANGED variables
  BY DEF Exit
<1>6. QED BY <1>3, <1>4, <1>5, PlainStep

\* If takes a merge block of the function, or makes one.
LEMMA IfStep ==
  ASSUME Inv, NEW bb \in OpenBlocks, NEW t \in FreshBlocks, NEW f \in FreshBlocks \cup {NoBlock},
         NEW m \in FreshBlocks \cup {NoBlock}, NEW c \in Values, If(bb, c, t, f, m)
  PROVE  Inv'
<1> DEFINE n == Len(blocks)
<1>0. /\ n \in 1..MaxBlocks /\ Blocks = 1..n /\ (\A b \in Blocks : Old(b) = blocks[b])
      /\ MaxBlocks \in Nat /\ blocks \in Seq(Seq(Insts)) /\ NoBlock = 0
  BY Typed DEF Inv, TypeOK, NoBlock
<1>1. bb # t /\ bb # f /\ t # f /\ UNCHANGED <<variables, calls>>
  BY DEF If
<1>2. bb \in Blocks /\ t \in Blocks /\ f \in Blocks \cup {NoBlock} /\ m \in Blocks \cup {NoBlock}
  BY DEF OpenBlocks, FreshBlocks
<1>3. CASE /\ m # NoBlock /\ m \notin {bb, t, f}
           /\ Branch(blocks, bb, t, f, m)
           /\ ifs' = Append(ifs, [header |-> bb, true |-> t, false |-> f, merge |-> m])
  <2>1. DOMAIN blocks = 1..n /\ m \in 1..n /\ \A b \in 1..n : blocks[b] = Old(b)
    BY <1>0, <1>2, <1>3, LenProperties
  <2> HIDE DEF n
  <2>2. QED BY <1>0, <1>1, <1>3, <2>1, BranchStep
<1>4. CASE /\ Len(blocks) < MaxBlocks
           /\ Branch(Append(blocks, <<>>), bb, t, f, n + 1)
           /\ ifs' = Append(ifs, [header |-> bb, true |-> t, false |-> f, merge |-> n + 1])
  <2> DEFINE before == Append(blocks, <<>>)
             k == n + 1
  <2>1. /\ before \in Seq(Seq(Insts)) /\ Len(before) = k
        /\ \A b \in 1..n : before[b] = blocks[b]
        /\ before[k] = <<>>
    BY <1>0, EmptySeq, AppendProperties
  <2> HIDE DEF before
  <2>2. DOMAIN before = 1..k
    BY <2>1, LenProperties
  <2>3. k \in 1..MaxBlocks /\ Blocks \subseteq 1..k /\ k \in 1..k /\ k \notin Blocks /\ k # NoBlock
    BY <1>0, <1>4
  <2>4. ASSUME NEW b \in 1..k PROVE before[b] = Old(b)
    <3>1. b \in 1..n \/ b = k
      BY <1>0
    <3>2. QED BY <1>0, <2>1, <2>3, <3>1 DEF Old
  <2>5. k \notin {bb, t, f}
    BY <1>2, <2>3
  <2>6. /\ Branch(before, bb, t, f, k)
        /\ ifs' = Append(ifs, [header |-> bb, true |-> t, false |-> f, merge |-> k])
    BY <1>4 DEF before
  <2> HIDE DEF k
  <2>7. QED BY <1>1, <2>2, <2>3, <2>4, <2>5, <2>6, BranchStep
<1>5. QED BY <1>3, <1>4 DEF If

LEMMA InitInv == Init => Inv
<1> SUFFICES ASSUME Init PROVE Inv
  OBVIOUS
<1>1. blocks = << <<>> >> /\ variables = <<>> /\ ifs = <<>> /\ calls = 0
  BY DEF Init
<1>2. /\ blocks \in Seq(Seq(Insts)) /\ Len(blocks) = 1 /\ Blocks = {1} /\ blocks[1] = <<>>
  BY <1>1 DEF Blocks
<1>3. TypeOK
  BY <1>1, <1>2, BlocksAssumption DEF TypeOK
<1>4. \A b \in Blocks : Content(b, blocks[b], ifs)
  BY <1>2 DEF Content, Orderly
<1>5. Headed
  BY <1>1 DEF Headed
<1>6. VariablesAreSet
  BY <1>1, <1>2 DEF VariablesAreSet, Entry
<1>7. QED BY <1>3, <1>4, <1>5, <1>6 DEF Inv

LEMMA NextInv == Inv /\ [Next]_vars => Inv'
<1> SUFFICES ASSUME Inv, [Next]_vars PROVE Inv'
  OBVIOUS
<1>0. \A b \in OpenBlocks : b \in Blocks /\ Unended(blocks[b])
  BY DEF OpenBlocks, Unended
<1>1. CASE AddBlock
  BY <1>1, AddBlockStep
<1>2. ASSUME NEW b \in OpenBlocks, Operation(b)
      PROVE  Inv'
  <2> DEFINE O == {"vectorOp", "scalarOp", "compute", "load", "store", "sample", "sampleLod"}
  <2>1. PICK op \in O : \E args : Emit(b, op, args)
    <3>1. ASSUME NEW img, NEW uv, NEW lod, ImageSample(b, img, uv, lod)
          PROVE  \E op \in O : \E args : Emit(b, op, args)
      <4>1. (IF lod = Null THEN "sample" ELSE "sampleLod") \in O
        OBVIOUS
      <4>2. QED BY <3>1, <4>1 DEF ImageSample
    <3>2. QED BY <1>2, <3>1 DEF Operation
  <2>2. op \in Ops /\ op \notin Terminators \cup {"selectionMerge"}
    BY DEF Ops, Terminators, Exits
  <2>3. QED BY <1>0, <2>1, <2>2, EmitStep
<1>3. ASSUME NEW b \in Blocks,
             \/ Unended(blocks[b]) /\ (Kill(b) \/ ReturnValue(b))
             \/ Return(b)
      PROVE  Inv'
  <2>1. PICK op \in Exits :
          Exit(b, op) /\ (Unended(blocks[b]) \/ (op = "return" /\ ~Terminated(b)))
    BY <1>3 DEF Kill, ReturnValue, Return, Exits
  <2>2. QED BY <2>1, ExitStep
<1>4. ASSUME \/ \E v \in Values : AddVariable(v)
             \/ \E components \in 1..4 : VariableFloat(components)
             \/ \E count, nulls : FuncCall(count, nulls)
      PROVE  Inv'
  BY <1>4, AddVariableStep, VariableFloatStep, FuncCallStep
<1>5. ASSUME NEW bb \in OpenBlocks, NEW t \in FreshBlocks, NEW f \in FreshBlocks \cup {NoBlock},
             NEW m \in FreshBlocks \cup {NoBlock}, NEW c \in Values, If(bb, c, t, f, m)
      PROVE  Inv'
  BY <1>5, IfStep
<1>6. CASE UNCHANGED vars
  BY <1>6 DEF vars, Inv, TypeOK, Headed, Blocks, VariablesAreSet
<1>7. QED BY <1>0, <1>1, <1>2, <1>3, <1>4, <1>5, <1>6 DEF Next

\* Instructions and Ifs keep their types: every target is a block that the
\* function may have, every variable of a type that VariableFloat or AddVariable gives.
THEOREM TypeCorrect == Spec => []TypeOK
<1>1. Inv => TypeOK
  BY DEF Inv
<1>2. QED BY InitInv, NextInv, <1>1, PTL DEF Spec

\* Nothing follows the end of a block but what AddVariable, FuncCall and a second
\* Return put into FunctionEntry.
THEOREM TerminatorsAlwaysLast == Spec => []TerminatorsAreLast
<1>1. Inv => TerminatorsAreLast
  BY DEF Inv, Content, Orderly, TerminatorsAreLast
<1>2. QED BY InitInv, NextInv, <1>1, PTL DEF Spec

\* However Ifs are nested and in whatever order they are built, an arm joins the merge
\* block of its own If, whose header still says so.
THEOREM ArmsAlwaysJoinOwnMerge == Spec => []ArmsJoinOwnMerge
<1>1. Inv => ArmsJoinOwnMerge
  BY DEF Inv, Content, Joins, Headed, ArmsJoinOwnMerge
<1>2. QED BY InitInv, NextInv, <1>1, PTL DEF Spec

\* However variables and instructions are mixed, each variable of AddVariable is set
\* once, in FunctionEntry, in order, to a value that it can hold, or to a vector of
\* integers, for which it is a vector of floats.
THEOREM VariablesAlwaysSet == Spec => []VariablesAreSet
<1>1. Inv => VariablesAreSet
  BY DEF Inv
<1>2. QED BY InitInv, NextInv, <1>1, PTL DEF Spec
=============================================================================
