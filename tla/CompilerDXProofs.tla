-------------------------- MODULE CompilerDXProofs --------------------------
(***************************************************************************)
(* The invariants of CompilerDX, for any bounds on failed constructions    *)
(* and linkers held.                                                       *)
(***************************************************************************)
EXTENDS CompilerDX, TLAPS

\* What makes them inductive: the loader counts one load more than failures left
\* behind as long as the instance, or what Terminate let go, is alive, and nobody
\* holds a linker without one of them.
Loaded ==
    /\ loads = IF dll \/ detached = 2 THEN lost + 1 ELSE lost
    /\ dll \/ phase = "unbuilt" => detached = 0
    /\ linkers > 0 => dll \/ detached = 2

\* TypeOK in two parts.
Members ==
    /\ phase \in {"unbuilt", "built", "exited"}
    /\ dll \in BOOLEAN /\ create \in BOOLEAN /\ linkerSupport \in BOOLEAN
    /\ library \in BOOLEAN /\ compiler \in BOOLEAN
Numbers ==
    /\ lost \in 0..MaxAttempts /\ linkers \in 0..MaxLinkers
    /\ detached \in {0, 2} /\ loads \in lost..(lost + 1)

Inv == TypeOK /\ AllOrNothing /\ Loaded

\* The four parts of the invariant, each shown by a step of its own below.
LEMMA InvParts ==
  ASSUME Inv
  PROVE  Members /\ Numbers /\ AllOrNothing /\ Loaded
  BY DEF Members, Numbers, TypeOK, Inv

\* Before the first Instance() there is nothing.
LEMMA InitInv == Init => Inv
<1> SUFFICES ASSUME Init PROVE Inv
  OBVIOUS
<1>0. /\ dll = FALSE /\ create = FALSE /\ library = FALSE /\ compiler = FALSE
      /\ linkerSupport = FALSE /\ phase = "unbuilt"
      /\ loads = 0 /\ linkers = 0 /\ detached = 0 /\ lost = 0
  BY DEF Init
<1>1. Members /\ AllOrNothing
  BY <1>0 DEF Members, AllOrNothing
<1>2. Numbers
  BY BoundsAssumption DEF Init, Numbers
<1>3. Loaded
  BY DEF Init, Loaded
<1>4. QED BY <1>1, <1>2, <1>3 DEF Members, Numbers, TypeOK, Inv

\* A step that changes nothing.
LEMMA StutterInv ==
  ASSUME Inv, UNCHANGED <<phase, dll, create, library, compiler, linkerSupport,
                          loads, linkers, detached, lost>>
  PROVE  Inv'
  BY DEF Inv, TypeOK, AllOrNothing, Loaded

\* The constructor, by where it fails.
LEMMA InstanceInv ==
  ASSUME Inv, NEW f \in {"nowhere", "dll", "symbol", "library", "compiler", "linker"},
         Instance(f)
  PROVE  Inv'
<1> USE BoundsAssumption
<1>0. Members /\ Numbers /\ AllOrNothing /\ Loaded
  BY InvParts
<1>1. phase = "unbuilt" /\ UNCHANGED <<linkers, detached>> /\ ~dll
  BY <1>0 DEF Instance, AllOrNothing
<1>2. CASE f = "nowhere"
  <2>1. /\ dll' = TRUE /\ create' = TRUE /\ library' = TRUE /\ compiler' = TRUE
        /\ linkerSupport' = TRUE /\ phase' = "built" /\ loads' = loads + 1 /\ lost' = lost
    BY <1>2 DEF Instance, Construct, AllMembers
  <2>2. Members'
    BY <2>1 DEF Members
  <2>3. AllOrNothing'
    BY <2>1 DEF AllOrNothing
  <2>4. Numbers'
    BY <1>0, <1>1, <2>1 DEF Numbers, Loaded
  <2>5. Loaded'
    BY <1>0, <1>1, <2>1 DEF Numbers, Loaded
  <2>6. QED BY <2>2, <2>3, <2>4, <2>5 DEF Members, Numbers, TypeOK, Inv
<1>3. CASE f \in {"dll", "symbol"}
  <2>1. UNCHANGED <<phase, members, loads, lost>>
    BY <1>3 DEF Instance, Construct
  <2>2. QED BY <1>1, <2>1, StutterInv DEF members
<1>4. CASE f \in {"library", "compiler", "linker"}
  <2>1. /\ lost < MaxAttempts /\ loads' = loads + 1 /\ lost' = lost + 1
        /\ UNCHANGED <<phase, dll, create, library, compiler, linkerSupport>>
    BY <1>4 DEF Instance, Construct, members
  <2>2. Members'
    BY <1>0, <2>1 DEF Members
  <2>3. AllOrNothing'
    BY <1>0, <2>1 DEF AllOrNothing
  <2>4. Numbers'
    BY <1>0, <1>1, <2>1 DEF Numbers
  <2>5. Loaded'
    BY <1>0, <1>1, <2>1 DEF Numbers, Loaded
  <2>6. QED BY <2>2, <2>3, <2>4, <2>5 DEF Members, Numbers, TypeOK, Inv
<1>5. QED BY <1>2, <1>3, <1>4

\* What ends an instance: its members are cleared, and either dxcompiler is unloaded
\* or the objects are let go.
LEMMA EndInv ==
  ASSUME Inv, dll, linkers \in Nat,
         dll' = FALSE, create' = FALSE, library' = FALSE, compiler' = FALSE,
         UNCHANGED <<linkerSupport, linkers, lost>>, phase' \in {"built", "exited"},
         \/ linkers = 0 /\ loads' = loads - 1 /\ detached' = detached
         \/ loads' = loads /\ detached' = detached + 2
  PROVE  Inv'
<1>0. Members /\ Numbers /\ AllOrNothing /\ Loaded
  BY InvParts
<1>1. Members'
  BY <1>0 DEF Members
<1>2. AllOrNothing'
  BY DEF AllOrNothing
<1>3. Numbers'
  BY <1>0, BoundsAssumption DEF Numbers, Loaded
<1>4. Loaded'
  BY <1>0, BoundsAssumption DEF Numbers, Loaded
<1>5. QED BY <1>1, <1>2, <1>3, <1>4 DEF Members, Numbers, TypeOK, Inv

\* A linker more, or less; one more takes the factory, hence dxcompiler.
LEMMA LinkersInv ==
  ASSUME Inv, CreateLinker \/ ReleaseLinker
  PROVE  Inv'
<1>0. Members /\ Numbers /\ AllOrNothing /\ Loaded
  BY InvParts
<1>1. /\ UNCHANGED <<phase, dll, create, library, compiler, linkerSupport, loads, detached, lost>>
      /\ \/ create /\ linkers < MaxLinkers /\ linkers' = linkers + 1
         \/ linkers > 0 /\ linkers' = linkers - 1
  BY DEF CreateLinker, ReleaseLinker, members
<1>2. Members'
  BY <1>0, <1>1 DEF Members
<1>3. AllOrNothing'
  BY <1>0, <1>1 DEF AllOrNothing
<1>4. Numbers'
  BY <1>0, <1>1, BoundsAssumption DEF Numbers
<1>5. Loaded'
  <2>1. CASE create /\ linkers < MaxLinkers /\ linkers' = linkers + 1
    <3>1. dll
      BY <1>0, <2>1 DEF AllOrNothing
    <3>2. QED BY <1>0, <1>1, <2>1, <3>1 DEF Loaded
  <2>2. CASE linkers > 0 /\ linkers' = linkers - 1
    BY <1>0, <1>1, <2>2 DEF Loaded
  <2>3. QED BY <1>1, <2>1, <2>2
<1>6. QED BY <1>2, <1>3, <1>4, <1>5 DEF Members, Numbers, TypeOK, Inv

LEMMA NextInv == Inv /\ [Next]_vars => Inv'
<1> SUFFICES ASSUME Inv, [Next]_vars PROVE Inv'
  OBVIOUS
<1>0. Members /\ Numbers /\ AllOrNothing /\ Loaded
  BY InvParts
<1>1. linkers \in Nat
  BY <1>0, BoundsAssumption DEF Numbers
<1>2. ASSUME NEW f \in {"nowhere", "dll", "symbol", "library", "compiler", "linker"},
             Instance(f)
      PROVE  Inv'
  BY <1>2, InstanceInv
<1>3. CASE CreateLinker \/ ReleaseLinker
  BY <1>3, LinkersInv
<1>4. CASE Destroy
  <2>1. CASE dll
    BY <1>1, <1>4, <2>1, EndInv DEF Destroy, Unload, AllMembers
  <2>2. CASE ~dll
    BY <1>4, <2>2, StutterInv DEF Destroy, Unload
  <2>3. QED BY <2>1, <2>2
<1>5. CASE Terminate
  BY <1>1, <1>5, EndInv DEF Terminate, AllMembers
<1>6. CASE Exit
  <2>1. CASE dll
    BY <1>1, <1>6, <2>1, EndInv DEF Exit, Unload, AllMembers
  <2>2. CASE ~dll
    <3>1. UNCHANGED <<dll, create, library, compiler, linkerSupport, loads, linkers,
                      detached, lost>> /\ phase' = "exited"
      BY <1>6, <2>2 DEF Exit, Unload
    <3>2. Members' /\ AllOrNothing'
      BY <1>0, <2>2, <3>1 DEF Members, AllOrNothing
    <3>3. Numbers' /\ Loaded'
      BY <1>0, <3>1 DEF Numbers, Loaded
    <3>4. QED BY <3>2, <3>3 DEF Members, Numbers, TypeOK, Inv
  <2>3. QED BY <2>1, <2>2
<1>7. CASE UNCHANGED vars
  BY <1>7, StutterInv DEF vars, members
<1>8. QED BY <1>2, <1>3, <1>4, <1>5, <1>6, <1>7 DEF Next

\* The fields of the singleton keep their types, and the loader's count never falls
\* below the loads of failed constructions, nor grows beyond one more.
THEOREM TypeCorrect == Spec => []TypeOK
<1>1. Inv => TypeOK
  BY DEF Inv
<1>2. QED BY InitInv, NextInv, <1>1, PTL DEF Spec

\* An instance has all that it takes to compile, or nothing, after any sequence of
\* failures, constructions and shutdowns.
THEOREM AlwaysAllOrNothing == Spec => []AllOrNothing
<1>1. Inv => AllOrNothing
  BY DEF Inv
<1>2. QED BY InitInv, NextInv, <1>1, PTL DEF Spec

\* dxcompiler is never unmapped under an object, a linker, or what Terminate let go.
THEOREM CodeAlwaysMapped == Spec => []CodeStaysMapped
<1>1. Inv => CodeStaysMapped
  BY BoundsAssumption, InvParts DEF Numbers, AllOrNothing, Loaded, CodeStaysMapped
<1>2. QED BY InitInv, NextInv, <1>1, PTL DEF Spec
=============================================================================
