----------------------------- MODULE CompilerDX -----------------------------
(***************************************************************************)
(* shadertrans::CompilerDX, the singleton that loads dxcompiler and keeps  *)
(* its library and compiler objects: a constructor that can fail at five   *)
(* places and is tried again by the next Instance(), and two ways to shut  *)
(* down.  External: the loader counts the loads of dxcompiler and unmaps   *)
(* it with the last; an object that is used after that is gone.            *)
(*                                                                         *)
(* Callers are assumed to release the linkers they were given before they  *)
(* call Destroy or return from main, and to use an instance that was shut  *)
(* down no more: nothing in CompilerDX sees to either.                     *)
(***************************************************************************)
EXTENDS Integers

CONSTANTS MaxAttempts,      \* bound on the constructions that fail
          MaxLinkers        \* bound on the linkers held by callers

ASSUME BoundsAssumption == MaxAttempts \in Nat /\ MaxLinkers \in Nat

VARIABLES
    phase,          \* the static object of Instance(): unbuilt, built, exited
    dll,            \* m_dxcompilerDll # nullptr
    create,         \* m_createInstanceFunc # nullptr
    library, compiler,      \* m_library, m_compiler: # nullptr
    linkerSupport,  \* m_linkerSupport
    loads,          \* external: how often dxcompiler is loaded
    linkers,        \* linkers held by callers
    detached,       \* objects that Terminate let go without a Release
    lost            \* history: constructions that failed with dxcompiler loaded

members == <<dll, create, library, compiler, linkerSupport>>
vars == <<phase, members, loads, linkers, detached, lost>>

-----------------------------------------------------------------------------
Init ==
    /\ phase = "unbuilt"
    /\ dll = FALSE /\ create = FALSE /\ library = FALSE /\ compiler = FALSE
    /\ linkerSupport = FALSE    \* not initialised; nobody can read it before it is set
    /\ loads = 0 /\ linkers = 0 /\ detached = 0 /\ lost = 0

\* All pointer members are set, or cleared, at once.
AllMembers(p) == dll' = p /\ create' = p /\ library' = p /\ compiler' = p

\* Mutant: without DxcCreateInstance dxcompiler stays loaded.
ConstructKeepsDll(fails) ==
    CASE fails = "nowhere" ->
            /\ phase' = "built" /\ AllMembers(TRUE) /\ linkerSupport' = TRUE
            /\ loads' = loads + 1 /\ UNCHANGED lost
      [] fails = "symbol" -> loads' = loads + 1 /\ UNCHANGED <<phase, members, lost>>
      [] OTHER -> UNCHANGED <<phase, members, loads, lost>>

\* CompilerDX::CompilerDX, by where it fails.  Without dxcompiler nothing is loaded;
\* without DxcCreateInstance Destroy unloads it again.  Later failures throw past
\* the members: objects made so far are released, but no destructor runs and
\* dxcompiler stays loaded.  A linker that cannot be created throws, too.
Construct(fails) ==
    CASE fails = "nowhere" ->
            /\ phase' = "built" /\ AllMembers(TRUE) /\ linkerSupport' = TRUE
            /\ loads' = loads + 1 /\ UNCHANGED lost
      [] fails \in {"dll", "symbol"} -> UNCHANGED <<phase, members, loads, lost>>
      [] fails \in {"library", "compiler", "linker"} ->
            /\ loads' = loads + 1 /\ lost' = lost + 1
            /\ UNCHANGED <<phase, members>>

\* The static object is constructed by the first Instance(), and again by the
\* next if the constructor threw.
Instance(fails) ==
    /\ phase = "unbuilt"
    /\ fails \in {"library", "compiler", "linker"} => lost < MaxAttempts
    /\ Construct(fails)
    /\ UNCHANGED <<linkers, detached>>

\* CreateLinker throws rather than return null.
CreateLinker ==
    /\ phase = "built" /\ create
    /\ linkers < MaxLinkers
    /\ linkers' = linkers + 1
    /\ UNCHANGED <<phase, members, loads, detached, lost>>

ReleaseLinker ==
    /\ linkers > 0
    /\ linkers' = linkers - 1
    /\ UNCHANGED <<phase, members, loads, detached, lost>>

\* Mutant: the library is not released.
UnloadKeepsLibrary ==
    IF dll THEN /\ dll' = FALSE /\ create' = FALSE /\ compiler' = FALSE
                /\ UNCHANGED library /\ loads' = loads - 1
           ELSE UNCHANGED <<dll, create, library, compiler, loads>>

\* Destroy releases the objects, then unloads dxcompiler, unless that was done.
Unload ==
    IF dll THEN AllMembers(FALSE) /\ loads' = loads - 1
           ELSE UNCHANGED <<dll, create, library, compiler, loads>>

Destroy ==
    /\ phase = "built" /\ linkers = 0
    /\ Unload
    /\ UNCHANGED <<phase, linkerSupport, linkers, detached, lost>>

\* Mutant: Terminate unloads dxcompiler, too.
TerminateUnloads ==
    /\ phase = "built" /\ dll
    /\ detached' = detached + 2
    /\ AllMembers(FALSE) /\ loads' = loads - 1
    /\ UNCHANGED <<phase, linkerSupport, linkers, lost>>

\* Terminate gives up the objects, unreleased, and dxcompiler, loaded.
Terminate ==
    /\ phase = "built" /\ dll
    /\ detached' = detached + 2
    /\ AllMembers(FALSE)
    /\ UNCHANGED <<phase, linkerSupport, loads, linkers, lost>>

\* ~CompilerDX, when the static object is destroyed.
Exit ==
    /\ phase = "built" /\ linkers = 0
    /\ Unload
    /\ phase' = "exited"
    /\ UNCHANGED <<linkerSupport, linkers, detached, lost>>

Next ==
    \/ \E f \in {"nowhere", "dll", "symbol", "library", "compiler", "linker"} : Instance(f)
    \/ CreateLinker \/ ReleaseLinker
    \/ Destroy \/ Terminate \/ Exit

Spec == Init /\ [][Next]_vars

-----------------------------------------------------------------------------
\* Type invariant of CompilerDX.h; the loader's count never falls below the loads
\* that failed constructions left behind.
TypeOK ==
    /\ phase \in {"unbuilt", "built", "exited"}
    /\ dll \in BOOLEAN /\ create \in BOOLEAN /\ linkerSupport \in BOOLEAN
    /\ library \in BOOLEAN /\ compiler \in BOOLEAN
    /\ lost \in 0..MaxAttempts /\ linkers \in 0..MaxLinkers
    /\ detached \in {0, 2} /\ loads \in lost..(lost + 1)

\* The members stand and fall together: an instance either has dxcompiler and all
\* it takes to compile, linkers included, or nothing, whatever failed before it was
\* built and however often and in whichever way it was shut down.
AllOrNothing ==
    /\ create = dll /\ library = dll /\ compiler = dll
    /\ dll => phase = "built" /\ linkerSupport

\* dxcompiler is mapped as long as there are objects whose code it holds: those of
\* the instance, callers' linkers, and the objects that Terminate let go.
CodeStaysMapped == (library \/ compiler \/ linkers + detached > 0) => loads > 0
=============================================================================
