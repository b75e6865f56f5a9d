----------------------------- MODULE ShaderInfo -----------------------------
(***************************************************************************)
(* ShaderInfo: two traversals of glslang's syntax tree, one that looks for *)
(* the definition of a function and one that collects how the function     *)
(* uses symbols.  FindSymbolsUsage runs them one after the other.          *)
(*                                                                         *)
(* A tree is a sequence of nodes in the order of the source, each with the *)
(* positions of its children; the first node is the root.  A traversal is  *)
(* what it has still to visit: one step per node.                          *)
(***************************************************************************)
EXTENDS Integers, Sequences

CONSTANTS
    Trees,              \* the syntax trees that callers have
    Asked,              \* the names and signatures that callers ask for
    get_function_name(_),   \* what is before the "(" of a signature
    MaxSymbols          \* bound: a list this long is not passed on to another call

IndexOps  == {"IndexDirect", "IndexIndirect", "IndexDirectStruct", "VectorSwizzle",
              "MatrixSwizzle"}
AssignOps == {"Assign", "AddAssign", "SubAssign", "MulAssign", "DivAssign"}

Kinds == {"symbol", "constant", "binary", "aggregate", "other"}
Nodes == [kind : Kinds, op : STRING, name : STRING, kids : Seq(Nat)]

IsFunction(node)   == node.kind = "aggregate" /\ node.op = "Function"
IsCall(node)       == node.kind = "aggregate" /\ node.op = "FunctionCall"
IsAssignment(node) == node.kind = "binary" /\ node.op \in AssignOps
IsIndex(node)      == node.kind = "binary" /\ node.op \in IndexOps

\* The last of the nodes under each node: as they are in the order of the source,
\* the nodes under a node are it and those after it up to that one.
LastOf(t) ==
    LET last[n \in DOMAIN t] ==
            IF t[n].kids = <<>> THEN n ELSE last[t[n].kids[Len(t[n].kids)]]
    IN  last
Under(t, n) == n..LastOf(t)[n]

\* The first child of a node comes right after it, each other one after the nodes
\* under the child before it, and all nodes are under the first one.
IsTree(t) ==
    /\ \A n \in DOMAIN t : \A j \in DOMAIN t[n].kids : t[n].kids[j] \in (n + 1)..Len(t)
    /\ \A n \in DOMAIN t : \A j \in DOMAIN t[n].kids :
          t[n].kids[j] = IF j = 1 THEN n + 1 ELSE LastOf(t)[t[n].kids[j - 1]] + 1
    /\ LastOf(t)[1] = Len(t)

\* Binary nodes have two operands, and a function is not defined in another one.
IsSyntax(t) ==
    /\ \A n \in DOMAIN t : t[n].kind = "binary" => Len(t[n].kids) = 2
    /\ \A n \in DOMAIN t : IsFunction(t[n]) =>
          \A m \in Under(t, n) \ {n} : ~IsFunction(t[m])

ASSUME TreesAssumption ==
    \A t \in Trees : t \in Seq(Nodes) /\ t # <<>> /\ IsTree(t) /\ IsSyntax(t)
ASSUME MaxSymbolsAssumption == MaxSymbols \in Nat

VARIABLES
    ast,        \* the tree, which the calls do not change
    call,       \* the name asked for, whether its symbols are, and the list before
    stage,      \* idle, finding, tracing, done or crashed
    todo,       \* the nodes that the traversal has before it
    found,      \* mFunctionDefinitionNode, 0 for null
    symbols     \* the caller's list

vars == <<ast, call, stage, todo, found, symbols>>

Init ==
    /\ ast \in Trees
    /\ call = [name |-> "", usage |-> FALSE, before |-> <<>>]
    /\ stage = "idle" /\ todo = <<>> /\ found = 0 /\ symbols = <<>>

-----------------------------------------------------------------------------
(* The calls, and the finder.                                              *)

\* Both calls begin by looking for the definition from the root.
Asks(name, usage, list) ==
    /\ stage \in {"idle", "done"}
    /\ call' = [name |-> name, usage |-> usage, before |-> list]
    /\ stage' = "finding" /\ todo' = <<1>> /\ found' = 0
    /\ symbols' = list
    /\ UNCHANGED ast

GetFunctionByName(name) == Asks(name, FALSE, symbols)

\* The list may be one that an earlier call filled.
FindSymbolsUsage(name) ==
    \E list \in {<<>>, symbols} : Len(list) <= MaxSymbols /\ Asks(name, TRUE, list)

\* Mutant: the parameters count, as in GetFunctionBySignature.
MatchesSignature(n) == ast[n].name = call.name

\* Names are compared without their parameters.
Matches(n) == get_function_name(ast[n].name) = get_function_name(call.name)

\* A definition that matches replaces one that was found before it.
VisitFinder ==
    /\ stage = "finding" /\ todo # <<>>
    /\ LET n == Head(todo) IN
       IF IsFunction(ast[n]) /\ Matches(n)
       THEN found' = n /\ todo' = Tail(todo)
       ELSE UNCHANGED found /\ todo' = ast[n].kids \o Tail(todo)
    /\ UNCHANGED <<ast, call, stage, symbols>>

FoundFunction ==
    /\ stage = "finding" /\ todo = <<>> /\ ~call.usage
    /\ stage' = "done"
    /\ UNCHANGED <<ast, call, todo, found, symbols>>

\* The traversal starts at the definition; at none, the process ends.
StartTracer ==
    /\ stage = "finding" /\ todo = <<>> /\ call.usage
    /\ IF found = 0 THEN stage' = "crashed" /\ UNCHANGED todo
       ELSE stage' = "tracing" /\ todo' = <<found>>
    /\ UNCHANGED <<ast, call, found, symbols>>

-----------------------------------------------------------------------------
(* The tracer.                                                             *)

\* A swizzle or an index counts as a swizzle; a member has its name.
AccessOf(node) ==
    IF node.op = "IndexDirectStruct" THEN <<"member", node.name>>
    ELSE <<"swizzle", IF node.op = "VectorSwizzle" THEN "VectorSwizzle" ELSE "">>

\* Mutant: an access is added behind those that were found before it.
AccessedInside(accesses, access) == <<access>> \o accesses

\* Symbol::add puts an access before those that were found before it: from the
\* outermost node inwards, the list is in the order of the source.
Accessed(accesses, access) == Append(accesses, access)

\* findLValueBase: the symbol at the left end of a chain of indices, and the
\* accesses on the way; none when something else is there.
findLValueBase[n \in DOMAIN ast] ==
    IF ast[n].kind = "symbol" THEN [base |-> n, accesses |-> <<>>]
    ELSE IF IsIndex(ast[n])
    THEN [findLValueBase[ast[n].kids[1]] EXCEPT !.accesses = Accessed(@, AccessOf(ast[n]))]
    ELSE [base |-> 0, accesses |-> <<>>]

Symbol(base, accesses) == [name |-> ast[base].name, accesses |-> accesses]

\* The parts of a sequence of sequences joined, up to each one and all of them.
JoinedUpTo(parts) ==
    LET upTo[n \in 0..Len(parts)] == IF n = 0 THEN <<>> ELSE upTo[n - 1] \o parts[n]
    IN  upTo
Joined(parts) == JoinedUpTo(parts)[Len(parts)]

\* What visitAggregate reports of a call: its arguments that are symbols, as they
\* are or indexed, each with the function and the place before its accesses.
Argument(n, j) ==
    LET lvalue == findLValueBase[ast[n].kids[j]]
    IN  IF lvalue.base = 0 THEN <<>>
        ELSE <<Symbol(lvalue.base, <<<<"call", ast[n].name, j - 1>>>> \o lvalue.accesses)>>
Arguments(n) == Joined([j \in 1..Len(ast[n].kids) |-> Argument(n, j)])

\* visitBinary: an assignment to a symbol is reported, and nothing under it.
VisitAssignment ==
    /\ stage = "tracing" /\ todo # <<>> /\ IsAssignment(ast[Head(todo)])
    /\ LET n == Head(todo)
           lvalue == findLValueBase[ast[n].kids[1]]
       IN  IF lvalue.base # 0
           THEN /\ symbols' = Append(symbols, Symbol(lvalue.base, lvalue.accesses))
                /\ todo' = Tail(todo)
           ELSE UNCHANGED symbols /\ todo' = ast[n].kids \o Tail(todo)
    /\ UNCHANGED <<ast, call, stage, found>>

\* visitAggregate: the arguments of a call are visited after they are reported.
VisitCall ==
    /\ stage = "tracing" /\ todo # <<>> /\ IsCall(ast[Head(todo)])
    /\ symbols' = symbols \o Arguments(Head(todo))
    /\ todo' = ast[Head(todo)].kids \o Tail(todo)
    /\ UNCHANGED <<ast, call, stage, found>>

VisitOther ==
    /\ stage = "tracing" /\ todo # <<>>
    /\ ~IsAssignment(ast[Head(todo)]) /\ ~IsCall(ast[Head(todo)])
    /\ todo' = ast[Head(todo)].kids \o Tail(todo)
    /\ UNCHANGED <<ast, call, stage, found, symbols>>

TracedAll ==
    /\ stage = "tracing" /\ todo = <<>>
    /\ stage' = "done"
    /\ UNCHANGED <<ast, call, todo, found, symbols>>

Next ==
    \/ \E name \in Asked : GetFunctionByName(name) \/ FindSymbolsUsage(name)
    \/ VisitFinder \/ FoundFunction \/ StartTracer
    \/ VisitAssignment \/ VisitCall \/ VisitOther \/ TracedAll

Spec == Init /\ [][Next]_vars

-----------------------------------------------------------------------------
(* What a function says, read as a whole.  As nodes are in the order of the *)
(* source, the left operand of a node is the one after it.                  *)

\* The indices from a node down its left side to what is not one, from there up.
LeftEnd(t, n) == CHOOSE e \in n..Len(t) :
    ~IsIndex(t[e]) /\ \A m \in n..(e - 1) : IsIndex(t[m])
IsLValue(t, n) == t[LeftEnd(t, n)].kind = "symbol"
AccessesOf(t, n) == [k \in 1..(LeftEnd(t, n) - n) |-> AccessOf(t[LeftEnd(t, n) - k])]

\* The assignments to symbols in a function, and what is in them.
IsTraced(t, n) == IsAssignment(t[n]) /\ IsLValue(t, n + 1)
Hidden(t, f) == UNION {Under(t, n) \ {n} : n \in {m \in Under(t, f) : IsTraced(t, m)}}

Use(t, n, before) ==
    [name |-> t[LeftEnd(t, n)].name, accesses |-> before \o AccessesOf(t, n)]

\* What a node says of symbols.
Says(t, n) ==
    IF IsTraced(t, n) THEN <<Use(t, n + 1, <<>>)>>
    ELSE IF IsCall(t[n])
    THEN Joined([j \in 1..Len(t[n].kids) |->
            IF IsLValue(t, t[n].kids[j])
            THEN <<Use(t, t[n].kids[j], <<<<"call", t[n].name, j - 1>>>>)>>
            ELSE <<>>])
    ELSE <<>>

SaidBy(t, nodes) == [n \in 1..Len(t) |-> IF n \in nodes THEN Says(t, n) ELSE <<>>]

\* The definitions whose names, without parameters, are the one that is asked for.
Definitions == {n \in DOMAIN ast : IsFunction(ast[n])
                    /\ get_function_name(ast[n].name) = get_function_name(call.name)}

\* ShaderInfo.cpp:23-39,243: of the definitions of a name, whatever their parameters
\* and the parameters asked for, the last one is found; a caller's list is as it was
\* until there is one, and the process ends where there is none.
FoundIsLastDefinition ==
    /\ stage = "crashed" => Definitions = {} /\ symbols = call.before
    /\ stage \in {"tracing", "done"} =>
          IF Definitions = {} THEN found = 0
          ELSE found \in Definitions /\ \A n \in Definitions : n <= found
    /\ stage = "finding" => symbols = call.before

\* ShaderInfo.cpp:92-192: FindSymbolsUsage adds to what the list had the assignments
\* to symbols and the arguments of calls of the one function, in the order of the
\* source, with their accesses in that order, but none from within an assignment.
SymbolsAsUsed ==
    (stage = "done" /\ call.usage) =>
        symbols = call.before \o Joined(SaidBy(ast, Under(ast, found) \ Hidden(ast, found)))

\* ShaderInfo.cpp:188 calls the subtree of an assignment traced: the calls in it
\* have been reported with those outside of it.
AssignmentsAreTraced ==
    (stage = "done" /\ call.usage) =>
        \A n \in Under(ast, found) : IsCall(ast[n]) =>
            \A k \in DOMAIN Says(ast, n) : \E j \in DOMAIN symbols :
                symbols[j] = Says(ast, n)[k]
=============================================================================
