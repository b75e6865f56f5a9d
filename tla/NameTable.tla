----------------------------- MODULE NameTable -----------------------------
(***************************************************************************)
(* What one of the builder's name caches promises its callers, whatever    *)
(* the cache holds (inputs, outputs or uniforms): a name is bound to a     *)
(* holder that nobody received before, a binding stays as it is until all  *)
(* of them are dropped at once, and no holder is ever bound again.         *)
(***************************************************************************)
CONSTANTS Keys,     \* what can be bound
          Holders   \* what a name can be bound to

VARIABLES table,    \* the bindings: a function from a subset of Keys to Holders
          issued    \* the holders handed out so far, bound here or elsewhere

tableVars == <<table, issued>>

EmptyTable == [n \in {} |-> n]

TableInit == table = EmptyTable /\ issued = {}

\* Mutant: a holder that is bound may be issued again.
BindUnissued(n, h) ==
    /\ n \notin DOMAIN table
    /\ h \notin issued
    /\ table' = [k \in DOMAIN table \cup {n} |->
                    IF k \in DOMAIN table THEN table[k] ELSE h]
    /\ UNCHANGED issued

\* A new holder is issued and bound to a name that is free.
Bind(n, h) ==
    /\ n \notin DOMAIN table
    /\ h \notin issued
    /\ table' = [k \in DOMAIN table \cup {n} |->
                    IF k \in DOMAIN table THEN table[k] ELSE h]
    /\ issued' = issued \cup {h}

\* A new holder is issued by somebody else: this table is not concerned.
IssueElsewhere(h) ==
    /\ h \notin issued
    /\ issued' = issued \cup {h}
    /\ UNCHANGED table

\* Every binding is dropped; the holders stay issued.
DropAll == table' = EmptyTable /\ UNCHANGED issued

TableNext ==
    \/ \E n \in Keys, h \in Holders : Bind(n, h)
    \/ \E h \in Holders : IssueElsewhere(h)
    \/ DropAll

TableSpec == TableInit /\ [][TableNext]_tableVars

-----------------------------------------------------------------------------
\* Type invariant: what is bound was issued.
TableTypeOK ==
    /\ issued \subseteq Holders
    /\ DOMAIN table \subseteq Keys
    /\ table \in [DOMAIN table -> issued]

\* A holder answers to one name: the name can be recovered from the holder, as
\* ShaderBuilder::QueryUniformName does.
OneNamePerHolder ==
    \A m, n \in DOMAIN table : table[m] = table[n] => m = n
=============================================================================
