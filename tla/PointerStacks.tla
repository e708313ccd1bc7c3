---------------------------- MODULE PointerStacks -----------------------------
(***************************************************************************)
(* What memory pools promise (memory.h): each is a stack of pointers, of   *)
(* which neo4j_mpool_drainto frees what is above a depth, and              *)
(* neo4j_mpool_merge puts one on top of the other.                         *)
(***************************************************************************)
EXTENDS Naturals, Sequences

CONSTANTS Pools, MaxPointers

VARIABLES
    stack,   \* for each pool the pointers in it, the newest last
    freed,   \* the pointers that have been freed
    added    \* how many pointers have been added: they are 1..added

vars == <<stack, freed, added>>

Init == stack = [p \in Pools |-> << >>] /\ freed = {} /\ added = 0

Add(p) ==
    /\ added < MaxPointers
    /\ added' = added + 1
    /\ stack' = [stack EXCEPT ![p] = Append(@, added + 1)]
    /\ UNCHANGED freed

DrainTo(p, depth) ==
    /\ depth < Len(stack[p])
    /\ freed' = freed \cup {stack[p][i] : i \in (depth + 1)..Len(stack[p])}
    /\ stack' = [stack EXCEPT ![p] = SubSeq(@, 1, depth)]
    /\ UNCHANGED added

Merge(p, q) ==
    /\ stack' = [stack EXCEPT ![p] = @ \o stack[q], ![q] = << >>]
    /\ UNCHANGED <<freed, added>>

Next ==
    \E p \in Pools :
        \/ Add(p)
        \/ \E depth \in 0..MaxPointers : DrainTo(p, depth)
        \/ \E q \in Pools \ {p} : Merge(p, q)

Spec == Init /\ [][Next]_vars
===============================================================================
