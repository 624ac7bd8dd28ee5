----------------------------- MODULE AddressMap -----------------------------
(***************************************************************************)
(* What page tables promise: each address space is a partial function from *)
(* virtual pages to physical pages.  A mapping is added where there is     *)
(* none and removed on request; nothing else changes it, least of all an   *)
(* operation on another space or one that ran out of memory.               *)
(***************************************************************************)
CONSTANTS
    Space,          \* address spaces
    Vaddr,          \* virtual pages
    Target,         \* physical pages that get mapped
    NoSpace         \* what a space that does not exist holds

VARIABLE map        \* map[s]: the mapping of space s, or NoSpace

Init == map = [s \in Space |-> NoSpace]

Create(s) ==
    /\ map[s] = NoSpace
    /\ map' = [map EXCEPT ![s] = [v \in {} |-> v]]

\* Only spaces without mappings are given up.
Free(s) ==
    /\ map[s] # NoSpace /\ DOMAIN map[s] = {}
    /\ map' = [map EXCEPT ![s] = NoSpace]

Map(s, v, t) ==
    /\ map[s] # NoSpace /\ v \notin DOMAIN map[s]
    /\ map' = [map EXCEPT ![s] = [w \in DOMAIN @ \cup {v} |-> IF w = v THEN t ELSE @[w]]]

Unmap(s, v) ==
    /\ map[s] # NoSpace /\ v \in DOMAIN map[s]
    /\ map' = [map EXCEPT ![s] = [w \in DOMAIN @ \ {v} |-> @[w]]]

Next ==
    \E s \in Space :
        \/ Create(s) \/ Free(s)
        \/ \E v \in Vaddr : Unmap(s, v) \/ \E t \in Target : Map(s, v, t)

Spec == Init /\ [][Next]_map
=============================================================================
