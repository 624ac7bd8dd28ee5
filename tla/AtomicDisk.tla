----------------------------- MODULE AtomicDisk -----------------------------
(***************************************************************************)
(* What the write-ahead log promises its users: a transaction is either    *)
(* complete or absent on the disk.  Operations open and close; the updates *)
(* of all operations open together reach the disk in one step, taken while *)
(* none is open; a crash falls back to the last such step.                 *)
(***************************************************************************)
CONSTANTS Procs, Blocks, Vals

VARIABLES
    durable,    \* durable[b]: what block b holds after a crash and recovery
    pending,    \* pending[b]: what the running system reads from block b
    open        \* processes inside an operation

vars == <<durable, pending, open>>

Init ==
    /\ durable \in [Blocks -> Vals]
    /\ pending = durable
    /\ open = {}

Begin(p) ==
    /\ p \notin open
    /\ open' = open \cup {p}
    /\ UNCHANGED <<durable, pending>>

Write(p, b, v) ==
    /\ p \in open
    /\ pending' = [pending EXCEPT ![b] = v]
    /\ UNCHANGED <<durable, open>>

End(p) ==
    /\ p \in open
    /\ open' = open \ {p}
    /\ UNCHANGED <<durable, pending>>

Commit ==
    /\ open = {}
    /\ durable' = pending
    /\ UNCHANGED <<pending, open>>

Crash ==
    /\ pending' = durable
    /\ open' = {}
    /\ UNCHANGED durable

Next ==
    \/ \E p \in Procs : Begin(p) \/ End(p)
    \/ \E p \in Procs, b \in Blocks, v \in Vals : Write(p, b, v)
    \/ Commit
    \/ Crash

Spec == Init /\ [][Next]_vars
=============================================================================
