------------------------------ MODULE ByteFile ------------------------------
(***************************************************************************)
(* What a file promises to those who have it open: a sequence of bytes and *)
(* a position for each open file.  Bytes move in pieces at the position    *)
(* and take it along; writing leaves no gap, and whatever interrupts a     *)
(* call, the position stands behind the last byte that moved.              *)
(***************************************************************************)
EXTENDS Integers, Sequences

CONSTANTS
    Procs,          \* processes that read and write
    Nobody,         \* whoever wrote the file before
    File            \* open files of the one inode

VARIABLES
    content,        \* the bytes
    pos,            \* pos[f]: position of open file f
    moved,          \* moved[p]: bytes of p's current write that are in the file
    seen            \* seen[p]: bytes p's current read has got

\* Byte j of p's write buffer.
Byte(p, j) == <<p, j>>

Init ==
    /\ content \in Seq({Nobody} \X Nat)
    /\ pos = [f \in File |-> 0]
    /\ moved = [p \in Procs |-> 0]
    /\ seen = [p \in Procs |-> <<>>]

Put(p, f, k) ==
    /\ k > 0 /\ pos[f] <= Len(content)
    /\ LET end == IF pos[f] + k > Len(content) THEN pos[f] + k ELSE Len(content)
       IN  content' = [x \in 1 .. end |->
                          IF pos[f] < x /\ x <= pos[f] + k
                          THEN Byte(p, moved[p] + x - pos[f]) ELSE content[x]]
    /\ pos' = [pos EXCEPT ![f] = @ + k]
    /\ moved' = [moved EXCEPT ![p] = @ + k]
    /\ UNCHANGED seen

Get(p, f, k) ==
    /\ k > 0 /\ pos[f] + k <= Len(content)
    /\ seen' = [seen EXCEPT ![p] = @ \o SubSeq(content, pos[f] + 1, pos[f] + k)]
    /\ pos' = [pos EXCEPT ![f] = @ + k]
    /\ UNCHANGED <<content, moved>>

\* The call returns.
End(p) ==
    /\ moved' = [moved EXCEPT ![p] = 0]
    /\ seen' = [seen EXCEPT ![p] = <<>>]
    /\ UNCHANGED <<content, pos>>

Next ==
    \E p \in Procs :
        \/ \E f \in File :
              LET k == pos'[f] - pos[f] IN Put(p, f, k) \/ Get(p, f, k)
        \/ End(p)

Spec == Init /\ [][Next]_<<content, pos, moved, seen>>
=============================================================================
