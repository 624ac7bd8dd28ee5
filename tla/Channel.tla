------------------------------ MODULE Channel ------------------------------
(***************************************************************************)
(* What a pipe promises: a bounded first-in first-out queue of bytes.      *)
(* Writes append, reads remove from the front and deliver what they        *)
(* removed; a read delivers nothing only at end of file, when the queue is *)
(* empty and the write end closed.                                         *)
(***************************************************************************)
EXTENDS Integers, Sequences

CONSTANTS Byte, Capacity

VARIABLES
    queue,          \* bytes written and not yet read
    delivered,      \* bytes the last read returned
    writeopen       \* the write end is open

vars == <<queue, delivered, writeopen>>

Init == queue = <<>> /\ delivered = <<>> /\ writeopen = TRUE

Put ==
    /\ writeopen
    /\ \E n \in 0 .. Capacity - Len(queue) : \E s \in [1 .. n -> Byte] :
          queue' = queue \o s
    /\ UNCHANGED <<delivered, writeopen>>

Get ==
    /\ \E n \in 1 .. Len(queue) :
          /\ delivered' = SubSeq(queue, 1, n)
          /\ queue' = SubSeq(queue, n + 1, Len(queue))
    /\ UNCHANGED writeopen

Eof ==
    /\ queue = <<>> /\ ~ writeopen
    /\ delivered' = <<>>
    /\ UNCHANGED <<queue, writeopen>>

Close == writeopen' = FALSE /\ UNCHANGED <<queue, delivered>>

Next == Put \/ Get \/ Eof \/ Close

Spec == Init /\ [][Next]_vars
=============================================================================
