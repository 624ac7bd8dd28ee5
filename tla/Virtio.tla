------------------------------- MODULE Virtio -------------------------------
(***************************************************************************)
(* The VirtIO disk driver of kernel/fs/virtio_disk.c: the ring of          *)
(* descriptors that requests share, their submission, the completions the  *)
(* interrupt handler collects, and the sleeping in between.                *)
(*                                                                         *)
(* vdisk_lock is held, with interrupts off, from the entry of              *)
(* virtio_disk_rw or virtio_disk_intr to its return or to a call of        *)
(* sleep(); each such stretch is one action.  A buffer is locked by the    *)
(* process that transfers it, so the process stands for its buffer.  The   *)
(* device takes requests in order and ends them in any order.              *)
(*                                                                         *)
(* Nobody calls virtio_disk_intr, though virtio.h says kerneltrap does:    *)
(* with HandlerCalled the driver is judged as it is meant to be called,    *)
(* without it as it is.                                                    *)
(***************************************************************************)
EXTENDS Integers, Sequences, FiniteSets

CONSTANTS
    Procs,                  \* processes that transfer blocks
    VIRTIO_RING_SIZE,       \* descriptors in the ring
    Nobody,                 \* what is no process: info[d].b == NULL
    HandlerCalled           \* does kerneltrap call virtio_disk_intr?  Here it does
                            \* not: its VirtIO branch only prints

ASSUME RingAssumption ==
    /\ VIRTIO_RING_SIZE \in Nat \ {0} /\ Nobody \notin Procs
    /\ HandlerCalled \in BOOLEAN

Desc  == 0 .. VIRTIO_RING_SIZE - 1
None  == -1                                 \* alloc_desc found no descriptor
Part  == 1 .. 3                             \* header, data, status
Empty == [proc |-> Nobody, part |-> 1, next |-> 0]      \* after free_desc

VARIABLES
    owner,          \* owner[d]: info[d].b
    desc,           \* desc[d]: what descriptor d points to, and its next
    idx,            \* idx[p]: the local idx[3] of p's call
    valid,          \* processes whose buffer has B_VALID
    avail,          \* heads in the avail ring the device has not taken
    working,        \* heads of the chains the device works on
    moved,          \* processes whose request the device has carried out
    used,           \* heads in the used ring, not yet handled
    pc              \* pc[p]: where process p is

vars == <<owner, desc, idx, valid, avail, working, moved, used, pc>>

ring   == <<owner, desc>>
device == <<avail, working, moved, used>>

\* "start": about to take descriptors; "wait": a request is submitted.  Both
\* loops sleep: first with the lock released and the state not yet SLEEPING.
Starting == {"start", "start_presleep", "start_asleep"}
InFlight == {"wait", "wait_presleep", "wait_asleep"}

TypeOK ==
    /\ owner \in [Desc -> Procs \cup {Nobody}]
    /\ desc \in [Desc -> [proc : Procs \cup {Nobody}, part : Part, next : Desc]]
    /\ idx \in [Procs -> [Part -> Desc \cup {None}]]
    /\ valid \in SUBSET Procs
    /\ avail \in Seq(Desc) /\ Len(avail) <= VIRTIO_RING_SIZE
    /\ working \in SUBSET Desc
    /\ moved \in SUBSET Procs
    /\ used \in Seq(Desc) /\ Len(used) <= VIRTIO_RING_SIZE
    /\ pc \in [Procs -> {"idle"} \cup Starting \cup InFlight]

Init ==
    /\ owner = [d \in Desc |-> Nobody]
    /\ desc = [d \in Desc |-> Empty]
    /\ idx = [p \in Procs |-> [k \in Part |-> None]]
    /\ valid = {} /\ moved = {}
    /\ avail = <<>> /\ working = {} /\ used = <<>>
    /\ pc = [p \in Procs |-> "idle"]

-----------------------------------------------------------------------------
(***************************************************************************)
(* Descriptors                                                             *)
(***************************************************************************)

\* The descriptors alloc_desc looks at.
Scanned == Desc

Free == Scanned \ {d \in Desc : owner[d] # Nobody}

\* The k-th free descriptor in the order of alloc_desc's scan.
NthFree(k) == CHOOSE d \in Free : Cardinality({e \in Free : e < d}) = k - 1

\* alloc_desc's result stored only when it found one.
TriedStoresSuccess(p) ==
    [k \in Part |-> IF k <= Cardinality(Free) THEN NthFree(k) ELSE idx[p][k]]

\* The k-th of three calls of alloc_desc takes the k-th free descriptor, the
\* first that fails stores -1 and ends the loop: what follows keeps its value.
Tried(p) ==
    [k \in Part |->
        IF k <= Cardinality(Free)
        THEN NthFree(k)
        ELSE IF k = Cardinality(Free) + 1 THEN None ELSE idx[p][k]]

Shortage == Cardinality(Free) < 3

\* The descriptors free_desc is called for: those of an array idx that are not
\* negative.
Freed(x) == {x[k] : k \in Part} \ {None}

Release(x) ==
    /\ owner' = [d \in Desc |-> IF d \in Freed(x) THEN Nobody ELSE owner[d]]
    /\ desc' = [d \in Desc |-> IF d \in Freed(x) THEN Empty ELSE desc[d]]

-----------------------------------------------------------------------------
(***************************************************************************)
(* Sleeping and waking                                                     *)
(***************************************************************************)

\* wakeup() ignores its channel: every sleeper goes on with its loop.
Woken(at) == [p \in Procs |-> CASE at[p] = "start_asleep" -> "start"
                                [] at[p] = "wait_asleep" -> "wait"
                                [] OTHER -> at[p]]

\* The rest of sleep(): SLEEPING, scheduler().
FallAsleep(p) ==
    /\ pc[p] \in {"start_presleep", "wait_presleep"}
    /\ pc' = [pc EXCEPT ![p] = IF @ = "wait_presleep" THEN "wait_asleep"
                                                      ELSE "start_asleep"]
    /\ UNCHANGED <<ring, idx, valid, device>>

\* A wakeup() elsewhere in the kernel, on any channel.
OtherWakeup ==
    /\ Woken(pc) # pc
    /\ pc' = Woken(pc)
    /\ UNCHANGED <<ring, idx, valid, device>>

-----------------------------------------------------------------------------
(***************************************************************************)
(* virtio_disk_rw                                                          *)
(***************************************************************************)

\* A call: the local idx is not initialised.
Call(p) ==
    /\ pc[p] = "idle"
    /\ \E g \in Desc \cup {None} : idx' = [idx EXCEPT ![p] = [k \in Part |-> g]]
    /\ pc' = [pc EXCEPT ![p] = "start"]
    /\ UNCHANGED <<ring, valid, device>>

InvalidatedNever(p) == valid

\* The buffers with B_VALID once p's is submitted.
Invalidated(p) == valid \ {p}

\* Three descriptors are there: chain them, submit the head, notify.
Submit(p) ==
    /\ pc[p] = "start" /\ ~ Shortage
    /\ LET x == Tried(p)
       IN  /\ idx' = [idx EXCEPT ![p] = x]
           /\ owner' = [d \in Desc |-> IF \E k \in Part : x[k] = d THEN p ELSE owner[d]]
           /\ desc' = [d \in Desc |->
                         IF \E k \in Part : x[k] = d
                         THEN LET k == CHOOSE j \in Part : x[j] = d
                              IN  [proc |-> p, part |-> k,
                                   next |-> IF k < 3 THEN x[k + 1] ELSE 0]
                         ELSE desc[d]]
           /\ avail' = Append(avail, x[1])
    /\ valid' = Invalidated(p)
    /\ moved' = moved \ {p}
    /\ pc' = [pc EXCEPT ![p] = "wait"]
    /\ UNCHANGED <<working, used>>

\* They are not: give back what idx names, and sleep.
SubmitWaits(p) ==
    /\ pc[p] = "start" /\ Shortage
    /\ LET x == Tried(p)
       IN  /\ idx' = [idx EXCEPT ![p] = x]
           /\ Release(x)
           /\ pc' = [(IF Freed(x) = {} THEN pc ELSE Woken(pc))
                        EXCEPT ![p] = "start_presleep"]
    /\ UNCHANGED <<valid, device>>

\* The buffer is not B_VALID: sleep.
TransferWaits(p) ==
    /\ pc[p] = "wait" /\ p \notin valid
    /\ pc' = [pc EXCEPT ![p] = "wait_presleep"]
    /\ UNCHANGED <<ring, idx, valid, device>>

\* It is: give the descriptors back, which wakes those short of some, and return.
Return(p) ==
    /\ pc[p] = "wait" /\ p \in valid
    /\ Release(idx[p])
    /\ idx' = [idx EXCEPT ![p] = [k \in Part |-> None]]
    /\ pc' = Woken([pc EXCEPT ![p] = "idle"])
    /\ UNCHANGED <<valid, device>>

-----------------------------------------------------------------------------
(***************************************************************************)
(* The device, and virtio_disk_intr                                        *)
(***************************************************************************)

\* The device takes the next head.
DeviceTakes ==
    /\ avail # <<>>
    /\ working' = working \cup {Head(avail)}
    /\ avail' = Tail(avail)
    /\ UNCHANGED <<ring, idx, valid, moved, used, pc>>

\* It carries out the request the chain describes now, well or with an error,
\* and puts the head in the used ring.
DeviceDone(h) ==
    /\ h \in working
    /\ working' = working \ {h}
    /\ moved' = moved \cup ({desc[desc[h].next].proc} \ {Nobody})
    /\ used' = Append(used, h)
    /\ UNCHANGED <<ring, idx, valid, avail, pc>>

\* The heads virtio_disk_intr handles: all entries up to used.idx.
Completed == {used[i] : i \in DOMAIN used}

\* virtio_disk_intr: whatever the status byte says, the buffer is B_VALID and
\* its process woken.
Intr ==
    /\ HandlerCalled
    /\ used # <<>>
    /\ valid' = valid \cup ({owner[h] : h \in Completed} \ {Nobody})
    /\ used' = <<>>
    /\ pc' = IF \A h \in Completed : owner[h] = Nobody THEN pc ELSE Woken(pc)
    /\ UNCHANGED <<ring, idx, avail, working, moved>>

-----------------------------------------------------------------------------
Device == DeviceTakes \/ \E h \in Desc : DeviceDone(h)

Next ==
    \/ \E p \in Procs :
          \/ Call(p) \/ Submit(p) \/ SubmitWaits(p)
          \/ TransferWaits(p) \/ Return(p) \/ FallAsleep(p)
    \/ OtherWakeup
    \/ Device
    \/ Intr

Spec == Init /\ [][Next]_vars

\* The device carries out every request, and its handler, if called, runs.
FairSpec ==
    /\ Spec
    /\ WF_vars(DeviceTakes) /\ \A h \in Desc : WF_vars(DeviceDone(h))
    /\ WF_vars(Intr)

-----------------------------------------------------------------------------
(***************************************************************************)
(* Properties                                                              *)
(***************************************************************************)

\* A submitted request keeps its three descriptors, linked from header to
\* status and all its own, until its process has seen the answer: no other
\* call frees or takes one of them (alloc_desc, free_desc; the loop that gives
\* descriptors back reads elements of idx that alloc_desc never set, which is
\* harmless only because a shortage always leaves two of the ring's
\* descriptors free, 8 being 2 modulo 3).
ChainsIntact ==
    \A p \in Procs : pc[p] \in InFlight =>
        \A k \in Part :
            /\ idx[p][k] # None /\ owner[idx[p][k]] = p
            /\ desc[idx[p][k]].proc = p /\ desc[idx[p][k]].part = k
            /\ k < 3 => desc[idx[p][k]].next = idx[p][k + 1]

\* Descriptors are held by requests in flight only: none is lost by the
\* attempts that fail (free_desc).
NoneLost ==
    \A d \in Desc : owner[d] # Nobody =>
        /\ pc[owner[d]] \in InFlight
        /\ \E k \in Part : idx[owner[d]][k] = d

\* A descriptor is in a chain in flight, in its place, or free
\* (alloc_desc, free_desc, virtio_disk_rw).
DescriptorsExact == ChainsIntact /\ NoneLost

\* A call returns only when the device has carried out its own request: an
\* answer to another chain, or to an earlier use of the same head, never makes
\* the buffer B_VALID (virtio_disk_intr's info[id].b).
NoEarlyAnswer ==
    \A p \in Procs : pc[p] \in InFlight /\ p \in valid => p \in moved

-----------------------------------------------------------------------------
(***************************************************************************)
(* What the documentation says, and the driver does not do                 *)
(***************************************************************************)

\* virtio.h:18, "Gérer une interruption VirtIO (appelée depuis plic /
\* kerneltrap)": every submitted request is answered, its buffer becomes
\* B_VALID.  Nobody calls the handler (virtio_disk_rw, kerneltrap).
RequestsAnswered ==
    \A p \in Procs : pc[p] \in InFlight ~> p \in valid
=============================================================================
