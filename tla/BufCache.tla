------------------------------ MODULE BufCache ------------------------------
(***************************************************************************)
(* The buffer cache of kernel/fs/buffer.c, the sleeplock of every buffer   *)
(* (kernel/fs/sleeplock.c) and the block layer over both                   *)
(* (kernel/fs/block.c), used by concurrent processes in the three ways the *)
(* file system has: reading a block, updating one through log_write, which *)
(* pins it, and writing one to disk.                                       *)
(*                                                                         *)
(* Code under bcache.lock or under a sleeplock's spinlock is one action.   *)
(* buf_get and buf_release are not: other processes run between the part   *)
(* under bcache.lock and the part under the sleeplock, and during every    *)
(* disk transfer.  A buf_get that finds no buffer changes nothing itself;  *)
(* what the loops of log.c then leave behind is SkipTurn.  That a commit   *)
(* runs with no operation open, and copies every logged block before it    *)
(* installs one, is taken from the module Log.                             *)
(***************************************************************************)
EXTENDS Integers, Sequences, FiniteSets

CONSTANTS
    Procs,          \* processes that use the file system
    Blocks,         \* blocks of the disk
    Vals,           \* contents of a block
    NBUF            \* buffers in the cache

ASSUME NbufAssumption == NBUF \in Nat \ {0}

Buf == 1 .. NBUF

CONSTANTS NoBlock, Nobody, NoCopy       \* what is no block, no process, no contents

ASSUME NoneAssumption == NoBlock \notin Blocks /\ Nobody \notin Procs /\ NoCopy \notin Vals

NoBuf == 0                      \* the NULL struct buf *

VARIABLES
    id,             \* id[b]: block (dev, blockno) of buffer b
    valid,          \* buffers with B_VALID
    dirty,          \* buffers with B_DIRTY
    refcnt,         \* refcnt[b]: b->refcnt
    holder,         \* holder[b]: process in b->lock, or Nobody
    data,           \* data[b]: b->data
    lru,            \* the list from head.next to head.prev
    pinned,         \* buffers the log has pinned
    copy,           \* copy[b]: the log block of b's block, from the turn of
                    \*   write_log for it to the end of that of install_trans
    left,           \* buffers a turn of a commit left locked and referenced
    unlogged,       \* buffers whose last change log_write refused (history)
    disk,           \* contents of the disk
    pc,             \* pc[p]: where process p is
    want,           \* want[p]: block it asked for
    buf             \* buf[p]: buffer it has a reference to

vars == <<id, valid, dirty, refcnt, holder, data, lru, pinned, copy, left, unlogged,
          disk, pc, want, buf>>

flags == <<valid, dirty>>
mine  == <<want, buf>>
log   == <<pinned, copy, left, unlogged>>

\* "lock": in sleeplock_acquire, about to test; "presleep": sleep() has
\* released the spinlock and not yet set SLEEPING.  "use": block_read has
\* returned.  "unref": buf_release between its two locks.
Holding   == {"reading", "use", "writing", "installing"}
Acquiring == {"lock", "presleep", "asleep"}

TypeOK ==
    /\ id \in [Buf -> Blocks \cup {NoBlock}]
    /\ valid \in SUBSET Buf /\ dirty \in SUBSET Buf /\ pinned \in SUBSET Buf
    /\ left \in SUBSET Buf /\ unlogged \in SUBSET Buf
    /\ copy \in [Buf -> Vals \cup {NoCopy}]
    /\ refcnt \in [Buf -> Nat]
    /\ holder \in [Buf -> Procs \cup {Nobody}]
    /\ data \in [Buf -> Vals]
    /\ lru \in [Buf -> Buf] /\ \A i, j \in Buf : lru[i] = lru[j] => i = j
    /\ disk \in [Blocks -> Vals]
    /\ pc \in [Procs -> {"idle", "unref"} \cup Holding \cup Acquiring]
    /\ want \in [Procs -> Blocks \cup {NoBlock}]
    /\ buf \in [Procs -> Buf \cup {NoBuf}]

\* buf_cache_init: each buffer is linked in at the head, so that the last one
\* comes first; the buffers are zero, which is the number of no block in use.
Init ==
    /\ id = [b \in Buf |-> NoBlock]
    /\ valid = {} /\ dirty = {} /\ pinned = {}
    /\ copy = [b \in Buf |-> NoCopy] /\ left = {} /\ unlogged = {}
    /\ refcnt = [b \in Buf |-> 0]
    /\ holder = [b \in Buf |-> Nobody]
    /\ \E v \in Vals : data = [b \in Buf |-> v] /\ disk = [k \in Blocks |-> v]
    /\ lru = [i \in Buf |-> NBUF + 1 - i]
    /\ pc = [p \in Procs |-> "idle"]
    /\ want = [p \in Procs |-> NoBlock]
    /\ buf = [p \in Procs |-> NoBuf]

-----------------------------------------------------------------------------
(***************************************************************************)
(* buf_get                                                                 *)
(***************************************************************************)

CachesReferencedOnly(b, k) == id[b] = k /\ refcnt[b] > 0

\* The test of buf_get's search.
Caches(b, k) == id[b] = k

RecyclableIgnoresRefs(b) == b \notin dirty

\* The test of its second search: unreferenced and not B_DIRTY.
Recyclable(b) == refcnt[b] = 0 /\ b \notin dirty

\* The first buffer of the list that caches block k.
IsHit(b, k) ==
    \E i \in Buf : /\ lru[i] = b /\ Caches(b, k)
                   /\ \A j \in 1 .. i - 1 : ~ Caches(lru[j], k)

\* The last buffer of the list that may be recycled.
IsVictim(b) ==
    \E i \in Buf : /\ lru[i] = b /\ Recyclable(b)
                   /\ \A j \in i + 1 .. NBUF : ~ Recyclable(lru[j])

Asks(p, k, b) ==
    /\ pc[p] = "idle"
    /\ pc' = [pc EXCEPT ![p] = "lock"]
    /\ want' = [want EXCEPT ![p] = k]
    /\ buf' = [buf EXCEPT ![p] = b]

\* The block is in the cache: one more reference.
GetHit(p, k, b) ==
    /\ IsHit(b, k)
    /\ Asks(p, k, b)
    /\ refcnt' = [refcnt EXCEPT ![b] = @ + 1]
    /\ UNCHANGED <<id, flags, holder, data, lru, log, disk>>

\* It is not, and a buffer is recycled for it.
GetRecycles(p, k, b) ==
    /\ \A c \in Buf : ~ Caches(c, k)
    /\ IsVictim(b)
    /\ Asks(p, k, b)
    /\ id' = [id EXCEPT ![b] = k]
    /\ valid' = valid \ {b}
    /\ dirty' = dirty \ {b}
    /\ refcnt' = [refcnt EXCEPT ![b] = 1]
    /\ unlogged' = unlogged \ {b}
    /\ UNCHANGED <<holder, data, lru, pinned, copy, left, disk>>

-----------------------------------------------------------------------------
(***************************************************************************)
(* The sleeplock of a buffer, and block_read                               *)
(***************************************************************************)

WokenInside(at) == [p \in Procs |-> IF at[p] = "asleep" THEN "use" ELSE at[p]]

\* wakeup() ignores its channel: every sleeper tests its lock again.
Woken(at) == [p \in Procs |-> IF at[p] = "asleep" THEN "lock" ELSE at[p]]

NeedsReadAlways(b) == TRUE

\* block_read loads a buffer that is not B_VALID.
NeedsRead(b) == b \notin valid

\* The lock is free: take it; the transfer starts when one is needed.
Acquire(p) ==
    /\ pc[p] = "lock"
    /\ holder[buf[p]] = Nobody
    /\ holder' = [holder EXCEPT ![buf[p]] = p]
    /\ IF NeedsRead(buf[p])
       THEN pc' = [pc EXCEPT ![p] = "reading"] /\ valid' = valid \ {buf[p]}
       ELSE pc' = [pc EXCEPT ![p] = "use"] /\ UNCHANGED valid
    /\ UNCHANGED <<id, dirty, refcnt, data, lru, log, disk, mine>>

\* The lock is taken: sleep(), which releases the spinlock first.
AcquireWaits(p) ==
    /\ pc[p] = "lock"
    /\ holder[buf[p]] # Nobody
    /\ pc' = [pc EXCEPT ![p] = "presleep"]
    /\ UNCHANGED <<id, flags, refcnt, holder, data, lru, log, disk, mine>>

\* The rest of sleep(): SLEEPING, scheduler().
FallAsleep(p) ==
    /\ pc[p] = "presleep"
    /\ pc' = [pc EXCEPT ![p] = "asleep"]
    /\ UNCHANGED <<id, flags, refcnt, holder, data, lru, log, disk, mine>>

\* A wakeup() elsewhere in the kernel, on any channel.
OtherWakeup ==
    /\ \E p \in Procs : pc[p] = "asleep"
    /\ pc' = Woken(pc)
    /\ UNCHANGED <<id, flags, refcnt, holder, data, lru, log, disk, mine>>

\* The disk has delivered the block; its interrupt wakes every sleeper.
ReadDone(p) ==
    /\ pc[p] = "reading"
    /\ data' = [data EXCEPT ![buf[p]] = disk[id[buf[p]]]]
    /\ valid' = valid \cup {buf[p]}
    /\ pc' = Woken([pc EXCEPT ![p] = "use"])
    /\ UNCHANGED <<id, dirty, refcnt, holder, lru, log, disk, mine>>

-----------------------------------------------------------------------------
(***************************************************************************)
(* What a process does with a buffer it holds                              *)
(***************************************************************************)

PinsAlways(b) == 1

\* References log_write adds: buf_pin for a block that is not in the log yet.
Pins(b) == IF b \in pinned THEN 0 ELSE 1

\* log_write takes the block.
LogTakes(b) ==
    /\ refcnt' = [refcnt EXCEPT ![b] = @ + Pins(b)]
    /\ pinned' = pinned \cup {b}
    /\ unlogged' = unlogged \ {b}

\* log_write finds the log full and returns: the block is neither logged nor
\* pinned, unless it was before.  (Its other refusal, outside an operation, is
\* met by no caller.)
LogRefuses(b) ==
    /\ unlogged' = unlogged \cup ({b} \ pinned)
    /\ UNCHANGED <<refcnt, pinned>>

\* A commit has copied blocks it has not yet installed.
Committing == \E b \in Buf : copy[b] # NoCopy

\* New contents, inside an operation, and log_write.
Update(p, v) ==
    /\ pc[p] = "use" /\ ~ Committing
    /\ data' = [data EXCEPT ![buf[p]] = v]
    /\ LogTakes(buf[p]) \/ LogRefuses(buf[p])
    /\ UNCHANGED <<id, flags, holder, lru, copy, left, disk, pc, mine>>

\* sleeplock_held, for the running process: without it block_write and
\* buf_release return at once.
HeldBy(p) == holder[buf[p]] = p

\* block_write: B_DIRTY, and a transfer, which clears B_VALID until it ends.
StartsWrite(p, stage) ==
    /\ HeldBy(p)
    /\ dirty' = dirty \cup {buf[p]}
    /\ valid' = valid \ {buf[p]}
    /\ pc' = [pc EXCEPT ![p] = stage]

\* New contents for a block that is not in the log (a log block, the header),
\* and block_write.
WriteThrough(p, v) ==
    /\ pc[p] = "use" /\ buf[p] \notin pinned
    /\ StartsWrite(p, "writing")
    /\ data' = [data EXCEPT ![buf[p]] = v]
    /\ unlogged' = unlogged \ {buf[p]}
    /\ UNCHANGED <<id, refcnt, holder, lru, pinned, copy, left, disk, mine>>

\* A turn of write_log: the block is copied to its log block.
CopyToLog(p) ==
    /\ pc[p] = "use" /\ buf[p] \in pinned
    /\ copy[buf[p]] = NoCopy
    /\ copy' = [copy EXCEPT ![buf[p]] = data[buf[p]]]
    /\ UNCHANGED <<id, flags, refcnt, holder, data, lru, pinned, left, unlogged, disk, pc, mine>>

\* buf_get has no buffer for some block.
Exhausted ==
    /\ \A b \in Buf : ~ Recyclable(b)
    /\ \E k \in Blocks : \A b \in Buf : ~ Caches(b, k)

\* A turn of write_log or install_trans that cannot have the log block is given
\* up by `continue`: the logged block's buffer stays locked, referenced and
\* pinned.
SkipTurn(p) ==
    /\ pc[p] = "use" /\ buf[p] \in pinned
    /\ Exhausted
    /\ left' = left \cup {buf[p]}
    /\ copy' = [copy EXCEPT ![buf[p]] = NoCopy]
    /\ pc' = [pc EXCEPT ![p] = "idle"]
    /\ buf' = [buf EXCEPT ![p] = NoBuf]
    /\ want' = [want EXCEPT ![p] = NoBlock]
    /\ UNCHANGED <<id, flags, refcnt, holder, data, lru, pinned, unlogged, disk>>

\* A turn of install_trans, after the last of write_log: the log block is
\* copied to the block's buffer, which is written.
Install(p) ==
    /\ pc[p] = "use" /\ buf[p] \in pinned
    /\ \A b \in pinned \ left : copy[b] # NoCopy
    /\ copy[buf[p]] # NoCopy
    /\ StartsWrite(p, "installing")
    /\ data' = [data EXCEPT ![buf[p]] = copy[buf[p]]]
    /\ UNCHANGED <<id, refcnt, holder, lru, log, disk, mine>>

\* The disk has taken the block; install_trans then unpins it.
WriteDone(p) ==
    /\ pc[p] \in {"writing", "installing"}
    /\ disk' = [disk EXCEPT ![id[buf[p]]] = data[buf[p]]]
    /\ valid' = valid \cup {buf[p]}
    /\ IF pc[p] = "installing"
       THEN /\ pinned' = pinned \ {buf[p]}
            /\ copy' = [copy EXCEPT ![buf[p]] = NoCopy]
            /\ refcnt' = [refcnt EXCEPT ![buf[p]] = @ - 1]
       ELSE UNCHANGED <<pinned, copy, refcnt>>
    /\ pc' = Woken([pc EXCEPT ![p] = "use"])
    /\ UNCHANGED <<id, dirty, holder, data, lru, left, unlogged, mine>>

-----------------------------------------------------------------------------
(***************************************************************************)
(* buf_release                                                             *)
(***************************************************************************)

\* sleeplock_release: free the lock and wake its sleepers.
Unlock(p) ==
    /\ pc[p] = "use"
    /\ HeldBy(p)
    /\ holder' = [holder EXCEPT ![buf[p]] = Nobody]
    /\ pc' = Woken([pc EXCEPT ![p] = "unref"])
    /\ UNCHANGED <<id, flags, refcnt, data, lru, log, disk, mine>>

\* The list with b taken out and put at its head.
AtHead(b) == <<b>> \o SelectSeq(lru, LAMBDA c : c # b)

\* Under bcache.lock: drop the reference; the last one moves the buffer.
Unref(p) ==
    /\ pc[p] = "unref"
    /\ refcnt' = [refcnt EXCEPT ![buf[p]] = @ - 1]
    /\ lru' = IF refcnt[buf[p]] = 1 THEN AtHead(buf[p]) ELSE lru
    /\ pc' = [pc EXCEPT ![p] = "idle"]
    /\ buf' = [buf EXCEPT ![p] = NoBuf]
    /\ want' = [want EXCEPT ![p] = NoBlock]
    /\ UNCHANGED <<id, flags, holder, data, log, disk>>

-----------------------------------------------------------------------------
Next ==
    \/ \E p \in Procs :
          \/ \E k \in Blocks, b \in Buf : GetHit(p, k, b) \/ GetRecycles(p, k, b)
          \/ Acquire(p) \/ AcquireWaits(p) \/ FallAsleep(p)
          \/ ReadDone(p) \/ WriteDone(p)
          \/ \E v \in Vals : Update(p, v) \/ WriteThrough(p, v)
          \/ CopyToLog(p) \/ SkipTurn(p) \/ Install(p)
          \/ Unlock(p) \/ Unref(p)
    \/ OtherWakeup

Spec == Init /\ [][Next]_vars

-----------------------------------------------------------------------------
(***************************************************************************)
(* Properties                                                              *)
(***************************************************************************)

\* A block is never in two buffers: otherwise two processes could hold two
\* copies of it, each behind its own lock (buf_get's search and recycling).
OneCopy ==
    \A b, c \in Buf : id[b] = id[c] /\ id[b] # NoBlock => b = c

\* buffer.c:7, "Un buf avec refcnt > 0 ne peut pas etre evince du cache":
\* however long a process slept on the buffer's lock, what it gets is the block
\* it asked for, loaded (buf_get, sleeplock_acquire, block_read).
GetsWhatItAsked ==
    \A p \in Procs :
        /\ pc[p] # "idle" => id[buf[p]] = want[p]
        /\ pc[p] = "use" => buf[p] \in valid

\* One process at a time is inside a buffer, and it is the one the lock names:
\* no process that wakes up walks in without the lock, and no block_write or
\* buf_release is refused (sleeplock_acquire, sleeplock_held).
Exclusive ==
    \A p \in Procs : pc[p] \in Holding => holder[buf[p]] = p

\* References no process has: the log's pin, and that of a turn given up.
LogRefs(b) == (IF b \in pinned THEN 1 ELSE 0) + (IF b \in left THEN 1 ELSE 0)

\* The count of each buffer is the processes that hold or wait for it and those
\* of the log, over any order of hits, absorbed log writes and releases: one too
\* few recycles a buffer in use, one too many loses it (buf_get, buf_release,
\* buf_pin, buf_unpin).
RefsCounted ==
    \A b \in Buf : refcnt[b] = Cardinality({p \in Procs : buf[p] = b}) + LogRefs(b)

\* What a process that reads block k now would find.
InBuffer(b) ==
    b \in valid \/ \E p \in Procs : buf[p] = b /\ pc[p] \in {"writing", "installing"}
Current(k) ==
    IF \E b \in Buf : id[b] = k /\ InBuffer(b)
    THEN data[CHOOSE b \in Buf : id[b] = k /\ InBuffer(b)]
    ELSE disk[k]

\* The contents of a block change only by a write of the process that holds
\* it, or go back to what the disk has when log_write refused the last such
\* write: recycling, reloading and installing never bring older contents of a
\* block back, though logged ones are newer in the cache than on disk
\* (Recyclable, block_read, log_write, write_log and install_trans).
NothingReverts ==
    [][\A k \in Blocks : Current(k)' # Current(k) =>
           \/ \E p \in Procs : /\ pc[p] = "use" /\ want[p] = k
                               /\ data'[buf[p]] = Current(k)'
           \/ \E b \in unlogged : id[b] = k /\ Current(k)' = disk[k]]_vars
=============================================================================
