-------------------------------- MODULE Log --------------------------------
(***************************************************************************)
(* The write-ahead log of kernel/fs/log.c over the block layer             *)
(* (kernel/fs/block.c) and what it needs of the buffer cache               *)
(* (kernel/fs/buffer.c): which buffers can be recycled, and when the cache *)
(* is exhausted.                                                           *)
(*                                                                         *)
(* Processes run operations concurrently.  Code between two disk transfers *)
(* or two calls of sleep() is one action: critical sections run with       *)
(* interrupts off, and a buffer is locked while it is used.  Every disk    *)
(* transfer ends an action, so that others run, or the machine crashes,    *)
(* between any two transfers.                                              *)
(***************************************************************************)
EXTENDS Integers, Sequences, FiniteSets

CONSTANTS
    Procs,          \* processes that use the file system
    Blocks,         \* blocks of the file system, outside the log area
    Vals,           \* contents of a block
    LOGSIZE,        \* log.size, as fs_init passes it: header and slots
    MAXOPBLOCKS,    \* what log_begin_op reserves for an operation
    OpWrites,       \* how many log_write calls an operation really makes
    NBUF            \* buffers in the cache

\* param.h: a log of three operations, as many buffers as log blocks.
ASSUME LogSizeAssumption ==
    /\ IsFiniteSet(Procs)
    /\ LOGSIZE \in Nat \ {0} /\ MAXOPBLOCKS \in Nat \ {0}
    /\ OpWrites \in Nat /\ NBUF \in Nat
    /\ MAXOPBLOCKS <= LOGSIZE /\ LOGSIZE <= NBUF

LogSlot == 1 .. LOGSIZE - 1       \* log blocks that follow the header block
Absent  == "absent"               \* no buffer of the cache holds the block

ASSUME AbsentAssumption == Absent \notin Vals

\* Identities of disk blocks in the cache.
HeadId   == <<"head", 0>>
LogId(i) == <<"log", i>>
Home(b)  == <<"home", b>>
BlockId  == {HeadId} \cup {LogId(i) : i \in LogSlot} \cup {Home(b) : b \in Blocks}

VARIABLES
    disk,           \* disk[b]: home location of block b
    slot,           \* slot[i]: log block i on disk
    dhead,          \* the header block on disk: sequence of block numbers
    mem,            \* mem[b]: data of the buffer caching b, or Absent
    dirty,          \* blocks whose buffer has B_DIRTY
    pinned,         \* blocks with a reference taken by buf_pin
    leaked,         \* blocks whose buffer stays locked and referenced for ever
    lh,             \* log.lh in memory: sequence of block numbers
    outstanding,    \* log.outstanding
    committing,     \* log.committing
    pc,             \* pc[p]: where process p is
    writes,         \* writes[p]: log_write calls made in the current operation
    tail,           \* loop variable of write_log and install_trans
    boot            \* stage of log_init, or "up"

stable == <<disk, slot, dhead>>
cache  == <<mem, dirty, pinned, leaked>>
counts == <<outstanding, committing, writes>>
vars   == <<disk, slot, dhead, mem, dirty, pinned, leaked, lh, outstanding,
            committing, pc, writes, tail, boot>>

\* "presleep": sleep() has released log.lock and not yet set SLEEPING.
\* "wlog" .. "done": the commit, run by the process that ended the last
\* operation.  "stuck": asleep on a buffer lock nobody will release.
Waiting    == {"begin", "presleep", "asleep"}
Committing == {"wlog", "whead", "install", "clear", "done", "stuck"}
PcSet      == {"idle", "op"} \cup Waiting \cup Committing

TypeOK ==
    /\ disk \in [Blocks -> Vals]
    /\ slot \in [LogSlot -> Vals]
    /\ dhead \in Seq(Blocks) /\ Len(dhead) < LOGSIZE
    /\ mem \in [Blocks -> Vals \cup {Absent}]
    /\ dirty \in SUBSET BlockId
    /\ pinned \in SUBSET Blocks
    /\ leaked \in SUBSET BlockId
    /\ lh \in Seq(Blocks) /\ Len(lh) < LOGSIZE
    /\ outstanding \in 0 .. Cardinality(Procs)
    /\ committing \in BOOLEAN
    /\ pc \in [Procs -> PcSet]
    /\ writes \in [Procs -> 0 .. OpWrites]
    /\ tail \in 1 .. LOGSIZE
    /\ boot \in {"up", "readhead", "install", "clear"}

-----------------------------------------------------------------------------
(***************************************************************************)
(* The buffer cache                                                        *)
(***************************************************************************)

\* Buffers buf_get cannot recycle: referenced, or B_DIRTY, which block_write
\* sets and nothing clears.
InUse == dirty \cup {Home(b) : b \in pinned} \cup leaked

\* buf_get of a block succeeds when it is in the cache or a buffer can be
\* recycled; the buffers in busy are referenced by the caller itself.
CanGet(busy, id) ==
    \/ id \in InUse \cup busy
    \/ Cardinality(InUse \cup busy) < NBUF

\* A buffer whose lock is never released: whoever asks for it sleeps for ever.
Locked(id) == id \in leaked

\* The data block_read returns for a home block.
Data(b) == IF mem[b] = Absent THEN disk[b] ELSE mem[b]

\* A clean, unreferenced buffer is recycled for another block.
Evict(b) ==
    /\ mem[b] # Absent
    /\ Home(b) \notin InUse
    /\ mem' = [mem EXCEPT ![b] = Absent]
    /\ UNCHANGED <<stable, dirty, pinned, leaked, lh, counts, pc, tail, boot>>

\* Some process reads a block: block_read, block_release.
Load(b) ==
    /\ boot = "up"
    /\ mem[b] = Absent
    /\ CanGet({}, Home(b)) /\ ~ Locked(Home(b))
    /\ mem' = [mem EXCEPT ![b] = disk[b]]
    /\ UNCHANGED <<stable, dirty, pinned, leaked, lh, counts, pc, tail, boot>>

-----------------------------------------------------------------------------
(***************************************************************************)
(* Operations: log_begin_op, log_write, log_end_op                         *)
(***************************************************************************)

HasRoomOffByOne == Len(lh) + outstanding * MAXOPBLOCKS <= LOGSIZE

\* log_begin_op's test: one more operation of MAXOPBLOCKS blocks fits.
HasRoom == Len(lh) + (outstanding + 1) * MAXOPBLOCKS <= LOGSIZE

MayEnterDuringCommit == HasRoom

\* log_begin_op enters when neither of its reasons to sleep holds.
MayEnter == ~ committing /\ HasRoom

\* wakeup() ignores its channel: every sleeping process tests again.
Woken(at) == [p \in Procs |-> IF at[p] = "asleep" THEN "begin" ELSE at[p]]

\* log_begin_op enters.
Begin(p) ==
    /\ boot = "up"
    /\ pc[p] \in {"idle", "begin"}
    /\ MayEnter
    /\ outstanding' = outstanding + 1
    /\ pc' = [pc EXCEPT ![p] = "op"]
    /\ writes' = [writes EXCEPT ![p] = 0]
    /\ UNCHANGED <<stable, cache, lh, committing, tail, boot>>

\* log_begin_op finds a commit in progress or no room, and calls sleep(),
\* which releases log.lock first.
BeginWaits(p) ==
    /\ boot = "up"
    /\ pc[p] \in {"idle", "begin"}
    /\ ~ MayEnter
    /\ pc' = [pc EXCEPT ![p] = "presleep"]
    /\ UNCHANGED <<stable, cache, lh, counts, tail, boot>>

\* The rest of sleep(): SLEEPING, scheduler().
FallAsleep(p) ==
    /\ pc[p] = "presleep"
    /\ pc' = [pc EXCEPT ![p] = "asleep"]
    /\ UNCHANGED <<stable, cache, lh, counts, tail, boot>>

\* A wakeup() elsewhere in the kernel, on any channel.
OtherWakeup ==
    /\ \E p \in Procs : pc[p] = "asleep"
    /\ pc' = Woken(pc)
    /\ UNCHANGED <<stable, cache, lh, counts, tail, boot>>

\* log_write refuses a block when the header is full, or the log area is: its
\* first block is the header.
LogFull == Len(lh) >= LOGSIZE \/ Len(lh) >= LOGSIZE - 1

InLog(b) == \E i \in DOMAIN lh : lh[i] = b

\* log_write: absorb, or append; only an appended block is pinned.
Appends(b) == ~ LogFull /\ ~ InLog(b)
LoggedAs(b) == IF Appends(b) THEN Append(lh, b) ELSE lh

PinnedByNobody(b) == pinned
PinnedBy(b) == IF Appends(b) THEN pinned \cup {b} ELSE pinned

\* An update inside an operation: block_read, new data, log_write,
\* block_release.  The data is in the buffer even when log_write refuses.
Write(p, b, v) ==
    /\ pc[p] = "op" /\ writes[p] < OpWrites
    /\ CanGet({}, Home(b)) /\ ~ Locked(Home(b))
    /\ mem' = [mem EXCEPT ![b] = v]
    /\ lh' = LoggedAs(b)
    /\ pinned' = PinnedBy(b)
    /\ writes' = [writes EXCEPT ![p] = @ + 1]
    /\ UNCHANGED <<stable, dirty, leaked, outstanding, committing, pc, tail, boot>>

\* log_end_op with other operations open: wake those that wait for room.
EndNotLast(p) ==
    /\ pc[p] = "op" /\ outstanding > 1
    /\ outstanding' = outstanding - 1
    /\ pc' = Woken([pc EXCEPT ![p] = "idle"])
    /\ UNCHANGED <<stable, cache, lh, committing, writes, tail, boot>>

FirstStageHeadFirst == IF lh = <<>> THEN "done" ELSE "whead"

\* commit() starts with write_log; with an empty header it does nothing.
FirstStage == IF lh = <<>> THEN "done" ELSE "wlog"

\* log_end_op of the last operation: commit() follows.
EndLast(p) ==
    /\ pc[p] = "op" /\ outstanding = 1
    /\ outstanding' = 0
    /\ committing' = TRUE
    /\ pc' = [pc EXCEPT ![p] = FirstStage]
    /\ tail' = 1
    /\ UNCHANGED <<stable, cache, lh, writes, boot>>

-----------------------------------------------------------------------------
(***************************************************************************)
(* commit                                                                  *)
(***************************************************************************)

\* A turn of write_log or install_trans asks for the log block, then for the
\* home block.
SecondId(i) == Home(lh[i])

GotFirst(i)  == CanGet({}, LogId(i))
GotSecond(i) == CanGet(IF GotFirst(i) THEN {LogId(i)} ELSE {}, SecondId(i))
GotBoth(i)   == GotFirst(i) /\ GotSecond(i)
Blocked(i)   == Locked(LogId(i)) \/ Locked(SecondId(i))

\* When only one of the two was obtained, the turn is abandoned by `continue`
\* and the other stays locked and referenced.
LeakedAt(i) ==
    leaked \cup (IF ~ GotBoth(i) /\ GotFirst(i) THEN {LogId(i)} ELSE {})
           \cup (IF ~ GotBoth(i) /\ GotSecond(i) THEN {SecondId(i)} ELSE {})

NextTurnNoHeader(i, same, next) ==
    [stage |-> IF i < Len(lh) THEN same
               ELSE IF next = "whead" THEN "install" ELSE next,
     tail  |-> IF i = Len(lh) THEN 1 ELSE i + 1]

\* After the last turn of the loop the next function starts from the top.
NextTurn(i, same, next) ==
    [stage |-> IF i = Len(lh) THEN next ELSE same,
     tail  |-> IF i = Len(lh) THEN 1 ELSE i + 1]

\* commit asks for a buffer that is locked for ever.
Stuck(p) ==
    /\ pc[p] \in {"wlog", "install"}
    /\ Blocked(tail)
    /\ pc' = [pc EXCEPT ![p] = "stuck"]
    /\ UNCHANGED <<stable, cache, lh, counts, tail, boot>>

\* One turn of write_log.
WriteLog(p) ==
    /\ pc[p] = "wlog" /\ ~ Blocked(tail)
    /\ IF GotBoth(tail)
       THEN /\ slot' = [slot EXCEPT ![tail] = Data(lh[tail])]
            /\ mem' = [mem EXCEPT ![lh[tail]] = Data(lh[tail])]
            /\ dirty' = dirty \cup {LogId(tail)}
       ELSE UNCHANGED <<slot, mem, dirty>>
    /\ leaked' = LeakedAt(tail)
    /\ pc' = [pc EXCEPT ![p] = NextTurn(tail, "wlog", "whead").stage]
    /\ tail' = NextTurn(tail, "wlog", "whead").tail
    /\ UNCHANGED <<disk, dhead, pinned, lh, counts, boot>>

\* write_head stores a header, unless its buffer cannot be had.
HeadWritten(h) ==
    IF CanGet({}, HeadId)
    THEN dhead' = h /\ dirty' = dirty \cup {HeadId}
    ELSE UNCHANGED <<dhead, dirty>>

\* write_head with the transaction: from here on it is durable.
WriteHead(p) ==
    /\ pc[p] = "whead"
    /\ HeadWritten(lh)
    /\ pc' = [pc EXCEPT ![p] = "install"]
    /\ tail' = 1
    /\ UNCHANGED <<disk, slot, mem, pinned, leaked, lh, counts, boot>>

\* One turn of install_trans: the log block is copied to its home.
InstallTurn(i, unpinned) ==
    /\ IF GotBoth(i)
       THEN /\ disk' = [disk EXCEPT ![lh[i]] = slot[i]]
            /\ mem' = [mem EXCEPT ![lh[i]] = slot[i]]
            /\ dirty' = dirty \cup {SecondId(i)}
            /\ pinned' = pinned \ unpinned
       ELSE UNCHANGED <<disk, mem, dirty, pinned>>
    /\ leaked' = LeakedAt(i)

Install(p) ==
    /\ pc[p] = "install" /\ ~ Blocked(tail)
    /\ InstallTurn(tail, {lh[tail]})
    /\ pc' = [pc EXCEPT ![p] = NextTurn(tail, "install", "clear").stage]
    /\ tail' = NextTurn(tail, "install", "clear").tail
    /\ UNCHANGED <<slot, dhead, lh, counts, boot>>

\* lh.n = 0, and write_head again.
Clear(p) ==
    /\ pc[p] = "clear"
    /\ lh' = <<>>
    /\ HeadWritten(<<>>)
    /\ pc' = [pc EXCEPT ![p] = "done"]
    /\ UNCHANGED <<disk, slot, mem, pinned, leaked, counts, tail, boot>>

\* The end of log_end_op: operations may start again.
Finish(p) ==
    /\ pc[p] = "done"
    /\ committing' = FALSE
    /\ pc' = Woken([pc EXCEPT ![p] = "idle"])
    /\ UNCHANGED <<stable, cache, lh, outstanding, writes, tail, boot>>

CommitStep(p) ==
    \/ WriteLog(p) \/ WriteHead(p) \/ Install(p) \/ Clear(p) \/ Finish(p)

-----------------------------------------------------------------------------
(***************************************************************************)
(* Crash, and recovery by log_init                                         *)
(***************************************************************************)

\* A crash at any moment; memory starts afresh and log_init runs.
Crash ==
    /\ mem' = [b \in Blocks |-> Absent]
    /\ dirty' = {} /\ pinned' = {} /\ leaked' = {}
    /\ lh' = <<>> /\ outstanding' = 0 /\ committing' = FALSE
    /\ pc' = [p \in Procs |-> "idle"]
    /\ writes' = [p \in Procs |-> 0]
    /\ tail' = 1
    /\ boot' = "readhead"
    /\ UNCHANGED stable

\* read_head
RecoverReadHead ==
    /\ boot = "readhead"
    /\ lh' = dhead
    /\ boot' = IF dhead = <<>> THEN "clear" ELSE "install"
    /\ UNCHANGED <<stable, cache, counts, pc, tail>>

\* One turn of install_trans(1): nothing was pinned.
RecoverInstall ==
    /\ boot = "install"
    /\ InstallTurn(tail, {})
    /\ boot' = NextTurn(tail, "install", "clear").stage
    /\ tail' = NextTurn(tail, "install", "clear").tail
    /\ UNCHANGED <<slot, dhead, lh, counts, pc>>

\* lh.n = 0, write_head; the system is up.
RecoverClear ==
    /\ boot = "clear"
    /\ lh' = <<>>
    /\ HeadWritten(<<>>)
    /\ boot' = "up"
    /\ UNCHANGED <<disk, slot, mem, pinned, leaked, counts, pc, tail>>

Recover == RecoverReadHead \/ RecoverInstall \/ RecoverClear

\* A disk with an empty log, and memory as after a crash.
Init ==
    /\ \E v \in Vals : disk = [b \in Blocks |-> v] /\ slot = [i \in LogSlot |-> v]
    /\ dhead = <<>>
    /\ mem = [b \in Blocks |-> Absent]
    /\ dirty = {} /\ pinned = {} /\ leaked = {}
    /\ lh = <<>> /\ outstanding = 0 /\ committing = FALSE
    /\ pc = [p \in Procs |-> "idle"]
    /\ writes = [p \in Procs |-> 0]
    /\ tail = 1
    /\ boot = "readhead"

ProcStep(p) ==
    \/ Begin(p) \/ BeginWaits(p) \/ FallAsleep(p)
    \/ \E b \in Blocks, v \in Vals : Write(p, b, v)
    \/ EndNotLast(p) \/ EndLast(p)
    \/ CommitStep(p)

Next ==
    \/ \E p \in Procs : ProcStep(p) \/ Stuck(p)
    \/ \E b \in Blocks : Evict(b) \/ Load(b)
    \/ OtherWakeup
    \/ Crash
    \/ Recover

Spec == Init /\ [][Next]_vars

-----------------------------------------------------------------------------
(***************************************************************************)
(* Properties                                                              *)
(***************************************************************************)

\* What the disk holds once the log, if its header names blocks, is replayed.
Recovered ==
    [b \in Blocks |-> IF \E i \in DOMAIN dhead : dhead[i] = b
                      THEN slot[CHOOSE i \in DOMAIN dhead : dhead[i] = b]
                      ELSE disk[b]]

\* log.h:4, "une transaction est soit complete, soit absente du disque": the
\* log implements the atomic disk.  The header write of commit is its Commit.
Atomic == INSTANCE AtomicDisk WITH
    durable <- Recovered,
    pending <- IF boot = "up" THEN [b \in Blocks |-> Data(b)] ELSE Recovered,
    open    <- {p \in Procs : pc[p] = "op"}

AtomicTransactions == Atomic!Spec

\* log.h:5, "Toute ecriture sur le systeme de fichiers passe par le log": a
\* home block changes only while the header on disk names it, with what its
\* log block holds, even when the cache is exhausted and operations overrun
\* their reservation (install_trans after write_head).
WriteAhead ==
    [][\A b \in Blocks : disk'[b] # disk[b] =>
           \E i \in DOMAIN dhead : dhead[i] = b /\ disk'[b] = slot[i]]_vars

\* While a commit runs nobody is inside an operation and only one process
\* commits (log_begin_op waits, log_end_op's last operation commits).
CommitIsAlone ==
    /\ outstanding = Cardinality({p \in Procs : pc[p] = "op"})
    /\ committing <=> \E p \in Procs : pc[p] \in Committing
    /\ committing => outstanding = 0
    /\ \A p, q \in Procs : pc[p] \in Committing /\ pc[q] \in Committing => p = q

\* The log_write calls that open operations may still make.
Owed == Cardinality({x \in Procs \X (1 .. OpWrites) : pc[x[1]] = "op" /\ x[2] > writes[x[1]]})

\* What log_begin_op admits fits in the log: every log_write an open operation
\* may still make finds a free entry in the header, whatever the others write.
AdmittedFits ==
    boot = "up" => Len(lh) + Owed <= LOGSIZE - 1

\* A block in the log stays in the cache until its home is written: buf_pin in
\* log_write, buf_unpin in install_trans.  Between commits nothing is pinned.
PinnedExactlyLogged ==
    boot = "up" =>
        /\ \A b \in Blocks : InLog(b) /\ ~ (\E p \in Procs : pc[p] \in {"install", "clear"})
               => b \in pinned
        /\ lh = <<>> => pinned = {}
=============================================================================
