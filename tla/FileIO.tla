------------------------------- MODULE FileIO -------------------------------
(***************************************************************************)
(* Reading and writing open files of one inode: file_read and file_write   *)
(* of kernel/fs/file.c, with the block loops of inode_read and inode_write *)
(* (kernel/fs/inode.c) and the admission of log_begin_op.                  *)
(*                                                                         *)
(* Several processes use several open files of the inode, each with its    *)
(* offset, and share some.  One turn of a block loop is an action: the     *)
(* block may not be had (block_read returns NULL), and others run between  *)
(* two blocks.  The inode is in the cache and valid (Inode), what the log  *)
(* does with its blocks is Log's concern, and no block is allocated, as in *)
(* the code.                                                               *)
(*                                                                         *)
(* A file may be longer than its direct blocks.  The code knows nothing of *)
(* the indirect block: it takes the last element of addrs for one more     *)
(* block of data, and what lies behind the array for the numbers of the    *)
(* next ones.                                                              *)
(***************************************************************************)
EXTENDS Integers, Sequences, FiniteSetsExt

CONSTANTS
    Procs,          \* processes that read and write
    Nobody,         \* what is no process
    File,           \* open files of the inode, readable and writable
    BSIZE,          \* bytes in a block
    NDIRECT,        \* the inode's addrs has elements 0 .. NDIRECT
    NINDIRECT,      \* blocks the file-size limit adds
    MAXOPBLOCKS,    \* what log_begin_op reserves for an operation
    LOGSIZE,        \* blocks in the log
    Width,          \* values of a uint32
    Sizes,          \* bytes in the file at the start, up to the file-size limit
    Count,          \* values of the callers' n, negative ones included
    MaxCalls,       \* bound on the calls made
    MaxFails        \* bound on the blocks that cannot be had

ASSUME FileIOAssumption ==
    /\ BSIZE \in Nat \ {0} /\ NDIRECT \in Nat /\ NINDIRECT \in Nat
    /\ MAXOPBLOCKS \in Nat /\ MAXOPBLOCKS >= 6 /\ LOGSIZE >= MAXOPBLOCKS
    /\ Width \in Nat \ {0} /\ Count \subseteq Int /\ MaxCalls \in Nat /\ MaxFails \in Nat
    /\ Sizes \subseteq 0 .. (NDIRECT + NINDIRECT) * BSIZE
    /\ Nobody \notin Procs

MAXFILE == NDIRECT + NINDIRECT
Pos     == 0 .. MAXFILE * BSIZE - 1      \* positions in the file
IBlock  == -1                            \* the block of the dinode

VARIABLES
    data,           \* data[x]: byte at position x, in the block addrs gives for it
    size,           \* ip->size
    blocks,         \* addrs[bn] # 0 exactly for bn < blocks, inside the array
    holder,         \* the process in the inode's lock, or Nobody
    off,            \* off[f]: the file's offset
    outstanding,    \* log.outstanding
    lh,             \* blocks in the log's header
    at,             \* at[p]: where p is
    call,           \* call[p]: its file, its n, and n1 and i of file_write
    tot,            \* tot[p]: bytes moved by its inode_read or inode_write
    logged,         \* logged[p]: blocks p has logged since its log_begin_op
    got,            \* got[p]: what its file_read has copied
    calls,          \* calls made so far
    fails           \* how often block_read has returned NULL

vars == <<data, size, blocks, holder, off, outstanding, lh, at, call, tot, logged, got, calls, fails>>

\* "begin": in log_begin_op.  "wlock", "rlock": in inode_lock.  "write",
\* "read": in the block loop.  "update": in inode_update.  "wend", "rend": the
\* inode is still locked.  "log_end": in log_end_op.
AtSet == {"idle", "begin", "wlock", "write", "update", "wend", "log_end",
          "rlock", "read", "rend"}

NoCall == [f |-> Nobody, n |-> 0, n1 |-> 0, i |-> 0]

TypeOK ==
    /\ DOMAIN data = Pos
    /\ size \in 0 .. MAXFILE * BSIZE
    /\ blocks \in 0 .. NDIRECT + 1
    /\ holder \in Procs \cup {Nobody}
    /\ off \in [File -> 0 .. MAXFILE * BSIZE]
    /\ outstanding \in 0 .. Cardinality(Procs)
    /\ at \in [Procs -> AtSet]
    /\ tot \in [Procs -> -1 .. MAXFILE * BSIZE]

\* A file of one of the sizes: as many direct blocks as it needs, and the
\* indirect block when they are not enough.
Init ==
    /\ data = [x \in Pos |-> <<Nobody, x + 1>>]
    /\ size \in Sizes
    /\ blocks = Min({(size + BSIZE - 1) \div BSIZE, NDIRECT + 1})
    /\ holder = Nobody
    /\ off = [f \in File |-> 0]
    /\ outstanding = 0 /\ lh = {}
    /\ at = [p \in Procs |-> "idle"]
    /\ call = [p \in Procs |-> NoCall]
    /\ tot = [p \in Procs |-> 0]
    /\ logged = [p \in Procs |-> {}]
    /\ got = [p \in Procs |-> <<>>]
    /\ calls = 0 /\ fails = 0

file  == <<data, size, blocks>>          \* the inode and its blocks
log   == <<outstanding, lh, logged>>
moves == <<tot, got>>
limits == <<calls, fails>>

Goes(p, there) == at' = [at EXCEPT ![p] = there]

\* (uint32)n, and uint32 addition.
U32(n)     == n % Width
Plus(x, y) == (x + y) % Width

OffsetOf(p)  == off[call[p].f]
Here(p)      == OffsetOf(p) + tot[p]         \* off inside the block loop
BlockNo(p)   == Here(p) \div BSIZE

\* Bytes of this turn: up to the end of the block, and of the request.
Turn(p, n) == Min({BSIZE - (Here(p) % BSIZE), n - tot[p]})

-----------------------------------------------------------------------------
(***************************************************************************)
(* file_write and inode_write                                              *)
(***************************************************************************)

ChunkOfWholeLog == MAXOPBLOCKS * BSIZE

\* file_write's max: what one transaction takes.
Chunk == ((MAXOPBLOCKS - 1 - 1 - 2) \div 2) * BSIZE

NextChunk(n, i) == Min({n - i, Chunk})

\* file_write; with n <= 0 its loop does not run.
StartWrite(p, f, n) ==
    /\ at[p] = "idle" /\ n > 0
    /\ calls < MaxCalls /\ calls' = calls + 1
    /\ call' = [call EXCEPT ![p] = [f |-> f, n |-> n, n1 |-> NextChunk(n, 0), i |-> 0]]
    /\ Goes(p, "begin")
    /\ UNCHANGED <<file, log, moves, holder, off, fails>>

\* log_begin_op, when the log has room for one more operation.
BeginOp(p) ==
    /\ at[p] = "begin"
    /\ Cardinality(lh) + (outstanding + 1) * MAXOPBLOCKS <= LOGSIZE
    /\ outstanding' = outstanding + 1
    /\ Goes(p, "wlock")
    /\ UNCHANGED <<file, moves, limits, holder, off, lh, logged, call>>

\* The two tests at the top of inode_write.
WriteRefused(o, n1) ==
    o > size \/ Plus(o, n1) < o \/ Plus(o, n1) > MAXFILE * BSIZE

\* inode_lock, and inode_write up to its loop.
LockToWrite(p) ==
    /\ at[p] = "wlock" /\ holder = Nobody
    /\ holder' = p
    /\ IF WriteRefused(OffsetOf(p), call[p].n1)
       THEN Goes(p, "wend") /\ tot' = [tot EXCEPT ![p] = -1]
       ELSE Goes(p, "write") /\ UNCHANGED tot
    /\ UNCHANGED <<file, log, limits, off, call, got>>

Logs(p, b) ==
    /\ lh' = lh \cup {b}
    /\ logged' = [logged EXCEPT ![p] = @ \cup {b}]

HasBlockUnchecked(bn) == TRUE

\* The test of addrs[bn], for an element of the array: nothing allocates a block.
HasBlock(bn) == bn < blocks

\* A turn: the caller's next bytes into the block, log_write.
WriteBlock(p) ==
    LET m == Turn(p, call[p].n1)
    IN  /\ at[p] = "write" /\ tot[p] < call[p].n1 /\ HasBlock(BlockNo(p))
        /\ data' = [x \in Pos |->
                       IF Here(p) <= x /\ x < Here(p) + m
                       THEN <<p, call[p].i + tot[p] + x - Here(p) + 1>> ELSE data[x]]
        /\ tot' = [tot EXCEPT ![p] = @ + m]
        /\ Logs(p, BlockNo(p))
        /\ UNCHANGED <<limits, size, blocks, holder, off, outstanding, at, call, got>>

\* What lies behind addrs (the next entry of the inode cache) is some block's
\* number, or 0, which ends the loop.  A turn reads bytes that are not the
\* file's, or writes the caller's bytes into a block that is not the file's.
BeyondAddrs(p) ==
    LET n == IF at[p] = "write" THEN call[p].n1 ELSE call[p].n
        m == Turn(p, n)
    IN  /\ at[p] \in {"write", "read"} /\ tot[p] < n /\ BlockNo(p) > NDIRECT
        /\ tot' = [tot EXCEPT ![p] = @ + m]
        /\ IF at[p] = "write" THEN Logs(p, BlockNo(p)) /\ UNCHANGED got
           ELSE /\ got' = [got EXCEPT ![p] = @ \o [j \in 1 .. m |-> <<Nobody, 0>>]]
                /\ UNCHANGED <<lh, logged>>
        /\ UNCHANGED <<file, limits, holder, off, outstanding, at, call>>

\* A block_read that returns NULL.
Fails == fails < MaxFails /\ fails' = fails + 1

\* A loop over n bytes ends: all moved, addrs[bn] = 0, or no buffer.
LoopEnds(p, n) ==
    IF tot[p] = n \/ ~ HasBlock(BlockNo(p)) THEN UNCHANGED fails ELSE Fails

WriteLoopEnds(p) ==
    /\ at[p] = "write" /\ LoopEnds(p, call[p].n1)
    /\ Goes(p, "update")
    /\ UNCHANGED <<file, log, moves, holder, off, call, calls>>

\* The end of inode_write: the file may have grown; inode_update, which may
\* not get its block.
Update(p) ==
    /\ at[p] = "update"
    /\ size' = Max({size, Here(p)})
    /\ (Logs(p, IBlock) /\ UNCHANGED fails) \/ (Fails /\ UNCHANGED <<lh, logged>>)
    /\ Goes(p, "wend")
    /\ UNCHANGED <<moves, data, blocks, holder, off, outstanding, call, calls>>

AdvancedByRequest(p, o, r) == IF r > 0 THEN o + call[p].n1 ELSE o

\* f->off after an inode_read or inode_write that returned r.
Advanced(p, o, r) == IF r > 0 THEN o + r ELSE o

\* Back in file_write: the offset moves, inode_unlock.  i counts the bytes of
\* whole chunks, and the last, short one here.
UnlockWritten(p) ==
    /\ at[p] = "wend"
    /\ off' = [off EXCEPT ![call[p].f] = Advanced(p, @, tot[p])]
    /\ call' = [call EXCEPT ![p].i = IF tot[p] > 0 THEN @ + tot[p] ELSE @,
                            ![p].n = IF tot[p] = call[p].n1 THEN @ ELSE 0]
    /\ tot' = [tot EXCEPT ![p] = 0]
    /\ holder' = Nobody
    /\ Goes(p, "log_end")
    /\ UNCHANGED <<file, log, limits, got>>

\* log_end_op, with the commit when this was the last operation; then the next
\* chunk, or the end.  After a short chunk (n = 0) the loop breaks.
EndOp(p) ==
    /\ at[p] = "log_end"
    /\ outstanding' = outstanding - 1
    /\ lh' = IF outstanding = 1 THEN {} ELSE lh
    /\ logged' = [logged EXCEPT ![p] = {}]
    /\ IF call[p].i < call[p].n
       THEN /\ call' = [call EXCEPT ![p].n1 = NextChunk(call[p].n, call[p].i)]
            /\ Goes(p, "begin")
       ELSE /\ call' = [call EXCEPT ![p] = NoCall]
            /\ Goes(p, "idle")
    /\ UNCHANGED <<file, moves, limits, holder, off>>

-----------------------------------------------------------------------------
(***************************************************************************)
(* file_read and inode_read                                                *)
(***************************************************************************)

\* file_read.
StartRead(p, f, n) ==
    /\ at[p] = "idle"
    /\ calls < MaxCalls /\ calls' = calls + 1
    /\ call' = [call EXCEPT ![p] = [NoCall EXCEPT !.f = f, !.n = U32(n)]]
    /\ Goes(p, "rlock")
    /\ UNCHANGED <<file, log, moves, holder, off, fails>>

\* inode_lock, and inode_read up to its loop: n is cut at the end of the file.
LockToRead(p) ==
    LET o == OffsetOf(p)
        n == call[p].n
    IN  /\ at[p] = "rlock" /\ holder = Nobody
        /\ holder' = p
        /\ IF o > size \/ Plus(o, n) < o
           THEN Goes(p, "rend") /\ UNCHANGED call
           ELSE /\ Goes(p, "read")
                /\ call' = [call EXCEPT ![p].n = IF Plus(o, n) > size THEN size - o ELSE @]
        /\ UNCHANGED <<file, log, moves, limits, off>>

\* A turn: bytes out of the block.
ReadBlock(p) ==
    LET m == Turn(p, call[p].n)
    IN  /\ at[p] = "read" /\ tot[p] < call[p].n /\ HasBlock(BlockNo(p))
        /\ got' = [got EXCEPT ![p] = @ \o [j \in 1 .. m |-> data[Here(p) + j - 1]]]
        /\ tot' = [tot EXCEPT ![p] = @ + m]
        /\ UNCHANGED <<file, log, limits, holder, off, at, call>>

ReadLoopEnds(p) ==
    /\ at[p] = "read" /\ LoopEnds(p, call[p].n)
    /\ Goes(p, "rend")
    /\ UNCHANGED <<file, log, moves, holder, off, call, calls>>

\* Back in file_read: the offset moves, inode_unlock.
UnlockRead(p) ==
    /\ at[p] = "rend"
    /\ off' = [off EXCEPT ![call[p].f] = Advanced(p, @, tot[p])]
    /\ holder' = Nobody
    /\ call' = [call EXCEPT ![p] = NoCall]
    /\ tot' = [tot EXCEPT ![p] = 0]
    /\ got' = [got EXCEPT ![p] = <<>>]
    /\ Goes(p, "idle")
    /\ UNCHANGED <<file, log, limits>>

-----------------------------------------------------------------------------
Next ==
    \E p \in Procs :
        \/ \E f \in File, n \in Count : StartWrite(p, f, n) \/ StartRead(p, f, n)
        \/ BeginOp(p) \/ LockToWrite(p) \/ WriteBlock(p) \/ WriteLoopEnds(p)
        \/ Update(p) \/ UnlockWritten(p) \/ EndOp(p)
        \/ LockToRead(p) \/ ReadBlock(p) \/ ReadLoopEnds(p) \/ UnlockRead(p)
        \/ BeyondAddrs(p)

Spec == Init /\ [][Next]_vars

-----------------------------------------------------------------------------
(***************************************************************************)
(* Properties                                                              *)
(***************************************************************************)

InLoop(p) == at[p] \in {"write", "update", "wend", "read", "rend"} /\ tot[p] > 0
Movers(f) == {p \in Procs : InLoop(p) /\ call[p].f = f}

\* The file, its offsets and what a write has moved, as a call that is under
\* way has left them.
Content  == [x \in 1 .. Max({size} \cup {Here(p) : p \in {q \in Procs : InLoop(q)}})
                |-> data[x - 1]]
Position == [f \in File |-> Max({off[f]} \cup {Here(p) : p \in Movers(f)})]
Moved    == [p \in Procs |->
                IF at[p] \in {"write", "update", "wend"} /\ tot[p] > 0
                THEN call[p].i + tot[p] ELSE call[p].i]

A == INSTANCE ByteFile WITH
        content <- Content, pos <- Position, moved <- Moved, seen <- got

\* The file has direct blocks only; no action changes that.
DirectFile == blocks <= NDIRECT

\* However calls interleave and wherever one fails, a file of direct blocks is
\* a sequence of bytes, an offset stands right behind the last byte moved
\* through it, and processes that share a file neither overwrite nor read twice
\* what the other one moved (file_read, file_write, inode_read, inode_write).
\* This is ByteFile's Spec for such a file; nothing is said of a longer one.
IsByteFile ==
    /\ DirectFile => A!Init
    /\ [][DirectFile => A!Next]_<<Content, Position, Moved, got>>

\* Only in a file with an indirect block do the block loops go on to an element
\* that addrs does not have: where the file-size limit would let them, the
\* missing allocation stops them (inode_read, inode_write).
ArrayLeftOnlyIndirect ==
    \A p \in Procs : LET n == IF at[p] = "write" THEN call[p].n1 ELSE call[p].n
                     IN  /\ at[p] \in {"write", "read"} /\ tot[p] < n
                         /\ BlockNo(p) > NDIRECT
                         => ~ DirectFile

\* A transaction of file_write logs no more blocks than log_begin_op reserved,
\* wherever its bytes begin and end, the inode's block included; also where it
\* writes to blocks that are not the file's.
WithinReservation == \A p \in Procs : Cardinality(logged[p]) <= MAXOPBLOCKS

-----------------------------------------------------------------------------
(***************************************************************************)
(* What the documentation says, and the code does not do                   *)
(***************************************************************************)

\* inode.h:27, "Blocs de données (NDIRECT directs + 1 indirect)": the block
\* loops find a block's number among the direct ones, or through the indirect
\* block.  They index addrs with the block's number, whatever it is, and the
\* file-size limit counts blocks it has no element for (inode_read,
\* inode_write).
AddressInArray ==
    \A p \in Procs : LET n == IF at[p] = "write" THEN call[p].n1 ELSE call[p].n
                     IN  at[p] \in {"write", "read"} /\ tot[p] < n => BlockNo(p) <= NDIRECT
=============================================================================
