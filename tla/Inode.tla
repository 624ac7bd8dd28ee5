------------------------------- MODULE Inode --------------------------------
(***************************************************************************)
(* The inode cache of kernel/fs/inode.c: entries with a reference count, a *)
(* lock and a copy of an on-disk inode, and the operations that allocate,  *)
(* find, lock, change and release them.  Files.tla composes them with the  *)
(* table of open files, their only user.                                   *)
(*                                                                         *)
(* Code under icache.lock is one action, and so is code that holds the     *)
(* buffer of a dinode; what a caller does between two such stretches       *)
(* interleaves.  Disk blocks can be read (their buffers are BufCache's     *)
(* concern), a sleeplock is a guard (so is its sleep).                     *)
(***************************************************************************)
EXTENDS Integers, FiniteSets

CONSTANTS
    Procs,          \* processes that use files
    Nobody,         \* what is no process
    NINODES,        \* sb.ninodes: inode numbers are below it, and 0 is none
    NINODE,         \* entries of the cache
    Named,          \* inodes with a name (nlink > 0) on the disk at boot
    MaxSize,        \* bound on the size of a file, so that runs are finite
    NotRead         \* the copy in an entry with valid = 0, read before its use

ASSUME InodeAssumption ==
    /\ NINODES \in Nat \ {0} /\ NINODE \in Nat \ {0} /\ MaxSize \in Nat
    /\ Nobody \notin Procs

Inum    == 1 .. NINODES - 1
Entry   == 1 .. NINODE
NoEntry == 0                                \* NULL

\* What the properties tell apart of a struct dinode: type # 0, nlink, size.
Dinode == [used : BOOLEAN, nlink : 0 .. 1, size : 0 .. MaxSize]

ASSUME NotReadAssumption == NotRead \notin Dinode

\* inode_alloc zeroes a dinode and sets its type.
FreshDinode == [used |-> TRUE, nlink |-> 0, size |-> 0]

VARIABLES
    dinode,         \* dinode[i]: the inode table as block_read shows it
    inum,           \* inum[e]: number of the inode in entry e
    ref,            \* ref[e]: its references
    copy,           \* copy[e]: the fields of entry e, or NotRead
    holder,         \* holder[e]: process in the lock of entry e, or Nobody
    at,             \* at[p]: where p is in an operation of this module
    num,            \* num[p]: inode number p's operation is about
    ent             \* ent[p]: entry p's operation is about

cache     == <<inum, ref, copy, holder>>
inodeVars == <<dinode, cache, at, num, ent>>

\* "have": returned from inode_get with a reference of its own.  "load": in
\* inode_lock, to read the dinode.  "in": inode_lock has returned.  "put": to
\* drop a reference.  "free" to "drop": inode_put frees the inode on disk,
\* without icache.lock.
Stage == {"none", "scan", "get", "have", "load", "in",
          "put", "free", "erase", "unlock", "drop"}

InodeTypeOK ==
    /\ dinode \in [Inum -> Dinode]
    /\ inum \in [Entry -> Inum \cup {0}]
    /\ ref \in [Entry -> Nat]
    /\ copy \in [Entry -> Dinode \cup {NotRead}]
    /\ holder \in [Entry -> Procs \cup {Nobody}]
    /\ at \in [Procs -> Stage]
    /\ num \in [Procs -> Inum \cup {0}]
    /\ ent \in [Procs -> Entry \cup {NoEntry}]

\* An empty cache over a disk of free inodes and files with a name.
InodeInit ==
    /\ dinode = [i \in Inum |->
                    IF i \in Named THEN [FreshDinode EXCEPT !.nlink = 1]
                                   ELSE [FreshDinode EXCEPT !.used = FALSE]]
    /\ inum = [e \in Entry |-> 0]
    /\ ref = [e \in Entry |-> 0]
    /\ copy = [e \in Entry |-> NotRead]
    /\ holder = [e \in Entry |-> Nobody]
    /\ at = [p \in Procs |-> "none"]
    /\ num = [p \in Procs |-> 0]
    /\ ent = [p \in Procs |-> NoEntry]

Goes(p, stage) == at' = [at EXCEPT ![p] = stage]

\* The end of an operation that leaves p with nothing.
Ends(p) ==
    /\ Goes(p, "none")
    /\ num' = [num EXCEPT ![p] = 0]
    /\ ent' = [ent EXCEPT ![p] = NoEntry]

-----------------------------------------------------------------------------
(***************************************************************************)
(* inode_alloc and inode_get                                               *)
(***************************************************************************)

\* The scan goes on with number i, or ends when there is none.
ScanAt(p, i) ==
    IF i \in Inum
    THEN Goes(p, "scan") /\ num' = [num EXCEPT ![p] = i] /\ UNCHANGED ent
    ELSE Ends(p)

\* inode_alloc is called.
Alloc(p) ==
    /\ at[p] = "none"
    /\ ScanAt(p, 1)
    /\ UNCHANGED <<dinode, cache>>

IsFree(i) == ~ dinode[i].used

\* The dinode under the scan is in use: on to the next one.
AllocPasses(p) ==
    /\ at[p] = "scan" /\ ~ IsFree(num[p])
    /\ ScanAt(p, num[p] + 1)
    /\ UNCHANGED <<dinode, cache>>

\* It is free: take it, in its block, and go on to inode_get.
AllocTakes(p) ==
    /\ at[p] = "scan" /\ IsFree(num[p])
    /\ dinode' = [dinode EXCEPT ![num[p]] = FreshDinode]
    /\ Goes(p, "get")
    /\ UNCHANGED <<cache, num, ent>>

\* A lookup of an inode that has a name ends in inode_get as well.
Lookup(p, i) ==
    /\ at[p] = "none" /\ dinode[i].used /\ dinode[i].nlink > 0
    /\ num' = [num EXCEPT ![p] = i]
    /\ Goes(p, "get")
    /\ UNCHANGED <<dinode, cache, ent>>

\* The test of inode_get's search.
IsHit(e, i) == ref[e] > 0 /\ inum[e] = i

IsFirstEmptyByValid(e) ==
    copy[e] = NotRead /\ \A d \in Entry : copy[d] = NotRead => e <= d

\* The entry inode_get recycles.
IsFirstEmpty(e) == ref[e] = 0 /\ \A d \in Entry : ref[d] = 0 => e <= d

\* The inode is in the cache: one more reference.
GetHit(p, e) ==
    /\ at[p] = "get" /\ IsHit(e, num[p])
    /\ ref' = [ref EXCEPT ![e] = @ + 1]
    /\ Goes(p, "have") /\ ent' = [ent EXCEPT ![p] = e]
    /\ UNCHANGED <<dinode, inum, copy, holder, num>>

\* The copies once entry e has valid = 0.
Invalidated(e) == [copy EXCEPT ![e] = NotRead]

\* It is not: the first empty entry becomes its entry, not valid.
GetRecycles(p, e) ==
    /\ at[p] = "get" /\ \A d \in Entry : ~ IsHit(d, num[p])
    /\ IsFirstEmpty(e)
    /\ inum' = [inum EXCEPT ![e] = num[p]]
    /\ ref' = [ref EXCEPT ![e] = 1]
    /\ copy' = Invalidated(e)
    /\ Goes(p, "have") /\ ent' = [ent EXCEPT ![p] = e]
    /\ UNCHANGED <<dinode, holder, num>>

\* The cache is full: NULL, and an inode just allocated stays so on disk.
GetFull(p) ==
    /\ at[p] = "get"
    /\ \A e \in Entry : ~ IsHit(e, num[p]) /\ ref[e] > 0
    /\ Ends(p)
    /\ UNCHANGED <<dinode, cache>>

-----------------------------------------------------------------------------
(***************************************************************************)
(* inode_lock, the operations under it, inode_unlock                       *)
(***************************************************************************)

\* inode_lock: take the lock of entry e, then read the dinode when needed.
Lock(p, e) ==
    /\ at[p] = "none" /\ ref[e] >= 1 /\ holder[e] = Nobody
    /\ holder' = [holder EXCEPT ![e] = p]
    /\ ent' = [ent EXCEPT ![p] = e]
    /\ Goes(p, IF copy[e] = NotRead THEN "load" ELSE "in")
    /\ UNCHANGED <<dinode, inum, ref, copy, num>>

Load(p) ==
    /\ at[p] = "load"
    /\ copy' = [copy EXCEPT ![ent[p]] = dinode[inum[ent[p]]]]
    /\ Goes(p, "in")
    /\ UNCHANGED <<dinode, inum, ref, holder, num, ent>>

UpdatesNotSize(e, new) == [new EXCEPT !.size = dinode[inum[e]].size]

\* The dinode inode_update writes for entry e with fields new.
Updates(e, new) == new

\* inode_write: the size may grow; inode_update.
WriteInode(p, size) ==
    /\ at[p] = "in" /\ size > copy[ent[p]].size
    /\ LET new == [copy[ent[p]] EXCEPT !.size = size]
       IN  /\ copy' = [copy EXCEPT ![ent[p]] = new]
           /\ dinode' = [dinode EXCEPT ![inum[ent[p]]] = Updates(ent[p], new)]
    /\ UNCHANGED <<inum, ref, holder, at, num, ent>>

\* inode_unlock.
Unlock(p) ==
    /\ at[p] = "in" /\ holder[ent[p]] = p
    /\ holder' = [holder EXCEPT ![ent[p]] = Nobody]
    /\ Ends(p)
    /\ UNCHANGED <<dinode, inum, ref, copy>>

-----------------------------------------------------------------------------
(***************************************************************************)
(* inode_put                                                               *)
(***************************************************************************)

UnlinkedOrNamed(e) == ref[e] = 1 /\ copy[e] # NotRead

\* The last reference to an inode without a name.
Unlinked(e) == ref[e] = 1 /\ copy[e] # NotRead /\ copy[e].nlink = 0

\* Any other reference: drop it.
Put(p) ==
    /\ at[p] = "put" /\ ~ Unlinked(ent[p])
    /\ ref' = [ref EXCEPT ![ent[p]] = @ - 1]
    /\ Ends(p)
    /\ UNCHANGED <<dinode, inum, copy, holder>>

\* The last one: icache.lock is released...
PutFrees(p) ==
    /\ at[p] = "put" /\ Unlinked(ent[p])
    /\ Goes(p, "free")
    /\ UNCHANGED <<dinode, cache, num, ent>>

\* ...inode_lock, whose copy is valid...
PutLocks(p) ==
    /\ at[p] = "free" /\ holder[ent[p]] = Nobody
    /\ holder' = [holder EXCEPT ![ent[p]] = p]
    /\ Goes(p, "erase")
    /\ UNCHANGED <<dinode, inum, ref, copy, num, ent>>

\* ...type 0, inode_update...
PutErases(p) ==
    /\ at[p] = "erase"
    /\ LET new == [copy[ent[p]] EXCEPT !.used = FALSE]
       IN  /\ copy' = [copy EXCEPT ![ent[p]] = new]
           /\ dinode' = [dinode EXCEPT ![inum[ent[p]]] = Updates(ent[p], new)]
    /\ Goes(p, "unlock")
    /\ UNCHANGED <<inum, ref, holder, num, ent>>

\* ...valid = 0, inode_unlock: the inode may be allocated again by now...
PutUnlocks(p) ==
    /\ at[p] = "unlock" /\ holder[ent[p]] = p
    /\ copy' = Invalidated(ent[p])
    /\ holder' = [holder EXCEPT ![ent[p]] = Nobody]
    /\ Goes(p, "drop")
    /\ UNCHANGED <<dinode, inum, ref, num, ent>>

\* ...and the reference, under icache.lock again.
PutDrops(p) ==
    /\ at[p] = "drop"
    /\ ref' = [ref EXCEPT ![ent[p]] = @ - 1]
    /\ Ends(p)
    /\ UNCHANGED <<dinode, inum, copy, holder>>

InodeStep(p) ==
    \/ AllocPasses(p) \/ AllocTakes(p)
    \/ \E e \in Entry : GetHit(p, e) \/ GetRecycles(p, e)
    \/ GetFull(p)
    \/ Load(p) \/ (\E size \in 1 .. MaxSize : WriteInode(p, size)) \/ Unlock(p)
    \/ Put(p) \/ PutFrees(p) \/ PutLocks(p) \/ PutErases(p)
    \/ PutUnlocks(p) \/ PutDrops(p)

-----------------------------------------------------------------------------
(***************************************************************************)
(* Properties                                                              *)
(***************************************************************************)

\* An inode has one entry in the cache, whatever the order of lookups,
\* allocations and releases: two would be two locks and two copies of it
\* (inode_get).
OneEntry ==
    \A d, e \in Entry : ref[d] > 0 /\ ref[e] > 0 /\ inum[d] = inum[e] => d = e

\* A referenced, unlocked, valid entry shows what the disk holds: neither an
\* inode_alloc that writes the dinode behind the cache nor the unlocked window
\* of inode_put leaves an old copy to be used or written back (inode_lock,
\* inode_update, inode_put).
CopyCurrent ==
    \A e \in Entry :
        ref[e] > 0 /\ copy[e] # NotRead /\ holder[e] = Nobody
            => copy[e] = dinode[inum[e]]
=============================================================================
