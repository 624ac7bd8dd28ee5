------------------------------- MODULE Files --------------------------------
(***************************************************************************)
(* The table of open files of kernel/fs/file.c over what files refer to:   *)
(* pipes, which live in physical pages (pipe_alloc and pipe_close of       *)
(* kernel/fs/pipe.c), and inodes (Inode.tla).                              *)
(*                                                                         *)
(* A process holds references to files, one for each file_alloc or         *)
(* file_dup made for it, and uses and closes only files it holds one of.   *)
(* Code under ftable.lock or pi->lock is one action; pipe_alloc and        *)
(* file_close span several.  What goes through a pipe is Pipe's concern;   *)
(* log_begin_op and log_end_op around an operation are Log's.              *)
(***************************************************************************)
EXTENDS PhysMem, Inode

CONSTANTS
    NFILE,          \* entries of the table of open files
    MaxRefs         \* bound on the references of a file, so that runs are finite

ASSUME FilesAssumption == NFILE \in Nat \ {0} /\ MaxRefs \in Nat

File   == 1 .. NFILE
NoFile == 0

VARIABLES
    file,           \* file[f]: the struct file
    held,           \* held[p][f]: references to f that p holds
    free,           \* free physical pages
    open,           \* open[g]: the ends a pipe in page g has open
    pc,             \* pc[p]: where p is in pipe_alloc or file_close
    page,           \* page[p]: the page of its pipe
    first,          \* first[p]: pipe_alloc's *f0
    side            \* side[p]: the end to close, of file_close's copy ff

fileVars == <<file, held, free, open, pc, page, first, side>>
vars     == <<inodeVars, fileVars>>

End == {"read", "write"}

\* A struct file: a pipe file has a page and an end, an inode file an entry.
StructFile ==
    [type : {"none", "pipe", "inode"}, ref : Nat, page : Page \cup {NoPage},
     end : End, ip : Entry \cup {NoEntry}]

PcSet == {"idle", "alloc0", "alloc1", "close"}

TypeOK ==
    /\ InodeTypeOK
    /\ file \in [File -> StructFile]
    /\ held \in [Procs -> [File -> Nat]]
    /\ free \in SUBSET Page
    /\ open \in [Page -> SUBSET End]
    /\ pc \in [Procs -> PcSet]
    /\ page \in [Procs -> Page \cup {NoPage}]
    /\ first \in [Procs -> File \cup {NoFile}]
    /\ side \in [Procs -> End]

Blank == [type |-> "none", ref |-> 0, page |-> NoPage, end |-> "read", ip |-> NoEntry]

\* file_init: a table of zeros.
Init ==
    /\ InodeInit
    /\ file = [f \in File |-> Blank]
    /\ held = [p \in Procs |-> [f \in File |-> 0]]
    /\ free = Page
    /\ open = [g \in Page |-> {}]
    /\ pc = [p \in Procs |-> "idle"]
    /\ page = [p \in Procs |-> NoPage]
    /\ first = [p \in Procs |-> NoFile]
    /\ side = [p \in Procs |-> "read"]

Idle(p) == pc[p] = "idle" /\ at[p] = "none"

Moves(p, to, g, f, end) ==
    /\ pc' = [pc EXCEPT ![p] = to]
    /\ page' = [page EXCEPT ![p] = g]
    /\ first' = [first EXCEPT ![p] = f]
    /\ side' = [side EXCEPT ![p] = end]

\* The end of pipe_alloc and of pipe_close.
Rests(p) == Moves(p, "idle", NoPage, NoFile, "read")

-----------------------------------------------------------------------------
(***************************************************************************)
(* file_alloc, file_dup and the first part of file_close                   *)
(***************************************************************************)

\* The test of file_alloc.
IsUnused(f) == file[f].ref = 0

\* The entry file_alloc returns.
IsFirstUnused(f) == IsUnused(f) /\ \A g \in File : IsUnused(g) => f <= g
TableFull == \A f \in File : ~ IsUnused(f)

\* file_dup, for p itself or for a process q that inherits the file.
Dup(p, q, f) ==
    /\ Idle(p) /\ held[p][f] > 0 /\ file[f].ref < MaxRefs
    /\ file' = [file EXCEPT ![f].ref = @ + 1]
    /\ held' = [held EXCEPT ![q][f] = @ + 1]
    /\ UNCHANGED <<inodeVars, free, open, pc, page, first, side>>

\* The entry file_close leaves: with the last reference its type goes.
Closed(x) ==
    IF x.ref > 1 THEN [x EXCEPT !.ref = @ - 1]
                 ELSE [x EXCEPT !.ref = 0, !.type = "none"]

\* file_close: drop the reference, and go on to what the last one referred to.
Close(p, f) ==
    /\ Idle(p) /\ held[p][f] > 0
    /\ file' = [file EXCEPT ![f] = Closed(@)]
    /\ held' = [held EXCEPT ![p][f] = @ - 1]
    /\ IF file[f].ref = 1 /\ file[f].type = "pipe"
       THEN Moves(p, "close", file[f].page, NoFile, file[f].end)
       ELSE UNCHANGED <<pc, page, first, side>>
    /\ IF file[f].ref = 1 /\ file[f].type = "inode"
       THEN Goes(p, "put") /\ ent' = [ent EXCEPT ![p] = file[f].ip]
       ELSE UNCHANGED <<at, ent>>
    /\ UNCHANGED <<dinode, cache, num, free, open>>

-----------------------------------------------------------------------------
(***************************************************************************)
(* pipe_alloc and pipe_close                                               *)
(***************************************************************************)

\* A page for the pipe; with none, pipe_alloc changes nothing.
PipeTakesPage(p) ==
    /\ Idle(p) /\ AllocPage(free) # NoPage
    /\ free' = free \ {AllocPage(free)}
    /\ Moves(p, "alloc0", AllocPage(free), NoFile, "read")
    /\ UNCHANGED <<inodeVars, file, held, open>>

\* The file of the read end; its type is not set yet.
PipeTakesFirst(p, f) ==
    /\ pc[p] = "alloc0" /\ IsFirstUnused(f)
    /\ file' = [file EXCEPT ![f].ref = 1]
    /\ Moves(p, "alloc1", page[p], f, "read")
    /\ UNCHANGED <<inodeVars, held, free, open>>

PipeEnd(x, g, end) == [x EXCEPT !.type = "pipe", !.page = g, !.end = end]

\* The file of the write end, and both become pipe files.
PipeTakesSecond(p, f) ==
    /\ pc[p] = "alloc1" /\ IsFirstUnused(f)
    /\ file' = [file EXCEPT ![f] = [PipeEnd(@, page[p], "write") EXCEPT !.ref = 1],
                            ![first[p]] = PipeEnd(@, page[p], "read")]
    /\ open' = [open EXCEPT ![page[p]] = End]
    /\ held' = [held EXCEPT ![p][f] = @ + 1, ![p][first[p]] = @ + 1]
    /\ Rests(p)
    /\ UNCHANGED <<inodeVars, free>>

\* The table is full: the page goes back, and the first file if there is one.
PipeFails(p) ==
    /\ pc[p] \in {"alloc0", "alloc1"} /\ TableFull
    /\ free' = FreePages(free, {page[p]})
    /\ file' = IF first[p] = NoFile THEN file
                                    ELSE [file EXCEPT ![first[p]] = Closed(@)]
    /\ Rests(p)
    /\ UNCHANGED <<inodeVars, held, open>>

GivenBackAtFirstClose(p, g, left) == {g}

\* The pages pipe_close gives back.
GivenBack(p, g, left) == IF left = {} THEN {g} ELSE {}

\* pipe_close, from the copy of the file: close its end; the last one releases
\* the page.
PipeClose(p) ==
    /\ pc[p] = "close"
    /\ LET g    == page[p]
           left == open[g] \ {side[p]}
       IN  /\ open' = [open EXCEPT ![g] = left]
           /\ free' = FreePages(free, GivenBack(p, g, left))
    /\ Rests(p)
    /\ UNCHANGED <<inodeVars, file, held>>

-----------------------------------------------------------------------------
(***************************************************************************)
(* Files of inodes                                                         *)
(***************************************************************************)

\* Opening a file, by name or as a new one: no code does it yet.
OpenByName(p, i) == Idle(p) /\ Lookup(p, i) /\ UNCHANGED fileVars
OpenNew(p)       == Idle(p) /\ Alloc(p) /\ UNCHANGED fileVars

\* The inode is there: a file for it.
OpenEnds(p, f) ==
    /\ at[p] = "have" /\ IsFirstUnused(f)
    /\ file' = [file EXCEPT ![f] = [@ EXCEPT !.ref = 1, !.type = "inode", !.ip = ent[p]]]
    /\ held' = [held EXCEPT ![p][f] = @ + 1]
    /\ Ends(p)
    /\ UNCHANGED <<dinode, cache, free, open, pc, page, first, side>>

\* No file is left: the reference goes back.
OpenFails(p) ==
    /\ at[p] = "have" /\ TableFull
    /\ Goes(p, "put")
    /\ UNCHANGED <<dinode, cache, num, ent, fileVars>>

\* file_read, file_write and file_stat begin by locking the inode.
UseInode(p, f) ==
    /\ Idle(p) /\ held[p][f] > 0 /\ file[f].type = "inode"
    /\ Lock(p, file[f].ip)
    /\ UNCHANGED fileVars

-----------------------------------------------------------------------------
Next ==
    \E p \in Procs :
        \/ \E f \in File :
              \/ Close(p, f) \/ (\E q \in Procs : Dup(p, q, f))
              \/ PipeTakesFirst(p, f) \/ PipeTakesSecond(p, f)
              \/ OpenEnds(p, f) \/ UseInode(p, f)
        \/ PipeTakesPage(p) \/ PipeFails(p) \/ PipeClose(p)
        \/ OpenNew(p) \/ OpenFails(p)
        \/ \E i \in Inum : OpenByName(p, i)
        \/ InodeStep(p) /\ UNCHANGED fileVars

Spec == Init /\ [][Next]_vars

-----------------------------------------------------------------------------
(***************************************************************************)
(* Properties                                                              *)
(***************************************************************************)

\* Files that refer to inode entry e, and processes with a reference of their
\* own: after inode_get, and from file_close to the end of inode_put.
FilesOf(e) == {f \in File : file[f].type = "inode" /\ file[f].ip = e}
Counting   == {"have", "put", "free", "erase", "unlock", "drop"}
UsersOfEntry(e) == {p \in Procs : ent[p] = e /\ at[p] \in Counting}
RefsTo(e)  == Cardinality(FilesOf(e)) + Cardinality(UsersOfEntry(e))

\* The counts of inodes are the references there are, through any interleaving
\* of opens, duplications and closes: one too few gives an entry in use to
\* another inode, one too many loses it (inode_get, inode_put, file_close).
InodeRefsCounted == \A e \in Entry : ref[e] = RefsTo(e)

\* An open file's inode is allocated: the last close of an unlinked one frees
\* it once, never under another file (inode_put's unlocked window).
OpenInodeAllocated ==
    \A f \in File : file[f].type = "inode" =>
        dinode[inum[file[f].ip]].used

\* Who works on a pipe's page, and who stands for an end of it.
UsersOf(g) == {p \in Procs : page[p] = g}
EndFiles(g, end) ==
    {f \in File : file[f].type = "pipe" /\ file[f].page = g /\ file[f].end = end}
Closers(g, end) == {p \in UsersOf(g) : pc[p] = "close" /\ side[p] = end}

\* The page of a pipe is its own while a file refers to it or a process is in
\* pipe_alloc or pipe_close with it, one file for each open end; every other
\* page is free.  So no page is lost, and none released twice, by whatever
\* path a pipe or half a pipe goes (pipe_alloc's bad path, pipe_close).
PipePages ==
    \A g \in Page :
        /\ g \in free <=> open[g] = {} /\ UsersOf(g) = {}
        /\ \A end \in End :
              Cardinality(EndFiles(g, end)) + Cardinality(Closers(g, end))
                  = (IF end \in open[g] THEN 1 ELSE 0)

\* The references to a file: those that processes hold, and pipe_alloc's.
Descriptors(f) == UNION {{p} \X (1 .. held[p][f]) : p \in Procs}
HeldTimes(f)   == Cardinality(Descriptors(f))
Builders(f)    == {p \in Procs : pc[p] = "alloc1" /\ first[p] = f}

\* A file is open exactly while someone holds it or pipe_alloc builds it, as
\* often as its count says; so no file is closed under a process, and no entry
\* is given out twice (file_alloc, file_dup, file_close).
FileRefsCounted ==
    \A f \in File :
        /\ file[f].ref = HeldTimes(f) + Cardinality(Builders(f))
        /\ file[f].type # "none" => file[f].ref > 0

\* Both counts are exact: that of an open file over its descriptors, that of an
\* inode over its open files and the calls that pass it on.
CountsExact == InodeRefsCounted /\ FileRefsCounted
=============================================================================
