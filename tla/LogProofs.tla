------------------------------ MODULE LogProofs ------------------------------
(***************************************************************************)
(* The log keeps its promises, for every number of processes, blocks,      *)
(* contents, log size and reservation.  What does not need the cache to    *)
(* have a buffer to give is proved without any such hypothesis; that the   *)
(* log implements AtomicDisk is proved for the behaviours in which no turn *)
(* of a commit is refused one.                                             *)
(***************************************************************************)
EXTENDS Log, FiniteSetTheorems, TLAPS

InOp      == {p \in Procs : pc[p] = "op"}
In(stages) == \E p \in Procs : pc[p] \in stages

(***************************************************************************)
(* The invariant that holds whatever the cache does                        *)
(***************************************************************************)

\* log_init runs alone and has neither pinned nor lost a buffer.
AtBoot ==
    boot # "up" =>
        /\ \A p \in Procs : pc[p] = "idle"
        /\ ~ committing
        /\ pinned = {} /\ leaked = {}
        /\ boot = "readhead" => tail = 1

\* The loops of commit and recovery are inside the header.
Turns ==
    /\ \A p \in Procs : pc[p] \in {"wlog", "install"} => tail \in DOMAIN lh
    /\ boot = "install" => tail \in DOMAIN lh
    /\ In({"whead"}) => lh # <<>>

\* Entries of the header that recovery has installed.
Installed == IF boot = "install" THEN 1 .. tail - 1 ELSE DOMAIN lh

\* Recovery has only dirtied the homes of installed entries.
BootDirty == boot # "up" => dirty \subseteq {Home(lh[j]) : j \in Installed}

\* Which header is on disk: that in memory while blocks are installed, the
\* empty one otherwise.  The buffer of the header is in the cache for good.
DiskHead ==
    /\ boot = "readhead" => lh = <<>>
    /\ boot \in {"install", "clear"} => lh = dhead
    /\ boot = "up" =>
          /\ HeadId \in dirty
          /\ In({"install", "clear"}) => lh = dhead
          /\ ~ In({"install", "clear", "stuck"}) => dhead = <<>>
          /\ In({"done"}) => lh = <<>>

\* The log_write calls that the reservation leaves to open operations.
Reserved == {x \in Procs \X (1 .. MAXOPBLOCKS) : pc[x[1]] = "op" /\ x[2] > writes[x[1]]}
Room     == Len(lh) + Cardinality(Reserved) <= LOGSIZE

IInv ==
    /\ TypeOK /\ CommitIsAlone
    /\ AtBoot /\ Turns /\ BootDirty /\ DiskHead

(***************************************************************************)
(* The invariant that holds while the cache suffices and operations keep   *)
(* to their reservation                                                    *)
(***************************************************************************)

\* A turn of a commit gets both its buffers.
CacheSuffices ==
    \A p \in Procs : pc[p] \in {"wlog", "install"} => GotBoth(tail)

NoRepeats(s) == \A i, j \in DOMAIN s : s[i] = s[j] => i = j

\* The header entries whose block is pinned.
ToInstall ==
    IF In({"clear", "done"}) \/ boot # "up" THEN {}
    ELSE IF In({"install"}) THEN tail .. Len(lh)
    ELSE DOMAIN lh

PinnedAre == pinned = {lh[i] : i \in ToInstall}

\* What the cache holds is what is on disk, but for pinned blocks.
CleanCopies ==
    \A b \in Blocks :
        IF b \in pinned THEN mem[b] # Absent ELSE mem[b] \in {Absent, disk[b]}

\* write_log has stored the entries before tail, then all.
Logged ==
    /\ In({"wlog"}) => \A j \in 1 .. tail - 1 : slot[j] = mem[lh[j]]
    /\ In({"whead"}) => \A j \in DOMAIN lh : slot[j] = mem[lh[j]]
    /\ In({"install"}) => \A j \in tail .. Len(lh) : slot[j] = mem[lh[j]]

\* install_trans has copied the entries before tail, then all.
Copied ==
    /\ In({"install"}) => \A j \in 1 .. tail - 1 : disk[lh[j]] = slot[j]
    /\ In({"clear"}) => \A j \in DOMAIN lh : disk[lh[j]] = slot[j]
    /\ boot \in {"install", "clear"} => \A j \in Installed : disk[lh[j]] = slot[j]

Sound ==
    /\ leaked = {} /\ ~ In({"stuck"})
    /\ NoRepeats(lh) /\ NoRepeats(dhead)
    /\ PinnedAre /\ CleanCopies /\ Logged /\ Copied

-----------------------------------------------------------------------------
(***************************************************************************)
(* Who is inside an operation, who commits                                 *)
(***************************************************************************)

\* The processes inside an operation can be counted.
LEMMA InOpFinite == IsFiniteSet(InOp) /\ Cardinality(InOp) \in Nat
<1>1. InOp \in SUBSET Procs
  BY DEF InOp
<1> QED
  BY <1>1, FS_Subset, FS_CardinalityType, LogSizeAssumption

\* While a process commits, no other does, and no operation is open.
LEMMA CommitterAlone ==
    ASSUME IInv, NEW p \in Procs, pc[p] \in Committing
    PROVE  /\ boot = "up" /\ committing /\ outstanding = 0
           /\ \A q \in Procs : pc[q] # "op"
           /\ \A q \in Procs : pc[q] \in Committing => q = p
<1>1. boot = "up" /\ committing /\ outstanding = 0
  BY DEF IInv, AtBoot, CommitIsAlone, Committing
<1>2. InOp = {}
  BY <1>1, InOpFinite, FS_EmptySet DEF IInv, CommitIsAlone, InOp
<1> QED
  BY <1>1, <1>2 DEF IInv, CommitIsAlone, InOp

\* While an operation is open nobody commits.
LEMMA NobodyCommits ==
    ASSUME IInv, NEW p \in Procs, pc[p] = "op"
    PROVE  /\ boot = "up" /\ ~ committing
           /\ \A q \in Procs : pc[q] \notin Committing
           /\ outstanding = 1 => \A q \in Procs : pc[q] = "op" => q = p
<1>1. boot = "up"
  BY DEF IInv, AtBoot
<1>2. InOp # {} /\ Cardinality(InOp) = outstanding
  BY DEF InOp, IInv, CommitIsAlone
<1>3. ~ committing
  BY <1>2, InOpFinite, FS_EmptySet DEF IInv, CommitIsAlone
<1>4. outstanding = 1 => \E q : InOp = {q}
  BY <1>2, InOpFinite, FS_Singleton
<1> QED
  BY <1>1, <1>3, <1>4 DEF IInv, CommitIsAlone, InOp

\* The count of open operations when one begins or ends.
LEMMA InOpChanges ==
    ASSUME NEW p \in Procs,
           \A q \in Procs : q # p => (pc'[q] = "op" <=> pc[q] = "op")
    PROVE  /\ pc[p] = "op" /\ pc'[p] # "op" => Cardinality(InOp') = Cardinality(InOp) - 1
           /\ pc[p] # "op" /\ pc'[p] = "op" => Cardinality(InOp') = Cardinality(InOp) + 1
<1>1. pc[p] = "op" /\ pc'[p] # "op" => InOp' = InOp \ {p} /\ p \in InOp
  BY DEF InOp
<1>2. pc[p] # "op" /\ pc'[p] = "op" => InOp' = InOp \cup {p} /\ p \notin InOp
  BY DEF InOp
<1> QED
  BY <1>1, <1>2, InOpFinite, FS_AddElement, FS_RemoveElement

\* A count of processes does not exceed their number.
LEMMA InOpBound == Cardinality(InOp) \in 0 .. Cardinality(Procs) /\ Cardinality(InOp)' \in 0 .. Cardinality(Procs)
<1>1. InOp \in SUBSET Procs /\ InOp' \in SUBSET Procs
  BY DEF InOp
<1> QED
  BY <1>1, FS_Subset, FS_CardinalityType, LogSizeAssumption

-----------------------------------------------------------------------------
(***************************************************************************)
(* The first invariant is inductive                                        *)
(***************************************************************************)

LEMMA InitIInv == Init => IInv
<1> SUFFICES ASSUME Init PROVE IInv
  OBVIOUS
<1>1. TypeOK
  <2>1. Cardinality(Procs) \in Nat
    BY LogSizeAssumption, FS_CardinalityType
  <2>2. disk \in [Blocks -> Vals] /\ slot \in [LogSlot -> Vals]
    BY DEF Init
  <2>3. dhead \in Seq(Blocks) /\ Len(dhead) = 0 /\ lh \in Seq(Blocks) /\ Len(lh) = 0
    BY DEF Init
  <2>4. pc \in [Procs -> PcSet] /\ writes \in [Procs -> 0 .. OpWrites]
    BY LogSizeAssumption DEF Init, PcSet
  <2>5. mem \in [Blocks -> Vals \cup {Absent}]
    BY DEF Init
  <2>6. dirty \in SUBSET BlockId /\ pinned \in SUBSET Blocks /\ leaked \in SUBSET BlockId
    BY DEF Init
  <2>7. outstanding \in 0 .. Cardinality(Procs)
    BY <2>1 DEF Init
  <2>8. tail \in 1 .. LOGSIZE /\ boot \in {"up", "readhead", "install", "clear"}
    BY LogSizeAssumption DEF Init
  <2>9. committing \in BOOLEAN
    BY Zenon DEF Init
  <2> QED
    BY <2>2, <2>3, <2>4, <2>5, <2>6, <2>7, <2>8, <2>9, LogSizeAssumption DEF TypeOK
<1>2. CommitIsAlone
  <2>1. InOp = {}
    BY DEF Init, InOp
  <2> QED
    BY <2>1, FS_EmptySet DEF Init, CommitIsAlone, InOp, Committing
<1> QED
  BY <1>1, <1>2 DEF Init, IInv, AtBoot, Turns, BootDirty, DiskHead, Installed, In

\* Steps that move processes between waiting places, or only fill the cache.
LEMMA WaitingKeeps ==
    ASSUME IInv, UNCHANGED <<stable, dirty, pinned, leaked, lh, counts, tail, boot>>,
           mem' \in [Blocks -> Vals \cup {Absent}],
           pc' \in [Procs -> PcSet],
           \A p \in Procs : pc'[p] = pc[p] \/ {pc[p], pc'[p]} \subseteq {"idle"} \cup Waiting,
           boot # "up" => pc' = pc
    PROVE  IInv'
<1> USE DEF stable, counts
<1>1. TypeOK'
  BY DEF IInv, TypeOK
<1>2. \A p \in Procs : pc'[p] # pc[p] => pc[p] \notin Committing \cup {"op"} /\ pc'[p] \notin Committing \cup {"op"}
  BY DEF Waiting, Committing
<1>3. CommitIsAlone'
  <2>1. InOp' = InOp
    BY <1>2 DEF InOp
  <2>2. \A p \in Procs : pc'[p] \in Committing <=> pc[p] \in Committing
    BY <1>2
  <2> QED
    BY <2>1, <2>2 DEF IInv, CommitIsAlone, InOp
<1>4. \A p \in Procs, S \in SUBSET Committing : pc'[p] \in S <=> pc[p] \in S
  BY <1>2
<1>5. AtBoot' /\ BootDirty'
  BY DEF IInv, AtBoot, BootDirty, Installed
<1>6. Turns' /\ DiskHead'
  BY <1>4 DEF IInv, Turns, DiskHead, In, Committing
<1> QED
  BY <1>1, <1>3, <1>5, <1>6 DEF IInv

\* An operation begins.
LEMMA BeginKeeps == ASSUME IInv, NEW p \in Procs, Begin(p) PROVE IInv'
<1> USE DEF stable, cache, counts
<1>1. boot = "up" /\ pc[p] \in {"idle", "begin"} /\ ~ committing /\ UNCHANGED committing
  BY DEF Begin, MayEnter
<1>2. pc' = [pc EXCEPT ![p] = "op"] /\ pc \in [Procs -> PcSet]
  BY DEF Begin, IInv, TypeOK
<1>3. \A q \in Procs : pc[q] \notin Committing /\ pc'[q] \notin Committing
  BY <1>1, <1>2 DEF IInv, CommitIsAlone, Committing
<1>4. CommitIsAlone'
  <2>1. Cardinality(InOp') = Cardinality(InOp) + 1
    BY <1>1, <1>2, InOpChanges
  <2>2. outstanding' = Cardinality(InOp')
    BY <2>1, InOpFinite DEF Begin, IInv, CommitIsAlone, InOp
  <2> QED
    BY <2>2, <1>1, <1>3 DEF CommitIsAlone, InOp
<1>5. TypeOK'
  <2>1. outstanding' \in 0 .. Cardinality(Procs)
    BY <1>4, InOpBound DEF CommitIsAlone, InOp
  <2>2. pc' \in [Procs -> PcSet] /\ writes' \in [Procs -> 0 .. OpWrites]
    BY <1>2, LogSizeAssumption DEF Begin, IInv, TypeOK, PcSet
  <2> QED
    BY <2>1, <2>2 DEF Begin, IInv, TypeOK
<1>6. DiskHead'
  BY <1>1, <1>3 DEF Begin, IInv, DiskHead, In, Committing
<1> QED
  BY <1>1, <1>3, <1>4, <1>5, <1>6 DEF Begin, IInv, AtBoot, Turns, BootDirty, In, Committing

\* An update inside an operation.
LEMMA WriteKeeps ==
    ASSUME IInv, NEW p \in Procs, NEW b \in Blocks, NEW v \in Vals, Write(p, b, v)
    PROVE  IInv'
<1> USE DEF stable, cache, counts
<1>1. pc[p] = "op" /\ UNCHANGED <<disk, slot, dhead, dirty, leaked, outstanding, committing, pc, tail, boot>>
  BY DEF Write
<1>2. boot = "up" /\ \A q \in Procs : pc[q] \notin Committing
  BY <1>1, NobodyCommits
<1>3. lh' \in Seq(Blocks) /\ Len(lh') < LOGSIZE
  BY LogSizeAssumption DEF Write, LoggedAs, Appends, LogFull, IInv, TypeOK
<1>4. TypeOK'
  <2>1. mem' \in [Blocks -> Vals \cup {Absent}] /\ pinned' \in SUBSET Blocks
    BY DEF Write, PinnedBy, IInv, TypeOK
  <2>2. writes' \in [Procs -> 0 .. OpWrites]
    BY LogSizeAssumption DEF Write, IInv, TypeOK
  <2> QED
    BY <1>1, <1>3, <2>1, <2>2 DEF IInv, TypeOK
<1>5. CommitIsAlone'
  BY <1>1 DEF IInv, CommitIsAlone
<1>6. DiskHead' /\ Turns'
  BY <1>1, <1>2 DEF IInv, DiskHead, Turns, In, Committing
<1> QED
  BY <1>1, <1>2, <1>4, <1>5, <1>6 DEF IInv, AtBoot, BootDirty

\* An operation ends and others are open.
LEMMA EndNotLastKeeps == ASSUME IInv, NEW p \in Procs, EndNotLast(p) PROVE IInv'
<1> USE DEF stable, cache, counts
<1>1. pc[p] = "op" /\ UNCHANGED <<disk, slot, dhead, cache, lh, committing, writes, tail, boot>>
  BY DEF EndNotLast
<1>2. boot = "up" /\ ~ committing /\ \A q \in Procs : pc[q] \notin Committing
  BY <1>1, NobodyCommits
<1>3. pc' \in [Procs -> PcSet] /\ \A q \in Procs : pc'[q] \notin Committing
  BY <1>2 DEF EndNotLast, Woken, IInv, TypeOK, PcSet, Waiting, Committing
<1>4. pc'[p] # "op" /\ \A q \in Procs : q # p => (pc'[q] = "op" <=> pc[q] = "op")
  BY <1>1 DEF EndNotLast, Woken, IInv, TypeOK
<1>5. CommitIsAlone'
  <2>1. outstanding' = Cardinality(InOp')
    BY <1>1, <1>4, InOpChanges, InOpFinite DEF EndNotLast, IInv, CommitIsAlone, InOp
  <2> QED
    BY <1>1, <1>2, <1>3, <2>1 DEF CommitIsAlone, InOp
<1>6. TypeOK'
  <2>1. outstanding' \in 0 .. Cardinality(Procs)
    BY <1>5, InOpBound DEF CommitIsAlone, InOp
  <2> QED
    BY <1>1, <1>3, <2>1 DEF IInv, TypeOK
<1>7. DiskHead' /\ Turns'
  BY <1>1, <1>2, <1>3 DEF IInv, DiskHead, Turns, In, Committing
<1> QED
  BY <1>1, <1>2, <1>5, <1>6, <1>7 DEF IInv, AtBoot, BootDirty

\* The last operation ends: its process commits.
LEMMA EndLastKeeps == ASSUME IInv, NEW p \in Procs, EndLast(p) PROVE IInv'
<1> USE DEF stable, cache, counts
<1>1. pc[p] = "op" /\ outstanding = 1 /\ outstanding' = 0 /\ tail' = 1
      /\ UNCHANGED <<disk, slot, dhead, cache, lh, writes, boot>>
  BY DEF EndLast
<1>2. boot = "up" /\ \A q \in Procs : pc[q] \notin Committing /\ (pc[q] = "op" => q = p)
  BY <1>1, NobodyCommits
<1>3. pc' = [pc EXCEPT ![p] = FirstStage] /\ pc \in [Procs -> PcSet]
      /\ FirstStage \in {"done", "wlog"} /\ (FirstStage = "done" <=> lh = <<>>)
  BY DEF EndLast, FirstStage, IInv, TypeOK
<1>4. \A q \in Procs : pc'[q] # "op" /\ (pc'[q] \in Committing <=> q = p)
  BY <1>2, <1>3 DEF Committing
<1>5. CommitIsAlone'
  <2>1. InOp' = {} /\ committing'
    BY <1>4 DEF InOp, EndLast
  <2> QED
    BY <1>1, <1>4, <2>1, FS_EmptySet DEF CommitIsAlone, InOp
<1>6. TypeOK'
  <2>1. pc' \in [Procs -> PcSet]
    BY <1>3 DEF PcSet, Committing
  <2>2. committing' \in BOOLEAN
    BY Zenon DEF EndLast
  <2>3. 1 \in 1 .. LOGSIZE /\ 0 \in 0 .. Cardinality(Procs)
    BY LogSizeAssumption, FS_CardinalityType
  <2> QED
    BY <1>1, <2>1, <2>2, <2>3 DEF IInv, TypeOK
<1>7. DiskHead' /\ Turns'
  BY <1>1, <1>2, <1>3 DEF IInv, TypeOK, DiskHead, Turns, In, Committing
<1> QED
  BY <1>1, <1>2, <1>5, <1>6, <1>7 DEF IInv, AtBoot, BootDirty

-----------------------------------------------------------------------------
(***************************************************************************)
(* The commit keeps it                                                     *)
(***************************************************************************)

\* A turn of a loop ends in the next turn or in the next stage.
LEMMA TurnAdvances ==
    ASSUME NEW i \in DOMAIN lh, lh \in Seq(Blocks), NEW same, NEW next
    PROVE  /\ i # Len(lh) => /\ NextTurn(i, same, next).stage = same
                             /\ NextTurn(i, same, next).tail = i + 1
                             /\ i + 1 \in DOMAIN lh
           /\ i = Len(lh) => /\ NextTurn(i, same, next).stage = next
                             /\ NextTurn(i, same, next).tail = 1
BY DEF NextTurn

\* The committer goes from one stage to another.
LEMMA CommitterMoves ==
    ASSUME IInv, NEW p \in Procs, pc[p] \in Committing, NEW st \in Committing,
           pc' = [pc EXCEPT ![p] = st], UNCHANGED <<outstanding, committing, boot>>
    PROVE  /\ pc' \in [Procs -> PcSet] /\ CommitIsAlone' /\ AtBoot'
           /\ pc'[p] = st /\ boot = "up"
           /\ \A q \in Procs \ {p} : pc[q] \notin Committing /\ pc'[q] \notin Committing
           /\ \A q \in Procs : pc[q] # "op" /\ pc'[q] # "op"
<1>1. boot = "up" /\ outstanding = 0 /\ \A q \in Procs : pc[q] # "op" /\ (pc[q] \in Committing => q = p)
  BY CommitterAlone
<1>2. pc \in [Procs -> PcSet] /\ pc' \in [Procs -> PcSet] /\ pc'[p] = st
  BY DEF IInv, TypeOK, PcSet
<1>3. \A q \in Procs : pc'[q] # "op" /\ (pc'[q] \in Committing <=> q = p)
  BY <1>1, <1>2 DEF Committing
<1>4. CommitIsAlone'
  <2>1. InOp' = InOp
    BY <1>1, <1>3 DEF InOp
  <2>2. committing' <=> \E q \in Procs : pc'[q] \in Committing
    BY <1>3 DEF IInv, CommitIsAlone
  <2> QED
    BY <1>3, <2>1, <2>2 DEF IInv, CommitIsAlone, InOp
<1> QED
  BY <1>1, <1>2, <1>3, <1>4 DEF AtBoot

\* The data a transfer moves, and the buffers a turn leaves behind, are typed.
LEMMA TurnTypes ==
    ASSUME TypeOK, NEW i \in DOMAIN lh
    PROVE  /\ i \in LogSlot /\ lh[i] \in Blocks
           /\ LogId(i) \in BlockId /\ SecondId(i) \in BlockId /\ HeadId \in BlockId
           /\ Data(lh[i]) \in Vals
           /\ LeakedAt(i) \in SUBSET BlockId
<1>1. i \in LogSlot /\ lh[i] \in Blocks
  BY LogSizeAssumption DEF TypeOK, LogSlot
<1>2. LogId(i) \in BlockId /\ SecondId(i) \in BlockId /\ HeadId \in BlockId
  BY <1>1 DEF BlockId, SecondId
<1>3. Data(lh[i]) \in Vals
  BY <1>1 DEF TypeOK, Data
<1> QED
  BY <1>1, <1>2, <1>3 DEF LeakedAt, TypeOK

\* commit waits for a buffer that is locked for ever.
LEMMA StuckKeeps == ASSUME IInv, NEW p \in Procs, Stuck(p) PROVE IInv'
<1> USE DEF stable, cache, counts
<1>1. pc[p] \in Committing /\ pc' = [pc EXCEPT ![p] = "stuck"] /\ "stuck" \in Committing
      /\ UNCHANGED <<disk, slot, dhead, mem, dirty, pinned, leaked, lh, outstanding,
                     committing, writes, tail, boot>>
  BY DEF Stuck, Committing
<1>2. /\ pc' \in [Procs -> PcSet] /\ CommitIsAlone' /\ AtBoot'
      /\ pc'[p] = "stuck" /\ boot = "up"
      /\ \A q \in Procs \ {p} : pc[q] \notin Committing /\ pc'[q] \notin Committing
  BY <1>1, CommitterMoves
<1>3. TypeOK'
  BY <1>1, <1>2 DEF IInv, TypeOK
<1>4. DiskHead' /\ Turns' /\ BootDirty'
  BY <1>1, <1>2 DEF IInv, DiskHead, Turns, BootDirty, In, Committing
<1> QED
  BY <1>2, <1>3, <1>4 DEF IInv

\* A turn of write_log.
LEMMA WriteLogKeeps == ASSUME IInv, NEW p \in Procs, WriteLog(p) PROVE IInv'
<1> USE DEF stable, cache, counts
<1> DEFINE st == NextTurn(tail, "wlog", "whead").stage
<1>1. pc[p] = "wlog" /\ pc[p] \in Committing /\ pc' = [pc EXCEPT ![p] = st]
      /\ tail' = NextTurn(tail, "wlog", "whead").tail /\ leaked' = LeakedAt(tail)
      /\ UNCHANGED <<disk, dhead, pinned, lh, outstanding, committing, writes, boot>>
  BY DEF WriteLog, Committing
<1>2. tail \in DOMAIN lh /\ lh \in Seq(Blocks) /\ TypeOK
  BY <1>1 DEF IInv, Turns, TypeOK
<1>3. \/ st = "wlog" /\ tail' \in DOMAIN lh
      \/ st = "whead" /\ tail' = 1
  BY <1>1, <1>2, TurnAdvances
<1>4. st \in Committing
  BY <1>3 DEF Committing
<1> HIDE DEF st
<1>5. /\ pc' \in [Procs -> PcSet] /\ CommitIsAlone' /\ AtBoot'
      /\ pc'[p] = st /\ boot = "up"
      /\ \A q \in Procs \ {p} : pc[q] \notin Committing /\ pc'[q] \notin Committing
  BY <1>1, <1>4, CommitterMoves
<1>6. TypeOK'
  <2>1. slot' \in [LogSlot -> Vals] /\ mem' \in [Blocks -> Vals \cup {Absent}]
        /\ dirty' \in SUBSET BlockId /\ leaked' \in SUBSET BlockId
    <3>1. tail \in LogSlot /\ lh[tail] \in Blocks /\ Data(lh[tail]) \in Vals
          /\ LogId(tail) \in BlockId /\ leaked' \in SUBSET BlockId
      BY <1>1, <1>2, TurnTypes
    <3> QED
      BY <1>2, <3>1 DEF WriteLog, TypeOK
  <2>2. tail' \in 1 .. LOGSIZE
    BY <1>2, <1>3, LogSizeAssumption DEF TypeOK
  <2> QED
    BY <1>1, <1>2, <1>5, <2>1, <2>2 DEF TypeOK
<1>7. DiskHead' /\ Turns' /\ BootDirty'
  <2>1. HeadId \in dirty => HeadId \in dirty'
    BY DEF WriteLog
  <2> QED
    BY <1>1, <1>3, <1>5, <2>1 DEF IInv, DiskHead, Turns, BootDirty, In, Committing
<1> QED
  BY <1>5, <1>6, <1>7 DEF IInv

\* The header's buffer can be had: it is in the cache for good.
LEMMA HeadCanBeHad == HeadId \in dirty => CanGet({}, HeadId)
BY DEF CanGet, InUse

\* write_head with the transaction.
LEMMA WriteHeadKeeps == ASSUME IInv, NEW p \in Procs, WriteHead(p) PROVE IInv'
<1> USE DEF stable, cache, counts
<1>1. pc[p] \in Committing /\ pc' = [pc EXCEPT ![p] = "install"] /\ "install" \in Committing
      /\ pc[p] = "whead" /\ tail' = 1
      /\ UNCHANGED <<disk, slot, mem, pinned, leaked, lh, outstanding, committing, writes, boot>>
  BY DEF WriteHead, Committing
<1>2. /\ pc' \in [Procs -> PcSet] /\ CommitIsAlone' /\ AtBoot'
      /\ pc'[p] = "install" /\ boot = "up"
      /\ \A q \in Procs \ {p} : pc[q] \notin Committing /\ pc'[q] \notin Committing
  BY <1>1, CommitterMoves
<1>3. dhead' = lh /\ dirty' = dirty \cup {HeadId}
  BY <1>2, HeadCanBeHad DEF WriteHead, HeadWritten, IInv, DiskHead
<1>4. lh \in Seq(Blocks) /\ Len(lh) < LOGSIZE /\ lh # <<>> /\ 1 \in DOMAIN lh
  BY <1>1 DEF IInv, TypeOK, Turns, In
<1>5. TypeOK'
  <2>1. dirty' \in SUBSET BlockId /\ 1 \in 1 .. LOGSIZE
    BY <1>3, LogSizeAssumption DEF IInv, TypeOK, BlockId
  <2> QED
    BY <1>1, <1>2, <1>3, <1>4, <2>1 DEF IInv, TypeOK
<1>6. DiskHead' /\ Turns' /\ BootDirty'
  BY <1>1, <1>2, <1>3, <1>4 DEF IInv, DiskHead, Turns, BootDirty, In, Committing
<1> QED
  BY <1>2, <1>5, <1>6 DEF IInv

\* A turn of install_trans, in a commit or at boot, is typed.
LEMMA InstallTypes ==
    ASSUME TypeOK, NEW i \in DOMAIN lh, NEW S, InstallTurn(i, S)
    PROVE  /\ disk' \in [Blocks -> Vals] /\ mem' \in [Blocks -> Vals \cup {Absent}]
           /\ dirty' \in SUBSET BlockId /\ dirty \subseteq dirty'
           /\ pinned' \in SUBSET Blocks /\ pinned' \subseteq pinned
           /\ leaked' \in SUBSET BlockId
<1>1. i \in LogSlot /\ lh[i] \in Blocks /\ SecondId(i) \in BlockId /\ LeakedAt(i) \in SUBSET BlockId
  BY TurnTypes
<1> QED
  BY <1>1 DEF InstallTurn, TypeOK

\* A turn of install_trans in a commit.
LEMMA InstallKeeps == ASSUME IInv, NEW p \in Procs, Install(p) PROVE IInv'
<1> USE DEF stable, cache, counts
<1> DEFINE st == NextTurn(tail, "install", "clear").stage
<1>1. pc[p] = "install" /\ pc[p] \in Committing /\ pc' = [pc EXCEPT ![p] = st]
      /\ tail' = NextTurn(tail, "install", "clear").tail /\ InstallTurn(tail, {lh[tail]})
      /\ UNCHANGED <<slot, dhead, lh, outstanding, committing, writes, boot>>
  BY DEF Install, Committing
<1>2. tail \in DOMAIN lh /\ lh \in Seq(Blocks) /\ TypeOK
  BY <1>1 DEF IInv, Turns, TypeOK
<1>3. \/ st = "install" /\ tail' \in DOMAIN lh
      \/ st = "clear" /\ tail' = 1
  BY <1>1, <1>2, TurnAdvances
<1>4. st \in Committing
  BY <1>3 DEF Committing
<1> HIDE DEF st
<1>5. /\ pc' \in [Procs -> PcSet] /\ CommitIsAlone' /\ AtBoot'
      /\ pc'[p] = st /\ boot = "up"
      /\ \A q \in Procs \ {p} : pc[q] \notin Committing /\ pc'[q] \notin Committing
  BY <1>1, <1>4, CommitterMoves
<1>6. TypeOK' /\ dirty \subseteq dirty'
  <2>1. /\ disk' \in [Blocks -> Vals] /\ mem' \in [Blocks -> Vals \cup {Absent}]
        /\ dirty' \in SUBSET BlockId /\ dirty \subseteq dirty'
        /\ pinned' \in SUBSET Blocks /\ leaked' \in SUBSET BlockId
    BY <1>1, <1>2, InstallTypes
  <2>2. tail' \in 1 .. LOGSIZE
    BY <1>2, <1>3, LogSizeAssumption DEF TypeOK
  <2> QED
    BY <1>1, <1>2, <1>5, <2>1, <2>2 DEF TypeOK
<1>7. DiskHead' /\ Turns' /\ BootDirty'
  BY <1>1, <1>3, <1>5, <1>6 DEF IInv, DiskHead, Turns, BootDirty, In, Committing
<1> QED
  BY <1>5, <1>6, <1>7 DEF IInv

\* write_head with the empty header.
LEMMA ClearKeeps == ASSUME IInv, NEW p \in Procs, Clear(p) PROVE IInv'
<1> USE DEF stable, cache, counts
<1>1. pc[p] = "clear" /\ pc[p] \in Committing /\ pc' = [pc EXCEPT ![p] = "done"] /\ "done" \in Committing
      /\ lh' = <<>>
      /\ UNCHANGED <<disk, slot, mem, pinned, leaked, outstanding, committing, writes, tail, boot>>
  BY DEF Clear, Committing
<1>2. /\ pc' \in [Procs -> PcSet] /\ CommitIsAlone' /\ AtBoot'
      /\ pc'[p] = "done" /\ boot = "up"
      /\ \A q \in Procs \ {p} : pc[q] \notin Committing /\ pc'[q] \notin Committing
  BY <1>1, CommitterMoves
<1>3. dhead' = <<>> /\ dirty' = dirty \cup {HeadId}
  BY <1>2, HeadCanBeHad DEF Clear, HeadWritten, IInv, DiskHead
<1>4. TypeOK'
  <2>1. dirty' \in SUBSET BlockId /\ <<>> \in Seq(Blocks) /\ Len(<<>>) < LOGSIZE
    BY <1>3, LogSizeAssumption DEF IInv, TypeOK, BlockId
  <2> QED
    BY <1>1, <1>2, <1>3, <2>1 DEF IInv, TypeOK
<1>5. DiskHead' /\ Turns' /\ BootDirty'
  BY <1>1, <1>2, <1>3 DEF IInv, DiskHead, Turns, BootDirty, In, Committing
<1> QED
  BY <1>2, <1>4, <1>5 DEF IInv

\* The end of log_end_op.
LEMMA FinishKeeps == ASSUME IInv, NEW p \in Procs, Finish(p) PROVE IInv'
<1> USE DEF stable, cache, counts
<1>1. pc[p] = "done" /\ pc[p] \in Committing /\ committing' = FALSE
      /\ UNCHANGED <<disk, slot, dhead, cache, lh, outstanding, writes, tail, boot>>
  BY DEF Finish, Committing
<1>2. boot = "up" /\ outstanding = 0 /\ \A q \in Procs : pc[q] # "op" /\ (pc[q] \in Committing => q = p)
  BY <1>1, CommitterAlone
<1>3. pc' \in [Procs -> PcSet] /\ \A q \in Procs : pc'[q] \notin Committing \cup {"op"}
  BY <1>2 DEF Finish, Woken, IInv, TypeOK, PcSet, Waiting, Committing
<1>4. CommitIsAlone'
  <2>1. InOp' = InOp
    BY <1>2, <1>3 DEF InOp
  <2> QED
    BY <1>1, <1>2, <1>3, <2>1 DEF IInv, CommitIsAlone, InOp
<1>5. TypeOK'
  <2>1. committing' \in BOOLEAN
    BY Zenon DEF Finish
  <2> QED
    BY <1>1, <1>3, <2>1 DEF IInv, TypeOK
<1>6. DiskHead' /\ Turns' /\ BootDirty'
  BY <1>1, <1>2, <1>3 DEF IInv, DiskHead, Turns, BootDirty, In, Committing
<1> QED
  BY <1>2, <1>1, <1>4, <1>5, <1>6 DEF IInv, AtBoot

-----------------------------------------------------------------------------
(***************************************************************************)
(* Crash and recovery keep it                                              *)
(***************************************************************************)

LEMMA CrashKeeps == ASSUME TypeOK, Crash PROVE IInv'
<1> USE DEF stable
<1>1. CommitIsAlone'
  <2>1. InOp' = {}
    BY DEF Crash, InOp
  <2> QED
    BY <2>1, FS_EmptySet DEF Crash, CommitIsAlone, InOp, Committing
<1>2. TypeOK'
  <2>1. Cardinality(Procs) \in Nat
    BY LogSizeAssumption, FS_CardinalityType
  <2>2. disk' = disk /\ slot' = slot /\ dhead' = dhead
    BY DEF Crash
  <2>3. lh' \in Seq(Blocks) /\ Len(lh') < LOGSIZE
    BY LogSizeAssumption DEF Crash
  <2>4. pc' \in [Procs -> PcSet] /\ writes' \in [Procs -> 0 .. OpWrites]
    BY LogSizeAssumption DEF Crash, PcSet
  <2>5. mem' \in [Blocks -> Vals \cup {Absent}]
    BY DEF Crash
  <2>6. dirty' \in SUBSET BlockId /\ pinned' \in SUBSET Blocks /\ leaked' \in SUBSET BlockId
    BY DEF Crash
  <2>7. outstanding' \in 0 .. Cardinality(Procs) /\ tail' \in 1 .. LOGSIZE
    BY <2>1, LogSizeAssumption DEF Crash
  <2>8. committing' \in BOOLEAN
    BY Zenon DEF Crash
  <2>9. boot' \in {"up", "readhead", "install", "clear"}
    BY DEF Crash
  <2> QED
    BY <2>2, <2>3, <2>4, <2>5, <2>6, <2>7, <2>8, <2>9 DEF TypeOK
<1> QED
  BY <1>1, <1>2 DEF Crash, IInv, AtBoot, Turns, BootDirty, DiskHead, Installed, In

\* While log_init runs, the processes stay as they are.
LEMMA BootAlone ==
    ASSUME IInv, boot # "up", UNCHANGED <<counts, pc>>
    PROVE  /\ \A p \in Procs : pc[p] = "idle" /\ pc'[p] = "idle"
           /\ CommitIsAlone' /\ ~ committing' /\ pinned = {} /\ leaked = {}
<1>1. CommitIsAlone'
  BY DEF IInv, CommitIsAlone, counts
<1> QED
  BY <1>1 DEF IInv, AtBoot, counts

LEMMA RecoverReadHeadKeeps == ASSUME IInv, RecoverReadHead PROVE IInv'
<1> USE DEF stable, cache, counts
<1>1. boot = "readhead" /\ lh' = dhead /\ boot' = (IF dhead = <<>> THEN "clear" ELSE "install")
      /\ UNCHANGED <<disk, slot, dhead, mem, dirty, pinned, leaked, counts, pc, tail>>
  BY DEF RecoverReadHead
<1>2. /\ \A p \in Procs : pc'[p] = "idle"
      /\ CommitIsAlone' /\ ~ committing' /\ pinned = {} /\ leaked = {}
  BY <1>1, BootAlone
<1>3. tail = 1 /\ dirty = {}
  BY <1>1 DEF IInv, AtBoot, BootDirty, Installed, DiskHead
<1>4. TypeOK'
  BY <1>1 DEF IInv, TypeOK
<1>5. boot' = "install" => 1 \in DOMAIN dhead
  BY <1>1 DEF IInv, TypeOK
<1> QED
  BY <1>1, <1>2, <1>3, <1>4, <1>5 DEF IInv, AtBoot, Turns, BootDirty, DiskHead, In

\* A cache that has dirtied n homes has at most n buffers in use.
LEMMA HomesCount ==
    ASSUME NEW n \in Nat, NEW s, NEW D \in SUBSET {Home(s[j]) : j \in 1 .. n}
    PROVE  IsFiniteSet(D) /\ Cardinality(D) \in 0 .. n
<1> DEFINE T == {Home(s[j]) : j \in 1 .. n}
           f == [j \in 1 .. n |-> Home(s[j])]
<1>1. f \in Surjection(1 .. n, T)
  BY DEF Surjection
<1>2. IsFiniteSet(1 .. n) /\ Cardinality(1 .. n) = n
  BY FS_Interval
<1>3. IsFiniteSet(T) /\ Cardinality(T) <= n
  BY <1>1, <1>2, FS_Surjection
<1> QED
  BY <1>3, FS_Subset, FS_CardinalityType

\* Recovery never runs out of buffers: the header can be had after the last
\* turn, and every turn gets its log block and its home block.
LEMMA RecoveryIsServed ==
    ASSUME IInv
    PROVE  /\ boot = "clear" => CanGet({}, HeadId)
           /\ boot = "install" => GotBoth(tail)
<1>1. ASSUME boot # "up" PROVE InUse = dirty
  BY <1>1 DEF IInv, AtBoot, InUse
<1>2. ASSUME boot = "clear" PROVE CanGet({}, HeadId)
  <2>1. dirty \in SUBSET {Home(lh[j]) : j \in 1 .. Len(lh)} /\ Len(lh) \in Nat /\ Len(lh) < LOGSIZE
    BY <1>2 DEF IInv, BootDirty, Installed, TypeOK
  <2>2. Cardinality(dirty) \in 0 .. Len(lh)
    BY <2>1, HomesCount
  <2>3. InUse \cup {} = dirty
    BY <1>1, <1>2
  <2>4. Cardinality(InUse \cup {}) < NBUF
    BY <2>1, <2>2, <2>3, LogSizeAssumption
  <2> QED
    BY <2>4 DEF CanGet
<1>3. ASSUME boot = "install" PROVE GotBoth(tail)
  <2>1. dirty \in SUBSET {Home(lh[j]) : j \in 1 .. tail - 1} /\ tail - 1 \in Nat /\ tail < LOGSIZE
        /\ tail \in Nat
    BY <1>3, LogSizeAssumption DEF IInv, BootDirty, Installed, Turns, TypeOK
  <2>2. IsFiniteSet(dirty) /\ Cardinality(dirty) \in 0 .. tail - 1
    BY <2>1, HomesCount
  <2>3. InUse \cup {} = dirty /\ InUse \cup {LogId(tail)} = dirty \cup {LogId(tail)}
    BY <1>1, <1>3
  <2> DEFINE c == Cardinality(dirty \cup {LogId(tail)})
  <2>4. c = IF LogId(tail) \in dirty THEN Cardinality(dirty) ELSE Cardinality(dirty) + 1
    BY <2>2, FS_AddElement, Zenon
  <2>5. c \in Nat /\ c <= tail
    BY <2>1, <2>2, <2>4
  <2>6. Cardinality(InUse \cup {}) < NBUF /\ Cardinality(InUse \cup {LogId(tail)}) < NBUF
    <3>1. tail < NBUF /\ Cardinality(dirty) < NBUF
      BY <2>1, <2>2, LogSizeAssumption
    <3> QED
      BY <2>1, <2>3, <2>5, <3>1, LogSizeAssumption
  <2> QED
    BY <2>6 DEF GotBoth, GotFirst, GotSecond, CanGet
<1> QED
  BY <1>2, <1>3

\* A turn of install_trans at boot.
LEMMA RecoverInstallKeeps == ASSUME IInv, RecoverInstall PROVE IInv'
<1> USE DEF stable, cache, counts
<1> DEFINE st == NextTurn(tail, "install", "clear").stage
<1>1. boot = "install" /\ boot' = st /\ tail' = NextTurn(tail, "install", "clear").tail
      /\ InstallTurn(tail, {}) /\ UNCHANGED <<slot, dhead, lh, counts, pc>>
  BY DEF RecoverInstall
<1>2. tail \in DOMAIN lh /\ lh \in Seq(Blocks) /\ TypeOK
  BY <1>1 DEF IInv, Turns, TypeOK
<1>3. \/ st = "install" /\ tail # Len(lh) /\ tail' = tail + 1 /\ tail' \in DOMAIN lh
      \/ st = "clear" /\ tail = Len(lh) /\ tail' = 1
  BY <1>1, <1>2, TurnAdvances
<1> HIDE DEF st
<1>4. /\ \A p \in Procs : pc'[p] = "idle"
      /\ CommitIsAlone' /\ ~ committing' /\ pinned = {} /\ leaked = {}
  BY <1>1, BootAlone
<1>5. /\ disk' \in [Blocks -> Vals] /\ mem' \in [Blocks -> Vals \cup {Absent}]
      /\ dirty' \in SUBSET BlockId /\ pinned' \in SUBSET Blocks /\ leaked' \in SUBSET BlockId
      /\ pinned' \subseteq pinned
  BY <1>1, <1>2, InstallTypes
<1>6. TypeOK'
  <2>1. tail' \in 1 .. LOGSIZE
    BY <1>2, <1>3, LogSizeAssumption DEF TypeOK
  <2> QED
    BY <1>1, <1>2, <1>3, <1>5, <2>1 DEF TypeOK
<1>7. GotBoth(tail)
  BY <1>1, RecoveryIsServed
<1>8. leaked' = {} /\ dirty' = dirty \cup {Home(lh[tail])}
  BY <1>1, <1>4, <1>7 DEF InstallTurn, LeakedAt, SecondId
<1>9. BootDirty'
  <2>1. Installed = 1 .. tail - 1 /\ tail \in Installed' /\ Installed \subseteq Installed'
    BY <1>1, <1>2, <1>3 DEF Installed
  <2> QED
    BY <1>1, <1>8, <2>1 DEF IInv, BootDirty
<1>10. DiskHead' /\ Turns' /\ AtBoot'
  BY <1>1, <1>3, <1>4, <1>5, <1>8 DEF IInv, DiskHead, Turns, AtBoot, In
<1> QED
  BY <1>4, <1>6, <1>9, <1>10 DEF IInv

LEMMA RecoverClearKeeps == ASSUME IInv, RecoverClear PROVE IInv'
<1> USE DEF stable, cache, counts
<1>1. boot = "clear" /\ boot' = "up" /\ lh' = <<>>
      /\ UNCHANGED <<disk, slot, mem, pinned, leaked, counts, pc, tail>>
  BY DEF RecoverClear
<1>2. dhead' = <<>> /\ dirty' = dirty \cup {HeadId}
  BY <1>1, RecoveryIsServed DEF RecoverClear, HeadWritten
<1>3. /\ \A p \in Procs : pc'[p] = "idle"
      /\ CommitIsAlone' /\ ~ committing' /\ pinned = {} /\ leaked = {}
  BY <1>1, BootAlone
<1>4. TypeOK'
  <2>1. dirty' \in SUBSET BlockId /\ <<>> \in Seq(Blocks) /\ Len(<<>>) < LOGSIZE
    BY <1>2, LogSizeAssumption DEF IInv, TypeOK, BlockId
  <2> QED
    BY <1>1, <1>2, <2>1 DEF IInv, TypeOK
<1> QED
  BY <1>1, <1>2, <1>3, <1>4 DEF IInv, DiskHead, Turns, AtBoot, BootDirty, In

\* Evict and Load fill and empty the cache only.
LEMMA CacheMoves ==
    ASSUME TypeOK, NEW b \in Blocks, Evict(b) \/ Load(b)
    PROVE  /\ mem' \in [Blocks -> Vals \cup {Absent}]
           /\ UNCHANGED <<stable, dirty, pinned, leaked, lh, counts, pc, tail, boot>>
BY DEF TypeOK, Evict, Load

\* BeginWaits, FallAsleep and OtherWakeup move processes only, and not at boot.
LEMMA WaitingMoves ==
    ASSUME IInv, OtherWakeup \/ \E p \in Procs : BeginWaits(p) \/ FallAsleep(p)
    PROVE  /\ UNCHANGED <<stable, cache, lh, counts, tail, boot>>
           /\ pc' \in [Procs -> PcSet] /\ boot = "up"
           /\ \A p \in Procs : pc'[p] = pc[p] \/ {pc[p], pc'[p]} \subseteq {"idle"} \cup Waiting
<1>1. pc \in [Procs -> PcSet]
  BY DEF IInv, TypeOK
<1>2. boot # "up" => \A p \in Procs : pc[p] = "idle"
  BY DEF IInv, AtBoot
<1>3. CASE OtherWakeup
  BY <1>1, <1>2, <1>3 DEF OtherWakeup, Woken, PcSet, Waiting
<1>4. CASE \E p \in Procs : BeginWaits(p) \/ FallAsleep(p)
  BY <1>1, <1>2, <1>4 DEF BeginWaits, FallAsleep, PcSet, Waiting
<1> QED
  BY <1>3, <1>4

LEMMA StepIInv == IInv /\ [Next]_vars => IInv'
<1> SUFFICES ASSUME IInv, [Next]_vars PROVE IInv'
  OBVIOUS
<1> USE DEF stable, cache, counts
<1>1. CASE UNCHANGED vars
  <2>1. mem' \in [Blocks -> Vals \cup {Absent}] /\ pc' \in [Procs -> PcSet]
    BY <1>1 DEF vars, IInv, TypeOK
  <2> QED
    BY <1>1, <2>1, WaitingKeeps DEF vars
<1>2. CASE OtherWakeup \/ \E p \in Procs : BeginWaits(p) \/ FallAsleep(p)
  <2>1. mem \in [Blocks -> Vals \cup {Absent}]
    BY DEF IInv, TypeOK
  <2> QED
    BY <1>2, <2>1, WaitingMoves, WaitingKeeps
<1>3. CASE \E b \in Blocks : Evict(b) \/ Load(b)
  <2>1. pc \in [Procs -> PcSet]
    BY DEF IInv, TypeOK
  <2> QED
    BY <1>3, <2>1, CacheMoves, WaitingKeeps DEF IInv
<1>4. ASSUME NEW p \in Procs, ProcStep(p) \/ Stuck(p), ~ (BeginWaits(p) \/ FallAsleep(p))
      PROVE  IInv'
  BY <1>4, BeginKeeps, WriteKeeps, EndNotLastKeeps, EndLastKeeps, WriteLogKeeps,
     WriteHeadKeeps, InstallKeeps, ClearKeeps, FinishKeeps, StuckKeeps
     DEF ProcStep, CommitStep
<1>5. CASE Crash
  BY <1>5, CrashKeeps DEF IInv
<1>6. CASE Recover
  BY <1>6, RecoverReadHeadKeeps, RecoverInstallKeeps, RecoverClearKeeps DEF Recover
<1> QED
  BY <1>1, <1>2, <1>3, <1>4, <1>5, <1>6 DEF Next

LEMMA Invariance == Spec => []IInv
BY InitIInv, StepIInv, PTL DEF Spec

\* While a commit runs nobody is inside an operation and only one process
\* commits, crashes and exhausted caches included (log_begin_op, log_end_op).
THEOREM CommitsAlone == Spec => []CommitIsAlone
<1>1. IInv => CommitIsAlone
  BY DEF IInv
<1> QED
  BY <1>1, Invariance, PTL

\* A home block changes only while the header on disk names it, with what its
\* log block holds: in a commit whose cache runs out, and in recovery
\* (install_trans after write_head).
THEOREM WritesAhead == Spec => WriteAhead
<1> DEFINE Named == \A b \in Blocks : disk'[b] # disk[b] =>
                        \E i \in DOMAIN dhead : dhead[i] = b /\ disk'[b] = slot[i]
<1>1. ASSUME IInv, [Next]_vars PROVE Named
  <2> USE DEF stable
  <2>1. ASSUME NEW S, InstallTurn(tail, S), lh = dhead, tail \in DOMAIN lh PROVE Named
    <3>1. disk \in [Blocks -> Vals] /\ lh[tail] \in Blocks
      BY <1>1, <2>1, TurnTypes DEF IInv, TypeOK
    <3>2. disk' = disk \/ disk' = [disk EXCEPT ![lh[tail]] = slot[tail]]
      BY <2>1 DEF InstallTurn
    <3>3. \A b \in Blocks : disk'[b] # disk[b] => b = lh[tail] /\ disk'[b] = slot[tail]
      BY <3>1, <3>2
    <3> QED
      BY <2>1, <3>3
  <2> HIDE DEF Named
  <2>2. ASSUME NEW p \in Procs, Install(p) PROVE Named
    <3>1. pc[p] = "install" /\ pc[p] \in Committing /\ InstallTurn(tail, {lh[tail]})
      BY <2>2 DEF Install, Committing
    <3>2. boot = "up"
      BY <1>1, <3>1, CommitterAlone
    <3>3. lh = dhead /\ tail \in DOMAIN lh
      BY <1>1, <3>1, <3>2 DEF IInv, DiskHead, Turns, In
    <3> QED
      BY <2>1, <3>1, <3>3
  <2>3. CASE RecoverInstall
    <3>1. InstallTurn(tail, {}) /\ lh = dhead /\ tail \in DOMAIN lh
      BY <1>1, <2>3 DEF RecoverInstall, IInv, DiskHead, Turns
    <3> QED
      BY <2>1, <3>1
  <2>4. ASSUME ~ (\E p \in Procs : Install(p)), ~ RecoverInstall PROVE disk' = disk
    BY <1>1, <2>4 DEF Next, vars, ProcStep, CommitStep, Recover, Begin, BeginWaits, FallAsleep,
       Write, EndNotLast, EndLast, WriteLog, WriteHead, Clear, Finish, Stuck, Evict, Load,
       OtherWakeup, Crash, RecoverReadHead, RecoverClear
  <2> QED
    BY <2>2, <2>3, <2>4 DEF Named
<1> QED
  BY <1>1, Invariance, PTL DEF Spec, WriteAhead

-----------------------------------------------------------------------------
(***************************************************************************)
(* The reservation                                                         *)
(***************************************************************************)

LEMMA ReservedFinite ==
    IsFiniteSet(Procs \X (1 .. MAXOPBLOCKS)) /\ IsFiniteSet(Reserved) /\ Cardinality(Reserved) \in Nat
<1>1. IsFiniteSet(1 .. MAXOPBLOCKS)
  BY FS_Interval, LogSizeAssumption
<1>2. IsFiniteSet(Procs \X (1 .. MAXOPBLOCKS))
  BY <1>1, FS_Product, LogSizeAssumption
<1>3. Reserved \in SUBSET (Procs \X (1 .. MAXOPBLOCKS))
  BY DEF Reserved
<1> QED
  BY <1>2, <1>3, FS_Subset, FS_CardinalityType

\* Open operations have reserved at most MAXOPBLOCKS blocks each.
LEMMA ReservedBound ==
    ASSUME NEW S \in SUBSET Procs, NEW R \in SUBSET (S \X (1 .. MAXOPBLOCKS))
    PROVE  /\ IsFiniteSet(R) /\ Cardinality(R) \in Nat
           /\ Cardinality(R) <= Cardinality(S) * MAXOPBLOCKS
<1>1. IsFiniteSet(1 .. MAXOPBLOCKS) /\ Cardinality(1 .. MAXOPBLOCKS) = MAXOPBLOCKS
  BY FS_Interval, LogSizeAssumption
<1>2. IsFiniteSet(S)
  BY FS_Subset, LogSizeAssumption
<1>3. IsFiniteSet(S \X (1 .. MAXOPBLOCKS))
      /\ Cardinality(S \X (1 .. MAXOPBLOCKS)) = Cardinality(S) * Cardinality(1 .. MAXOPBLOCKS)
  BY <1>1, <1>2, FS_Product
<1> QED
  BY <1>1, <1>3, FS_Subset, FS_CardinalityType

\* Nothing new is reserved and the log does not grow.
LEMMA RoomKept ==
    ASSUME TypeOK, TypeOK', Room, Reserved' \subseteq Reserved, Len(lh') <= Len(lh)
    PROVE  Room'
<1>1. IsFiniteSet(Reserved') /\ Cardinality(Reserved') <= Cardinality(Reserved)
      /\ Cardinality(Reserved') \in Nat /\ Cardinality(Reserved) \in Nat
  BY ReservedFinite, FS_Subset, FS_CardinalityType
<1>2. Len(lh) \in Nat /\ Len(lh') \in Nat
  BY DEF TypeOK
<1> QED
  BY <1>1, <1>2, LogSizeAssumption DEF Room

\* No operation is open.
LEMMA RoomAlone == ASSUME TypeOK', \A q \in Procs : pc'[q] # "op" PROVE Room'
<1>1. Reserved' = {}
  BY DEF Reserved
<1>2. Len(lh') \in Nat /\ Len(lh') < LOGSIZE
  BY DEF TypeOK
<1> QED
  BY <1>1, <1>2, FS_EmptySet, LogSizeAssumption DEF Room

\* No commit and no recovery is inside an operation.
LEMMA NoOpAfter ==
    ASSUME IInv, [Next]_vars,
           Crash \/ Recover \/ \E p \in Procs : CommitStep(p) \/ Stuck(p)
    PROVE  \A q \in Procs : pc'[q] # "op"
<1>1. pc \in [Procs -> PcSet]
  BY DEF IInv, TypeOK
<1>2. CASE Crash
  BY <1>2 DEF Crash
<1>3. CASE Recover
  BY <1>3, BootAlone DEF Recover, RecoverReadHead, RecoverInstall, RecoverClear, counts
<1>4. ASSUME NEW p \in Procs, CommitStep(p) \/ Stuck(p) PROVE \A q \in Procs : pc'[q] # "op"
  <2>1. pc[p] \in Committing
    BY <1>4 DEF CommitStep, WriteLog, WriteHead, Install, Clear, Finish, Stuck, Committing
  <2>2. \A q \in Procs : pc[q] # "op"
    BY <2>1, CommitterAlone
  <2>3. \A i : NextTurn(i, "wlog", "whead").stage # "op" /\ NextTurn(i, "install", "clear").stage # "op"
    BY DEF NextTurn
  <2> QED
    BY <1>1, <1>4, <2>2, <2>3 DEF CommitStep, WriteLog, WriteHead, Install, Clear, Finish, Stuck, Woken
<1> QED
  BY <1>2, <1>3, <1>4

LEMMA StepRoom ==
    ASSUME OpWrites <= MAXOPBLOCKS, IInv, IInv', Room, [Next]_vars
    PROVE  Room'
<1> USE DEF stable, cache, counts
<1>1. TypeOK /\ TypeOK' /\ pc \in [Procs -> PcSet] /\ writes \in [Procs -> 0 .. OpWrites]
  BY DEF IInv, TypeOK
<1>2. CASE UNCHANGED <<lh, writes>> /\ \A q \in Procs : pc'[q] = "op" => pc[q] = "op"
  <2>1. Reserved' \subseteq Reserved
    BY <1>1, <1>2 DEF Reserved
  <2>2. Len(lh') <= Len(lh)
    BY <1>1, <1>2 DEF TypeOK
  <2> QED
    BY <1>1, <2>1, <2>2, RoomKept
<1>3. ASSUME NEW p \in Procs, Begin(p) PROVE Room'
  <2>1. Reserved' \in SUBSET (InOp' \X (1 .. MAXOPBLOCKS)) /\ InOp' \in SUBSET Procs
    BY DEF Reserved, InOp
  <2>2. Cardinality(Reserved') \in Nat /\ Cardinality(Reserved') <= Cardinality(InOp') * MAXOPBLOCKS
    BY <2>1, ReservedBound
  <2>3. Cardinality(InOp') = outstanding + 1 /\ lh' = lh
    BY <1>3 DEF Begin, IInv, CommitIsAlone, InOp
  <2>4. Len(lh) + (outstanding + 1) * MAXOPBLOCKS <= LOGSIZE
    BY <1>3 DEF Begin, MayEnter, HasRoom
  <2>5. Len(lh) \in Nat /\ (outstanding + 1) * MAXOPBLOCKS \in Nat
    BY <1>1, LogSizeAssumption, FS_CardinalityType DEF TypeOK
  <2> QED
    BY <2>2, <2>3, <2>4, <2>5, LogSizeAssumption DEF Room
<1>4. ASSUME NEW p \in Procs, NEW b \in Blocks, NEW v \in Vals, Write(p, b, v) PROVE Room'
  <2> DEFINE x == <<p, writes[p] + 1>>
  <2>1. pc[p] = "op" /\ writes[p] < OpWrites /\ writes' = [writes EXCEPT ![p] = @ + 1] /\ pc' = pc
        /\ lh' \in {lh, Append(lh, b)} /\ writes[p] \in Nat
    BY <1>1, <1>4 DEF Write, LoggedAs
  <2>2. x \in Reserved
    BY <2>1, LogSizeAssumption DEF Reserved
  <2>3. Reserved' \subseteq Reserved \ {x}
    <3> SUFFICES ASSUME NEW q \in Procs, NEW i \in 1 .. MAXOPBLOCKS, pc[q] = "op", i > writes'[q]
                 PROVE  i > writes[q] /\ <<q, i>> # x
      BY <2>1 DEF Reserved
    <3> QED
      BY <1>1, <2>1
  <2>4. Cardinality(Reserved \ {x}) = Cardinality(Reserved) - 1 /\ IsFiniteSet(Reserved \ {x})
    BY <2>2, ReservedFinite, FS_RemoveElement
  <2>5. Cardinality(Reserved') \in Nat /\ Cardinality(Reserved') <= Cardinality(Reserved) - 1
    BY <2>3, <2>4, FS_Subset, FS_CardinalityType
  <2>6. Len(lh) \in Nat /\ Len(lh') \in Nat /\ Len(lh') <= Len(lh) + 1
    BY <1>1, <2>1 DEF TypeOK
  <2> QED
    BY <2>5, <2>6, ReservedFinite, LogSizeAssumption DEF Room
<1>5. CASE Crash \/ Recover \/ \E p \in Procs : CommitStep(p) \/ Stuck(p)
  BY <1>1, <1>5, NoOpAfter, RoomAlone
<1>6. CASE UNCHANGED vars
  BY <1>2, <1>6 DEF vars
<1>7. CASE OtherWakeup \/ \E b \in Blocks : Evict(b) \/ Load(b)
  BY <1>1, <1>2, <1>7 DEF OtherWakeup, Woken, Evict, Load
<1>8. ASSUME NEW p \in Procs, BeginWaits(p) \/ FallAsleep(p) \/ EndNotLast(p) \/ EndLast(p) PROVE Room'
  <2>1. FirstStage # "op"
    BY DEF FirstStage
  <2> QED
    BY <1>1, <1>2, <1>8, <2>1 DEF BeginWaits, FallAsleep, EndNotLast, EndLast, Woken
<1> QED
  BY <1>3, <1>4, <1>5, <1>6, <1>7, <1>8 DEF Next, ProcStep

LEMMA RoomInvariance == ASSUME OpWrites <= MAXOPBLOCKS PROVE Spec => []Room
<1>1. Init => Room
  <2> SUFFICES ASSUME Init PROVE Room
    OBVIOUS
  <2>1. Reserved = {} /\ Len(lh) = 0
    BY DEF Init, Reserved
  <2> QED
    BY <2>1, FS_EmptySet, LogSizeAssumption DEF Room
<1>2. IInv /\ IInv' /\ Room /\ [Next]_vars => Room'
  BY StepRoom
<1> QED
  BY <1>1, <1>2, Invariance, PTL DEF Spec

\* Operations that keep one block below their reservation find room.
LEMMA OwedFits ==
    ASSUME OpWrites < MAXOPBLOCKS, TypeOK, Room
    PROVE  Len(lh) + Owed <= LOGSIZE - 1
<1> DEFINE O == {x \in Procs \X (1 .. OpWrites) : pc[x[1]] = "op" /\ x[2] > writes[x[1]]}
<1>1. Len(lh) \in Nat /\ Len(lh) < LOGSIZE /\ writes \in [Procs -> 0 .. OpWrites]
  BY DEF TypeOK
<1>2. Owed = Cardinality(O)
  BY DEF Owed
<1>3. O \subseteq Reserved
  <2> SUFFICES ASSUME NEW q \in Procs, NEW i \in 1 .. OpWrites PROVE i \in 1 .. MAXOPBLOCKS
    BY DEF Reserved
  <2> QED
    BY LogSizeAssumption
<1>4. CASE \A q \in Procs : pc[q] # "op"
  <2>1. O = {}
    BY <1>4
  <2>2. Owed = 0
    BY <1>2, <2>1, FS_EmptySet, Zenon
  <2> QED
    BY <1>1, <2>2, LogSizeAssumption
<1>5. ASSUME NEW q \in Procs, pc[q] = "op" PROVE Len(lh) + Owed <= LOGSIZE - 1
  <2> DEFINE x == <<q, MAXOPBLOCKS>>
  <2>1. x \in Reserved
    BY <1>1, <1>5, LogSizeAssumption DEF Reserved
  <2>2. O \subseteq Reserved \ {x}
    BY <1>3, LogSizeAssumption
  <2>3. Cardinality(Reserved \ {x}) = Cardinality(Reserved) - 1 /\ IsFiniteSet(Reserved \ {x})
    BY <2>1, ReservedFinite, FS_RemoveElement
  <2>4. Cardinality(O) \in Nat /\ Cardinality(O) <= Cardinality(Reserved) - 1
    BY <2>2, <2>3, FS_Subset, FS_CardinalityType
  <2>5. PICK n \in Nat, r \in Nat : n = Len(lh) /\ r = Cardinality(Reserved)
    BY <1>1, ReservedFinite, Zenon
  <2>6. n + r <= LOGSIZE
    BY <2>5, Zenon DEF Room
  <2>7. LOGSIZE \in Nat
    BY LogSizeAssumption
  <2> HIDE DEF O
  <2>8. PICK o \in Nat : o = Cardinality(O) /\ o <= r - 1
    BY <2>4, <2>5, Zenon
  <2>9. n + o <= LOGSIZE - 1
    BY <2>6, <2>7, <2>8
  <2> QED
    BY <1>2, <2>5, <2>8, <2>9, Zenon
<1> QED
  BY <1>4, <1>5

\* log_begin_op admits only what fits: an operation that makes fewer log_write
\* calls than it reserved blocks never finds the log full, however many run,
\* crash or are absorbed.  With as many calls as blocks it may: log_write
\* leaves a slot unused.
THEOREM AdmissionSuffices == ASSUME OpWrites < MAXOPBLOCKS PROVE Spec => []AdmittedFits
<1>1. IInv /\ Room => AdmittedFits
  BY OwedFits DEF AdmittedFits, IInv
<1>2. OpWrites <= MAXOPBLOCKS
  BY LogSizeAssumption
<1> QED
  BY <1>1, <1>2, Invariance, RoomInvariance, PTL

-----------------------------------------------------------------------------
(***************************************************************************)
(* The second invariant is inductive while the cache suffices              *)
(***************************************************************************)

LEMMA InitSound == Init => Sound
<1> SUFFICES ASSUME Init PROVE Sound
  OBVIOUS
<1> QED
  BY DEF Init, Sound, NoRepeats, PinnedAre, ToInstall, CleanCopies, Logged, Copied, Installed, In

\* Steps that only move processes outside a commit, or start one.
LEMMA MovesSound ==
    ASSUME IInv, Sound,
           UNCHANGED <<disk, slot, dhead, mem, pinned, leaked, lh, boot>>,
           UNCHANGED tail \/ (tail' = 1 /\ \A p \in Procs : pc[p] \notin Committing),
           \A p \in Procs : pc'[p] \in Committing /\ pc'[p] # pc[p] =>
               /\ \A q \in Procs : pc[q] \notin Committing
               /\ tail' = 1
               /\ pc'[p] = "wlog" \/ (pc'[p] = "done" /\ lh = <<>>),
           \A p \in Procs : pc[p] \in Committing /\ pc'[p] # pc[p] => pc[p] = "done" /\ lh = <<>>,
           boot = "install" => UNCHANGED tail
    PROVE  Sound'
<1>1. (leaked = {} /\ NoRepeats(lh) /\ NoRepeats(dhead))' /\ CleanCopies'
  BY DEF Sound, NoRepeats, CleanCopies
<1>2. ~ In({"stuck"})'
  BY DEF Sound, In, Committing
<1>3. PinnedAre'
  <2>1. CASE \A p \in Procs : pc'[p] \in Committing => pc'[p] = pc[p]
    <3>1. CASE \E p \in Procs : pc[p] \in Committing /\ pc'[p] # pc[p]
      <4>1. lh = <<>> /\ DOMAIN lh = {} /\ tail' = tail
        BY <3>1
      <4>2. pinned = {}
        BY <3>1 DEF Sound, PinnedAre, ToInstall, In
      <4>3. tail .. Len(lh) = {}
        BY <4>1 DEF IInv, TypeOK
      <4>4. ToInstall' = {}
        BY <4>1, <4>3 DEF ToInstall
      <4> QED
        BY <4>2, <4>4 DEF PinnedAre
    <3>2. CASE \A p \in Procs : pc[p] \in Committing => pc'[p] = pc[p]
      <4>1. \A S \in SUBSET Committing : In(S)' <=> In(S)
        BY <2>1, <3>2 DEF In
      <4>2. In({"install"}) => tail' = tail
        BY DEF In, Committing
      <4> QED
        BY <4>1, <4>2 DEF Sound, PinnedAre, ToInstall, Committing
    <3> QED
      BY <3>1, <3>2
  <2>2. CASE \E p \in Procs : pc'[p] \in Committing /\ pc'[p] # pc[p]
    BY <2>2 DEF Sound, PinnedAre, ToInstall, In, Committing
  <2> QED
    BY <2>1, <2>2
<1>4. Logged' /\ Copied'
  BY DEF Sound, Logged, Copied, In, Committing, Installed
<1> QED
  BY <1>1, <1>2, <1>3, <1>4 DEF Sound

\* A block that has left or entered the cache was not pinned.
LEMMA CacheSound ==
    ASSUME IInv, Sound, NEW b \in Blocks, Evict(b) \/ Load(b)
    PROVE  Sound'
<1> USE DEF stable, counts
<1>1. UNCHANGED <<disk, slot, dhead, dirty, pinned, leaked, lh, pc, tail, boot>>
  BY DEF Evict, Load
<1>2. b \notin pinned
  BY DEF Evict, Load, InUse, Sound, CleanCopies
<1>3. mem' \in {[mem EXCEPT ![b] = Absent], [mem EXCEPT ![b] = disk[b]]} /\ mem \in [Blocks -> Vals \cup {Absent}]
  BY DEF Evict, Load, IInv, TypeOK
<1>4. \A j \in ToInstall : lh[j] \in Blocks /\ mem'[lh[j]] = mem[lh[j]]
  <2>1. ASSUME NEW j \in ToInstall PROVE lh[j] \in pinned /\ pinned \in SUBSET Blocks
    BY DEF Sound, PinnedAre, IInv, TypeOK
  <2> QED
    BY <1>2, <1>3, <2>1
<1>5. CleanCopies'
  BY <1>1, <1>2, <1>3 DEF Sound, CleanCopies
<1>6. Logged'
  <2>1. In({"wlog"}) => ToInstall = DOMAIN lh /\ 1 .. tail - 1 \subseteq DOMAIN lh
    <3>1. ASSUME In({"wlog"}) PROVE boot = "up" /\ ~ In({"clear", "done"}) /\ ~ In({"install"}) /\ tail \in DOMAIN lh
      BY <3>1, CommitterAlone DEF In, IInv, Turns, Committing
    <3> QED
      BY <3>1 DEF ToInstall, IInv, TypeOK
  <2>2. In({"whead"}) => ToInstall = DOMAIN lh
    BY CommitterAlone DEF In, ToInstall, Committing
  <2>3. In({"install"}) => ToInstall = tail .. Len(lh)
    BY CommitterAlone DEF In, ToInstall, Committing
  <2> QED
    BY <1>1, <1>4, <2>1, <2>2, <2>3 DEF Sound, Logged, In
<1> QED
  BY <1>1, <1>5, <1>6 DEF Sound, NoRepeats, PinnedAre, ToInstall, Copied, Installed, In

\* An operation that keeps below its reservation never finds the log full, so
\* the block it updates is in the log afterwards.
LEMMA WriteSound ==
    ASSUME OpWrites < MAXOPBLOCKS, IInv, Room, Sound,
           NEW p \in Procs, NEW b \in Blocks, NEW v \in Vals, Write(p, b, v)
    PROVE  Sound'
<1> USE DEF stable, counts
<1>1. pc[p] = "op" /\ writes[p] < OpWrites /\ mem' = [mem EXCEPT ![b] = v] /\ lh' = LoggedAs(b)
      /\ pinned' = PinnedBy(b) /\ UNCHANGED <<disk, slot, dhead, leaked, pc, boot>>
  BY DEF Write
<1>2. boot = "up" /\ \A q \in Procs : pc[q] \notin Committing
  BY <1>1, NobodyCommits
<1>3. ~ LogFull
  <2> DEFINE O == {x \in Procs \X (1 .. OpWrites) : pc[x[1]] = "op" /\ x[2] > writes[x[1]]}
  <2>1. <<p, OpWrites>> \in O
    BY <1>1, LogSizeAssumption DEF IInv, TypeOK
  <2>2. IsFiniteSet(1 .. OpWrites)
    BY FS_Interval, LogSizeAssumption
  <2>3. IsFiniteSet(O)
    BY <2>2, FS_Product, FS_Subset, LogSizeAssumption
  <2>4. Owed \in Nat \ {0}
    BY <2>1, <2>3, FS_EmptySet, FS_CardinalityType DEF Owed
  <2>5. Len(lh) + Owed <= LOGSIZE - 1 /\ Len(lh) \in Nat
    BY OwedFits DEF IInv, TypeOK
  <2> QED
    BY <2>4, <2>5, LogSizeAssumption DEF LogFull
<1>4. lh \in Seq(Blocks) /\ mem \in [Blocks -> Vals \cup {Absent}] /\ pinned = {lh[i] : i \in DOMAIN lh}
  BY <1>2 DEF IInv, TypeOK, Sound, PinnedAre, ToInstall, In, Committing
<1>5. CASE InLog(b)
  <2>1. lh' = lh /\ pinned' = pinned /\ b \in pinned
    BY <1>1, <1>4, <1>5 DEF LoggedAs, PinnedBy, Appends, InLog
  <2>2. CleanCopies'
    BY <1>1, <1>4, <2>1, AbsentAssumption DEF Sound, CleanCopies
  <2> QED
    BY <1>1, <1>2, <2>1, <2>2 DEF Sound, NoRepeats, PinnedAre, ToInstall, Logged, Copied, In, Committing
<1>6. CASE ~ InLog(b)
  <2>1. lh' = Append(lh, b) /\ pinned' = pinned \cup {b}
    BY <1>1, <1>3, <1>6 DEF LoggedAs, PinnedBy, Appends
  <2>2. CleanCopies'
    BY <1>1, <1>4, <2>1, AbsentAssumption DEF Sound, CleanCopies
  <2>3. /\ DOMAIN lh' = DOMAIN lh \cup {Len(lh) + 1} /\ Len(lh) + 1 \notin DOMAIN lh
        /\ lh'[Len(lh) + 1] = b /\ \A i \in DOMAIN lh : lh'[i] = lh[i]
    BY <1>4, <2>1
  <2>4. NoRepeats(lh')
    BY <1>6, <2>3 DEF Sound, NoRepeats, InLog
  <2>5. pinned' = {lh'[i] : i \in DOMAIN lh'}
    BY <1>4, <2>1, <2>3
  <2> QED
    BY <1>1, <1>2, <2>2, <2>4, <2>5 DEF Sound, NoRepeats, PinnedAre, ToInstall, Logged, Copied, In, Committing
<1> QED
  BY <1>5, <1>6

\* Where the commit of process p is, the other processes being elsewhere.
LEMMA StageIs ==
    ASSUME IInv, NEW p \in Procs, pc[p] \in Committing
    PROVE  \A S \in SUBSET Committing : In(S) <=> pc[p] \in S
BY CommitterAlone DEF In

\* A step of the committer: where it is afterwards.
LEMMA NextStageIs ==
    ASSUME IInv, NEW p \in Procs, pc[p] \in Committing, NEW st \in Committing,
           pc' = [pc EXCEPT ![p] = st], UNCHANGED <<outstanding, committing, boot>>
    PROVE  \A S \in SUBSET Committing : In(S)' <=> st \in S
<1>1. pc'[p] = st /\ \A q \in Procs \ {p} : pc'[q] \notin Committing
  BY CommitterMoves
<1> QED
  BY <1>1 DEF In

\* With both buffers to be had, a turn leaves none behind.
LEMMA NothingLeaks == ASSUME NEW i, GotBoth(i), leaked = {} PROVE LeakedAt(i) = {}
BY DEF LeakedAt

LEMMA WriteLogSound ==
    ASSUME IInv, Sound, CacheSuffices, NEW p \in Procs, WriteLog(p)
    PROVE  Sound' /\ UNCHANGED <<disk, mem, boot>> /\ dhead = <<>> /\ dhead' = <<>>
<1> USE DEF stable, counts
<1> DEFINE st == NextTurn(tail, "wlog", "whead").stage
<1>1. pc[p] = "wlog" /\ pc[p] \in Committing /\ pc' = [pc EXCEPT ![p] = st]
      /\ tail' = NextTurn(tail, "wlog", "whead").tail /\ leaked' = LeakedAt(tail)
      /\ UNCHANGED <<disk, dhead, pinned, lh, outstanding, committing, writes, boot>>
  BY DEF WriteLog, Committing
<1>2. tail \in DOMAIN lh /\ lh \in Seq(Blocks) /\ TypeOK /\ boot = "up" /\ GotBoth(tail)
  BY <1>1, CommitterAlone DEF IInv, Turns, TypeOK, CacheSuffices
<1>3. \/ st = "wlog" /\ tail' = tail + 1 /\ tail # Len(lh)
      \/ st = "whead" /\ tail = Len(lh)
  BY <1>1, <1>2, TurnAdvances
<1> HIDE DEF st
<1>4. \A S \in SUBSET Committing : (In(S) <=> "wlog" \in S) /\ (In(S)' <=> st \in S)
  <2>1. st \in Committing
    BY <1>3 DEF Committing
  <2> QED
    BY <1>1, <2>1, StageIs, NextStageIs
<1>5. leaked' = {}
  BY <1>1, <1>2, NothingLeaks DEF Sound
<1>6. ToInstall = DOMAIN lh /\ ToInstall' = DOMAIN lh
  BY <1>1, <1>2, <1>3, <1>4 DEF ToInstall, Committing
<1>7. lh[tail] \in pinned /\ lh[tail] \in Blocks /\ tail \in LogSlot
  BY <1>2, <1>6, TurnTypes DEF Sound, PinnedAre
<1>8. mem' = mem /\ slot' = [slot EXCEPT ![tail] = mem[lh[tail]]]
  <2>1. Data(lh[tail]) = mem[lh[tail]]
    BY <1>7 DEF Sound, CleanCopies, Data
  <2> QED
    BY <1>2, <1>7, <2>1 DEF WriteLog, TypeOK
<1>9. Logged'
  <2>1. \A j \in 1 .. tail : slot'[j] = mem'[lh[j]]
    <3>1. \A j \in 1 .. tail - 1 : slot[j] = mem[lh[j]]
      BY <1>4 DEF Sound, Logged, Committing
    <3>2. slot \in [LogSlot -> Vals] /\ 1 .. tail \subseteq LogSlot
      BY <1>2, LogSizeAssumption DEF TypeOK, LogSlot
    <3> QED
      BY <1>2, <1>8, <3>1, <3>2
  <2>2. CASE st = "wlog" /\ tail' = tail + 1
    <3>1. tail' - 1 = tail
      BY <1>2, <2>2
    <3>2. In({"wlog"})' /\ ~ In({"whead"})' /\ ~ In({"install"})'
      BY <1>4, <2>2 DEF Committing
    <3> QED
      BY <1>1, <2>1, <3>1, <3>2 DEF Logged
  <2>3. CASE st = "whead" /\ tail = Len(lh)
    <3>1. DOMAIN lh' = 1 .. tail
      BY <1>1, <1>2, <2>3
    <3>2. In({"whead"})' /\ ~ In({"wlog"})' /\ ~ In({"install"})'
      BY <1>4, <2>3 DEF Committing
    <3> QED
      BY <1>1, <2>1, <3>1, <3>2 DEF Logged
  <2> QED
    BY <1>3, <2>2, <2>3
<1>10. PinnedAre' /\ CleanCopies'
  BY <1>1, <1>6, <1>8 DEF Sound, PinnedAre, CleanCopies
<1>11. Copied' /\ ~ In({"stuck"})'
  BY <1>1, <1>2, <1>3, <1>4 DEF Copied, Committing
<1>12. dhead = <<>>
  BY <1>2, <1>4 DEF IInv, DiskHead, Committing
<1> QED
  BY <1>1, <1>5, <1>8, <1>9, <1>10, <1>11, <1>12 DEF Sound, NoRepeats

LEMMA WriteHeadSound ==
    ASSUME IInv, Sound, NEW p \in Procs, WriteHead(p)
    PROVE  Sound' /\ dhead' = lh
<1> USE DEF stable, counts
<1>1. pc[p] = "whead" /\ pc[p] \in Committing /\ pc' = [pc EXCEPT ![p] = "install"] /\ "install" \in Committing
      /\ tail' = 1 /\ UNCHANGED <<disk, slot, mem, pinned, leaked, lh, outstanding, committing, writes, boot>>
  BY DEF WriteHead, Committing
<1>2. boot = "up"
  BY <1>1, CommitterAlone
<1>3. dhead' = lh
  BY <1>2, HeadCanBeHad DEF WriteHead, HeadWritten, IInv, DiskHead
<1>4. \A S \in SUBSET Committing : (In(S) <=> "whead" \in S) /\ (In(S)' <=> "install" \in S)
  BY <1>1, StageIs, NextStageIs
<1>5. ToInstall = DOMAIN lh /\ ToInstall' = DOMAIN lh
  <2>1. DOMAIN lh = 1 .. Len(lh)
    BY DEF IInv, TypeOK
  <2>2. ~ In({"clear", "done"}) /\ ~ In({"install"})
    BY <1>4 DEF Committing
  <2>3. ~ In({"clear", "done"})' /\ In({"install"})'
    BY <1>4 DEF Committing
  <2> QED
    BY <1>1, <1>2, <2>1, <2>2, <2>3 DEF ToInstall
<1>6. PinnedAre' /\ CleanCopies'
  BY <1>1, <1>5 DEF Sound, PinnedAre, CleanCopies
<1>7. Logged' /\ Copied' /\ ~ In({"stuck"})'
  <2>1. In({"whead"}) /\ ~ In({"wlog"})' /\ ~ In({"whead"})' /\ ~ In({"clear"})' /\ ~ In({"stuck"})'
    BY <1>4 DEF Committing
  <2>2. \A j \in DOMAIN lh : slot[j] = mem[lh[j]]
    BY <2>1 DEF Sound, Logged
  <2>3. DOMAIN lh = tail' .. Len(lh) /\ 1 .. tail' - 1 = {}
    BY <1>1 DEF IInv, TypeOK
  <2> QED
    BY <1>1, <1>2, <2>1, <2>2, <2>3 DEF Logged, Copied
<1> QED
  BY <1>1, <1>3, <1>6, <1>7 DEF Sound, NoRepeats

LEMMA InstallSound ==
    ASSUME IInv, Sound, CacheSuffices, NEW p \in Procs, Install(p)
    PROVE  /\ Sound'
           /\ mem' = mem /\ disk' = [disk EXCEPT ![lh[tail]] = slot[tail]]
           /\ lh = dhead /\ tail \in DOMAIN lh /\ slot[tail] = mem[lh[tail]] /\ boot = "up"
<1> USE DEF stable, counts
<1> DEFINE st == NextTurn(tail, "install", "clear").stage
<1>1. pc[p] = "install" /\ pc[p] \in Committing /\ pc' = [pc EXCEPT ![p] = st]
      /\ tail' = NextTurn(tail, "install", "clear").tail /\ InstallTurn(tail, {lh[tail]})
      /\ UNCHANGED <<slot, dhead, lh, outstanding, committing, writes, boot>>
  BY DEF Install, Committing
<1>2. tail \in DOMAIN lh /\ lh \in Seq(Blocks) /\ TypeOK /\ boot = "up" /\ GotBoth(tail)
  BY <1>1, CommitterAlone DEF IInv, Turns, TypeOK, CacheSuffices
<1>3. \/ st = "install" /\ tail' = tail + 1 /\ tail # Len(lh)
      \/ st = "clear" /\ tail = Len(lh)
  BY <1>1, <1>2, TurnAdvances
<1> HIDE DEF st
<1>4. \A S \in SUBSET Committing : (In(S) <=> "install" \in S) /\ (In(S)' <=> st \in S)
  <2>1. st \in Committing
    BY <1>3 DEF Committing
  <2> QED
    BY <1>1, <2>1, StageIs, NextStageIs
<1>5. leaked' = {} /\ pinned' = pinned \ {lh[tail]}
  BY <1>1, <1>2, NothingLeaks DEF Sound, InstallTurn
<1>6. ToInstall = tail .. Len(lh) /\ ToInstall' = tail + 1 .. Len(lh)
  BY <1>1, <1>2, <1>3, <1>4 DEF ToInstall, Committing
<1>7. lh[tail] \in Blocks /\ tail \in LogSlot /\ slot[tail] = mem[lh[tail]]
  BY <1>2, <1>4, TurnTypes DEF Sound, Logged, Committing
<1>8. mem' = mem /\ disk' = [disk EXCEPT ![lh[tail]] = slot[tail]]
  <2>1. /\ mem' = [mem EXCEPT ![lh[tail]] = slot[tail]]
        /\ disk' = [disk EXCEPT ![lh[tail]] = slot[tail]]
    BY <1>1, <1>2, Zenon DEF InstallTurn
  <2>2. mem \in [Blocks -> Vals \cup {Absent}]
    BY <1>2 DEF TypeOK
  <2> QED
    BY <1>7, <2>1, <2>2
<1>9. PinnedAre'
  <2>1. tail .. Len(lh) = {tail} \cup (tail + 1 .. Len(lh)) /\ tail .. Len(lh) \subseteq DOMAIN lh
    BY <1>2 DEF TypeOK
  <2>2. \A j \in tail + 1 .. Len(lh) : lh[j] # lh[tail]
    BY <1>2, <2>1 DEF Sound, NoRepeats
  <2>3. pinned = {lh[j] : j \in tail .. Len(lh)}
    BY <1>6 DEF Sound, PinnedAre
  <2>4. pinned' = {lh[j] : j \in tail + 1 .. Len(lh)}
    BY <1>5, <2>1, <2>2, <2>3
  <2> QED
    BY <1>1, <1>6, <2>4 DEF PinnedAre
<1>10. CleanCopies'
  BY <1>2, <1>5, <1>7, <1>8 DEF Sound, CleanCopies, TypeOK
<1>11. Logged'
  <2>1. ~ In({"wlog"})' /\ ~ In({"whead"})'
    BY <1>3, <1>4 DEF Committing
  <2>2. In({"install"})' => tail' = tail + 1
    BY <1>3, <1>4 DEF Committing
  <2>3. \A j \in tail + 1 .. Len(lh) : slot[j] = mem[lh[j]]
    <3>1. \A j \in tail .. Len(lh) : slot[j] = mem[lh[j]]
      BY <1>4 DEF Sound, Logged, Committing
    <3>2. tail \in Int /\ Len(lh) \in Int
      BY <1>2 DEF TypeOK
    <3> QED
      BY <3>1, <3>2
  <2> QED
    BY <1>1, <1>8, <2>1, <2>2, <2>3 DEF Logged
<1>12. Copied'
  <2>1. \A j \in 1 .. tail : disk'[lh[j]] = slot[j]
    <3>1. \A j \in 1 .. tail - 1 : disk[lh[j]] = slot[j] /\ j \in DOMAIN lh /\ lh[j] # lh[tail]
      BY <1>2, <1>4 DEF Sound, Copied, NoRepeats, Committing, TypeOK
    <3> QED
      BY <1>2, <1>7, <1>8, <3>1 DEF TypeOK
  <2> QED
    BY <1>1, <1>2, <1>3, <1>4, <2>1 DEF Copied, Committing
<1>13. ~ In({"stuck"})' /\ lh = dhead
  BY <1>2, <1>3, <1>4 DEF Committing, IInv, DiskHead
<1> QED
  BY <1>1, <1>2, <1>5, <1>7, <1>8, <1>9, <1>10, <1>11, <1>12, <1>13 DEF Sound, NoRepeats

LEMMA ClearSound ==
    ASSUME IInv, Sound, NEW p \in Procs, Clear(p)
    PROVE  /\ Sound'
           /\ dhead = lh /\ dhead' = <<>> /\ UNCHANGED <<disk, mem, boot>> /\ boot = "up"
           /\ \A j \in DOMAIN lh : disk[lh[j]] = slot[j]
<1> USE DEF stable, counts
<1>1. pc[p] = "clear" /\ pc[p] \in Committing /\ pc' = [pc EXCEPT ![p] = "done"] /\ "done" \in Committing
      /\ lh' = <<>> /\ UNCHANGED <<disk, slot, mem, pinned, leaked, outstanding, committing, writes, tail, boot>>
  BY DEF Clear, Committing
<1>2. boot = "up"
  BY <1>1, CommitterAlone
<1>3. \A S \in SUBSET Committing : (In(S) <=> "clear" \in S) /\ (In(S)' <=> "done" \in S)
  BY <1>1, StageIs, NextStageIs
<1>4. dhead' = <<>> /\ dhead = lh
  BY <1>2, <1>3, HeadCanBeHad DEF Clear, HeadWritten, IInv, DiskHead, Committing
<1>5. ToInstall = {} /\ ToInstall' = {}
  BY <1>1, <1>3 DEF ToInstall, Committing
<1>6. PinnedAre' /\ CleanCopies'
  BY <1>1, <1>5 DEF Sound, PinnedAre, CleanCopies
<1>7. Logged' /\ Copied' /\ ~ In({"stuck"})'
  BY <1>1, <1>2, <1>3 DEF Logged, Copied, Committing
<1> QED
  BY <1>1, <1>2, <1>3, <1>4, <1>6, <1>7 DEF Sound, NoRepeats, Copied, Committing

\* A crash keeps the disk and forgets the rest.
LEMMA CrashSound == ASSUME Sound, Crash PROVE Sound'
<1>1. /\ lh' = <<>> /\ pinned' = {} /\ leaked' = {} /\ boot' = "readhead" /\ UNCHANGED <<disk, slot, dhead>>
      /\ \A b \in Blocks : mem'[b] = Absent
      /\ \A p \in Procs : pc'[p] = "idle"
  BY DEF Crash, stable
<1>2. \A S \in SUBSET Committing : ~ In(S)'
  BY <1>1 DEF In, Committing
<1>3. PinnedAre' /\ CleanCopies'
  BY <1>1 DEF PinnedAre, ToInstall, CleanCopies
<1>4. Logged' /\ Copied' /\ ~ In({"stuck"})'
  BY <1>1, <1>2 DEF Logged, Copied, Committing
<1> QED
  BY <1>1, <1>3, <1>4 DEF Sound, NoRepeats

\* In recovery no process commits.
LEMMA NobodyAtBoot ==
    ASSUME IInv, boot # "up", UNCHANGED <<counts, pc>>
    PROVE  /\ \A S \in SUBSET Committing : ~ In(S) /\ ~ In(S)'
           /\ pinned = {} /\ leaked = {}
BY BootAlone DEF In, Committing

LEMMA RecoverReadHeadSound ==
    ASSUME IInv, Sound, RecoverReadHead
    PROVE  Sound' /\ boot # "up" /\ boot' # "up" /\ UNCHANGED <<disk, slot, dhead, pc>>
<1> USE DEF stable, cache
<1>1. boot = "readhead" /\ lh' = dhead /\ boot' = (IF dhead = <<>> THEN "clear" ELSE "install")
      /\ UNCHANGED <<disk, slot, dhead, mem, dirty, pinned, leaked, counts, pc, tail>>
  BY DEF RecoverReadHead
<1>2. pinned = {} /\ leaked = {} /\ tail = 1 /\ \A S \in SUBSET Committing : ~ In(S)'
  BY <1>1, NobodyAtBoot DEF IInv, AtBoot
<1>3. PinnedAre' /\ CleanCopies'
  BY <1>1, <1>2 DEF Sound, PinnedAre, ToInstall, CleanCopies
<1>4. Installed' = {}
  BY <1>1, <1>2 DEF Installed
<1>5. Logged' /\ Copied' /\ ~ In({"stuck"})'
  BY <1>2, <1>4 DEF Logged, Copied, Committing
<1> QED
  BY <1>1, <1>2, <1>3, <1>5 DEF Sound, NoRepeats

LEMMA RecoverInstallSound ==
    ASSUME IInv, Sound, RecoverInstall
    PROVE  /\ Sound' /\ boot # "up" /\ boot' # "up" /\ UNCHANGED <<slot, dhead, pc>>
           /\ lh = dhead /\ tail \in DOMAIN lh /\ disk' = [disk EXCEPT ![lh[tail]] = slot[tail]]
<1> DEFINE st == NextTurn(tail, "install", "clear").stage
<1>1. boot = "install" /\ boot' = st /\ tail' = NextTurn(tail, "install", "clear").tail
      /\ InstallTurn(tail, {}) /\ UNCHANGED <<slot, dhead, lh, counts, pc>>
  BY DEF RecoverInstall
<1>2. tail \in DOMAIN lh /\ lh \in Seq(Blocks) /\ TypeOK /\ GotBoth(tail) /\ lh = dhead
  BY <1>1, RecoveryIsServed DEF IInv, Turns, TypeOK, DiskHead
<1>3. \/ st = "install" /\ tail # Len(lh) /\ tail' = tail + 1
      \/ st = "clear" /\ tail = Len(lh)
  BY <1>1, <1>2, TurnAdvances
<1> HIDE DEF st
<1>4. pinned = {} /\ leaked = {} /\ \A S \in SUBSET Committing : ~ In(S)'
  BY <1>1, NobodyAtBoot
<1>5. /\ leaked' = {} /\ pinned' = {}
      /\ disk' = [disk EXCEPT ![lh[tail]] = slot[tail]] /\ mem' = [mem EXCEPT ![lh[tail]] = slot[tail]]
  BY <1>1, <1>2, <1>4, NothingLeaks DEF InstallTurn
<1>6. lh[tail] \in Blocks /\ disk \in [Blocks -> Vals] /\ mem \in [Blocks -> Vals \cup {Absent}]
  BY <1>2, TurnTypes DEF TypeOK
<1>7. CleanCopies' /\ PinnedAre'
  <2>1. boot' # "up"
    BY <1>1, <1>3
  <2> QED
    BY <1>4, <1>5, <1>6, <2>1 DEF Sound, CleanCopies, PinnedAre, ToInstall
<1>8. Installed' = 1 .. tail /\ Installed = 1 .. tail - 1
  BY <1>1, <1>2, <1>3 DEF Installed, TypeOK
<1>9. \A j \in 1 .. tail : disk'[lh[j]] = slot[j]
  <2>1. \A j \in 1 .. tail - 1 : disk[lh[j]] = slot[j] /\ lh[j] # lh[tail]
    BY <1>1, <1>2, <1>8 DEF Sound, Copied, NoRepeats, TypeOK
  <2>2. \A j \in 1 .. tail - 1 : lh[j] \in Blocks
    BY <1>2 DEF TypeOK
  <2> QED
    BY <1>2, <1>5, <1>6, <2>1, <2>2 DEF TypeOK
<1>10. Logged' /\ Copied' /\ ~ In({"stuck"})'
  BY <1>1, <1>4, <1>8, <1>9 DEF Logged, Copied, Committing
<1> QED
  BY <1>1, <1>2, <1>3, <1>5, <1>7, <1>10 DEF Sound, NoRepeats

LEMMA RecoverClearSound ==
    ASSUME IInv, Sound, RecoverClear
    PROVE  /\ Sound' /\ boot # "up" /\ boot' = "up" /\ UNCHANGED <<disk, mem, pc>>
           /\ lh = dhead /\ dhead' = <<>> /\ pinned = {}
           /\ \A j \in DOMAIN lh : disk[lh[j]] = slot[j]
<1>1. boot = "clear" /\ boot' = "up" /\ lh' = <<>>
      /\ UNCHANGED <<disk, slot, mem, pinned, leaked, counts, pc, tail>>
  BY DEF RecoverClear
<1>2. dhead' = <<>> /\ lh = dhead
  BY <1>1, RecoveryIsServed DEF RecoverClear, HeadWritten, IInv, DiskHead
<1>3. pinned = {} /\ leaked = {} /\ \A S \in SUBSET Committing : ~ In(S)'
  BY <1>1, NobodyAtBoot
<1>4. PinnedAre' /\ CleanCopies'
  <2>1. ToInstall' = {}
    <3>1. DOMAIN lh' = {}
      BY <1>1
    <3>2. ~ In({"install"})'
      BY <1>3 DEF Committing
    <3> QED
      BY <3>1, <3>2 DEF ToInstall
  <2>2. PinnedAre'
    BY <1>1, <1>3, <2>1 DEF PinnedAre
  <2> QED
    BY <1>1, <1>3, <2>2 DEF Sound, CleanCopies
<1>5. Logged' /\ Copied' /\ ~ In({"stuck"})'
  BY <1>1, <1>3 DEF Logged, Copied, Committing
<1>6. \A j \in DOMAIN lh : disk[lh[j]] = slot[j]
  BY <1>1 DEF Sound, Copied, Installed
<1> QED
  BY <1>1, <1>2, <1>3, <1>4, <1>5, <1>6 DEF Sound, NoRepeats

LEMMA StepSound ==
    ASSUME OpWrites < MAXOPBLOCKS, IInv, Room, Sound, CacheSuffices, [Next]_vars
    PROVE  Sound'
<1> USE DEF stable, cache, counts
<1>1. pc \in [Procs -> PcSet]
  BY DEF IInv, TypeOK
<1>2. CASE UNCHANGED vars
  BY <1>2 DEF vars, Sound, NoRepeats, PinnedAre, ToInstall, CleanCopies, Logged, Copied, Installed, In
<1>3. CASE OtherWakeup \/ \E p \in Procs : BeginWaits(p) \/ FallAsleep(p) \/ Begin(p)
  <2>1. UNCHANGED <<disk, slot, dhead, mem, pinned, leaked, lh, boot>> /\ UNCHANGED tail
    BY <1>3 DEF OtherWakeup, BeginWaits, FallAsleep, Begin
  <2>2. \A q \in Procs : pc'[q] # pc[q] => pc[q] \notin Committing /\ pc'[q] \notin Committing
    BY <1>1, <1>3 DEF OtherWakeup, BeginWaits, FallAsleep, Begin, Woken, Committing
  <2> QED
    BY <2>1, <2>2, MovesSound
<1>4. ASSUME NEW p \in Procs, EndNotLast(p) \/ EndLast(p) PROVE Sound'
  <2>1. pc[p] = "op" /\ boot = "up" /\ \A q \in Procs : pc[q] \notin Committing
    BY <1>4, NobodyCommits DEF EndNotLast, EndLast
  <2>2. UNCHANGED <<disk, slot, dhead, mem, pinned, leaked, lh, boot>>
        /\ (UNCHANGED tail \/ tail' = 1)
    BY <1>4 DEF EndNotLast, EndLast
  <2>3. \A q \in Procs : pc'[q] \in Committing => tail' = 1 /\ (pc'[q] = "wlog" \/ (pc'[q] = "done" /\ lh = <<>>))
    <3>1. CASE EndNotLast(p)
      BY <1>1, <2>1, <3>1 DEF EndNotLast, Woken, Committing
    <3>2. CASE EndLast(p)
      <4>1. tail' = 1 /\ pc' = [pc EXCEPT ![p] = FirstStage]
        BY <3>2 DEF EndLast
      <4>2. FirstStage = "wlog" \/ (FirstStage = "done" /\ lh = <<>>)
        BY DEF FirstStage
      <4> QED
        BY <1>1, <2>1, <4>1, <4>2
    <3> QED
      BY <1>4, <3>1, <3>2
  <2> QED
    BY <2>1, <2>2, <2>3, MovesSound
<1>5. ASSUME NEW p \in Procs, Finish(p) PROVE Sound'
  <2>1. pc[p] = "done" /\ UNCHANGED <<disk, slot, dhead, mem, pinned, leaked, lh, boot>>
        /\ UNCHANGED tail /\ pc' = Woken([pc EXCEPT ![p] = "idle"])
    BY <1>5 DEF Finish
  <2>2. pc[p] \in Committing
    BY <2>1 DEF Committing
  <2>3. boot = "up" /\ \A q \in Procs : pc[q] \in Committing => q = p
    BY <2>2, CommitterAlone
  <2>4. lh = <<>>
    BY <2>1, <2>3 DEF IInv, DiskHead, In
  <2>5. \A q \in Procs : pc'[q] \notin Committing
    BY <1>1, <2>1, <2>3 DEF Woken, Committing
  <2> QED
    BY <2>1, <2>3, <2>4, <2>5, MovesSound
<1>6. ASSUME NEW p \in Procs, Stuck(p) PROVE FALSE
  BY <1>6 DEF Stuck, Blocked, Locked, Sound
<1>7. ASSUME NEW b \in Blocks, Evict(b) \/ Load(b) PROVE Sound'
  BY <1>7, CacheSound
<1>8. ASSUME NEW p \in Procs, NEW b \in Blocks, NEW v \in Vals, Write(p, b, v) PROVE Sound'
  BY <1>8, WriteSound
<1>9. ASSUME NEW p \in Procs, WriteLog(p) \/ WriteHead(p) \/ Install(p) \/ Clear(p) PROVE Sound'
  BY <1>9, WriteLogSound, WriteHeadSound, InstallSound, ClearSound
<1>10. CASE Crash \/ Recover
  BY <1>10, CrashSound, RecoverReadHeadSound, RecoverInstallSound, RecoverClearSound DEF Recover
<1> QED
  BY <1>2, <1>3, <1>4, <1>5, <1>6, <1>7, <1>8, <1>9, <1>10 DEF Next, ProcStep, CommitStep

LEMMA SoundInvariance ==
    ASSUME OpWrites < MAXOPBLOCKS PROVE Spec /\ []CacheSuffices => []Sound
<1>1. IInv /\ Room /\ Sound /\ CacheSuffices /\ [Next]_vars => Sound'
  BY StepSound
<1>2. OpWrites <= MAXOPBLOCKS
  BY LogSizeAssumption
<1> QED
  BY <1>1, <1>2, InitSound, Invariance, RoomInvariance, PTL DEF Spec

\* A block in the log stays in the cache until its home is written, and nothing
\* else does, as long as no turn of a commit is refused a buffer (buf_pin in
\* log_write, buf_unpin in install_trans).
THEOREM PinsMatchTheLog ==
    ASSUME OpWrites < MAXOPBLOCKS
    PROVE  Spec /\ []CacheSuffices => []PinnedExactlyLogged
<1>1. ASSUME IInv, Sound PROVE PinnedExactlyLogged
  <2> SUFFICES ASSUME boot = "up" PROVE PinnedExactlyLogged
    BY DEF PinnedExactlyLogged
  <2>1. pinned = {lh[i] : i \in ToInstall} /\ DOMAIN lh = 1 .. Len(lh) /\ tail >= 1
    BY <1>1 DEF Sound, PinnedAre, IInv, TypeOK
  <2>2. In({"done"}) => lh = <<>>
    BY <1>1 DEF IInv, DiskHead
  <2>3. \A b \in Blocks : InLog(b) /\ ~ (\E p \in Procs : pc[p] \in {"install", "clear"}) => b \in pinned
    <3> SUFFICES ASSUME NEW i \in DOMAIN lh, ~ In({"install", "clear"}) PROVE i \in ToInstall
      BY <2>1 DEF InLog, In
    <3>1. ~ In({"done"})
      BY <2>2
    <3> QED
      BY <3>1 DEF ToInstall, In
  <2>4. ASSUME lh = <<>> PROVE ToInstall = {}
    <3>1. DOMAIN lh = {} /\ tail .. Len(lh) = {}
      BY <1>1, <2>4 DEF IInv, TypeOK
    <3> QED
      BY <3>1 DEF ToInstall
  <2> QED
    BY <2>1, <2>3, <2>4 DEF PinnedExactlyLogged
<1> QED
  BY <1>1, Invariance, SoundInvariance, PTL

-----------------------------------------------------------------------------
(***************************************************************************)
(* The log implements the atomic disk                                      *)
(***************************************************************************)

\* The disk d once the header h is replayed from the slots s.
Replayed(d, s, h) ==
    [b \in Blocks |-> IF \E i \in DOMAIN h : h[i] = b
                      THEN s[CHOOSE i \in DOMAIN h : h[i] = b]
                      ELSE d[b]]

LEMMA RecoveredIs ==
    Recovered = Replayed(disk, slot, dhead) /\ Recovered' = Replayed(disk', slot', dhead')
BY DEF Recovered, Replayed

\* A header without repetitions names one slot for each of its blocks.
LEMMA ReplayedAt ==
    ASSUME NEW d, NEW s, NEW h, NoRepeats(h), NEW b \in Blocks
    PROVE  /\ \A i \in DOMAIN h : h[i] = b => Replayed(d, s, h)[b] = s[i]
           /\ ~ (\E i \in DOMAIN h : h[i] = b) => Replayed(d, s, h)[b] = d[b]
BY DEF Replayed, NoRepeats

LEMMA ReplayedEmpty ==
    ASSUME NEW d, NEW s, d \in [Blocks -> Vals] PROVE Replayed(d, s, <<>>) = d
BY DEF Replayed

\* Functions on blocks that agree everywhere are equal.
LEMMA ReplayedEqual ==
    ASSUME NEW d, NEW s, NEW h, NEW f, f = [b \in Blocks |-> f[b]],
           \A b \in Blocks : Replayed(d, s, h)[b] = f[b]
    PROVE  Replayed(d, s, h) = f
BY DEF Replayed

\* What the running system reads.
Current == [b \in Blocks |-> Data(b)]
Pending == IF boot = "up" THEN Current ELSE Recovered

\* A header whose blocks are copied to their homes may be replaced by none.
LEMMA ReplayedCopied ==
    ASSUME NEW d \in [Blocks -> Vals], NEW s, NEW h, NoRepeats(h),
           \A i \in DOMAIN h : d[h[i]] = s[i]
    PROVE  Replayed(d, s, h) = d
<1>1. \A b \in Blocks : Replayed(d, s, h)[b] = d[b]
  BY ReplayedAt
<1>2. d = [b \in Blocks |-> d[b]]
  OBVIOUS
<1> QED
  BY <1>1, <1>2, ReplayedEqual

\* Copying one block of the header to its home changes nothing.
LEMMA ReplayedInstall ==
    ASSUME NEW d \in [Blocks -> Vals], NEW s, NEW h, NoRepeats(h),
           NEW i \in DOMAIN h, h[i] \in Blocks
    PROVE  Replayed([d EXCEPT ![h[i]] = s[i]], s, h) = Replayed(d, s, h)
<1> DEFINE e == [d EXCEPT ![h[i]] = s[i]]
<1>1. \A b \in Blocks : b # h[i] => e[b] = d[b]
  OBVIOUS
<1>2. \A b \in Blocks : Replayed(e, s, h)[b] = Replayed(d, s, h)[b]
  BY <1>1 DEF Replayed
<1> QED
  BY <1>2 DEF Replayed

\* The mapped variables of a step that touches neither disk nor cache.
LEMMA SameDisk ==
    ASSUME UNCHANGED <<disk, mem, boot>>, Recovered' = Recovered
    PROVE  Pending' = Pending /\ Current' = Current
BY DEF Pending, Current, Data

\* A commit writes the transaction: what is durable becomes what is read.
LEMMA WriteHeadCommits ==
    ASSUME IInv, Sound, NEW p \in Procs, WriteHead(p)
    PROVE  Recovered' = Pending /\ UNCHANGED <<Pending, InOp>> /\ InOp = {}
<1>1. pc[p] = "whead" /\ pc[p] \in Committing /\ pc' = [pc EXCEPT ![p] = "install"]
      /\ UNCHANGED <<disk, slot, mem, boot>>
  BY DEF WriteHead, Committing
<1>2. boot = "up" /\ \A q \in Procs : pc[q] # "op"
  BY <1>1, CommitterAlone
<1>3. dhead' = lh
  BY WriteHeadSound
<1>4. InOp = {} /\ InOp' = {}
  BY <1>1, <1>2 DEF InOp, IInv, TypeOK
<1>5. \A S \in SUBSET Committing : In(S) <=> "whead" \in S
  BY <1>1, StageIs
<1>6. ToInstall = DOMAIN lh
  BY <1>2, <1>5 DEF ToInstall, Committing
<1>7. \A j \in DOMAIN lh : slot[j] = mem[lh[j]] /\ mem[lh[j]] # Absent
  <2>1. \A j \in DOMAIN lh : lh[j] \in Blocks /\ lh[j] \in pinned
    BY <1>6 DEF Sound, PinnedAre, IInv, TypeOK
  <2> QED
    BY <1>5, <2>1 DEF Sound, CleanCopies, Logged, Committing
<1>8. ASSUME NEW b \in Blocks, ~ (\E j \in DOMAIN lh : lh[j] = b) PROVE Data(b) = disk[b]
  <2>1. b \notin pinned
    BY <1>6, <1>8 DEF Sound, PinnedAre
  <2> QED
    BY <2>1 DEF Sound, CleanCopies, Data
<1>9. \A b \in Blocks : Replayed(disk, slot, lh)[b] = Current[b]
  <2>1. NoRepeats(lh)
    BY DEF Sound
  <2>2. \A b \in Blocks : Current[b] = Data(b)
    BY DEF Current
  <2> QED
    BY <1>7, <1>8, <2>1, <2>2, ReplayedAt DEF Data
<1>10. Recovered' = Current
  <2>1. Recovered' = Replayed(disk, slot, lh)
    BY <1>1, <1>3, RecoveredIs
  <2> QED
    BY <1>9, <2>1 DEF Current, Replayed
<1>11. UNCHANGED Pending
  BY <1>1, <1>2 DEF Pending, Current, Data
<1> QED
  BY <1>2, <1>4, <1>10, <1>11 DEF Pending

\* The other steps of a commit and of recovery change nothing of what survives
\* a crash, nor of what is read.
LEMMA CommitStutters ==
    ASSUME IInv, Sound, CacheSuffices, NEW p \in Procs, WriteLog(p) \/ Install(p) \/ Clear(p)
    PROVE  UNCHANGED <<Recovered, Pending>>
<1>1. TypeOK /\ disk \in [Blocks -> Vals] /\ slot \in [LogSlot -> Vals] /\ NoRepeats(dhead)
  BY DEF IInv, TypeOK, Sound
<1>2. CASE WriteLog(p)
  <2>1. UNCHANGED <<disk, mem, boot>> /\ dhead = <<>> /\ dhead' = <<>>
    BY <1>2, WriteLogSound
  <2>2. Recovered = disk /\ Recovered' = disk
    BY <1>1, <2>1, RecoveredIs, ReplayedEmpty
  <2> QED
    BY <2>1, <2>2, SameDisk
<1>3. CASE Install(p)
  <2>1. mem' = mem /\ disk' = [disk EXCEPT ![lh[tail]] = slot[tail]]
        /\ lh = dhead /\ tail \in DOMAIN lh /\ slot[tail] = mem[lh[tail]] /\ boot = "up"
    BY <1>3, InstallSound
  <2>2. lh[tail] \in Blocks /\ tail \in LogSlot
    BY <1>1, <2>1, TurnTypes
  <2>3. UNCHANGED <<slot, dhead, boot>>
    BY <1>3 DEF Install
  <2>4. Recovered' = Recovered
    <3>1. tail \in DOMAIN dhead /\ dhead[tail] \in Blocks /\ disk' = [disk EXCEPT ![dhead[tail]] = slot[tail]]
      BY <2>1, <2>2
    <3>2. Replayed([disk EXCEPT ![dhead[tail]] = slot[tail]], slot, dhead) = Replayed(disk, slot, dhead)
      BY <1>1, <3>1, ReplayedInstall
    <3> QED
      BY <2>1, <2>3, <3>1, <3>2, RecoveredIs
  <2>5. mem[lh[tail]] # Absent
    BY <1>1, <2>1, <2>2, AbsentAssumption
  <2>6. \A b \in Blocks : b # lh[tail] => disk'[b] = disk[b]
    BY <1>1, <2>1
  <2>7. Current' = Current
    BY <2>1, <2>5, <2>6 DEF Current, Data
  <2> QED
    BY <2>1, <2>3, <2>4, <2>7 DEF Pending
<1>4. CASE Clear(p)
  <2>1. dhead = lh /\ dhead' = <<>> /\ UNCHANGED <<disk, mem, boot>> /\ boot = "up"
        /\ \A j \in DOMAIN lh : disk[lh[j]] = slot[j]
    BY <1>4, ClearSound
  <2>2. Recovered = disk /\ Recovered' = disk
    BY <1>1, <2>1, RecoveredIs, ReplayedEmpty, ReplayedCopied
  <2> QED
    BY <2>1, <2>2, SameDisk
<1> QED
  BY <1>2, <1>3, <1>4

LEMMA RecoverStutters ==
    ASSUME IInv, Sound, Recover PROVE UNCHANGED <<Recovered, Pending, InOp>>
<1>1. TypeOK /\ disk \in [Blocks -> Vals] /\ NoRepeats(dhead)
  BY DEF IInv, TypeOK, Sound
<1>2. CASE RecoverReadHead
  <2>1. boot # "up" /\ boot' # "up" /\ UNCHANGED <<disk, slot, dhead, pc>>
    BY <1>2, RecoverReadHeadSound
  <2> QED
    BY <2>1, RecoveredIs DEF Pending, InOp
<1>3. CASE RecoverInstall
  <2>1. boot # "up" /\ boot' # "up" /\ UNCHANGED <<slot, dhead, pc>>
        /\ lh = dhead /\ tail \in DOMAIN lh /\ disk' = [disk EXCEPT ![lh[tail]] = slot[tail]]
    BY <1>3, RecoverInstallSound
  <2>2. lh[tail] \in Blocks
    BY <1>1, <2>1, TurnTypes
  <2>3. Recovered' = Recovered
    <3>1. tail \in DOMAIN dhead /\ dhead[tail] \in Blocks /\ disk' = [disk EXCEPT ![dhead[tail]] = slot[tail]]
      BY <2>1, <2>2
    <3>2. Replayed([disk EXCEPT ![dhead[tail]] = slot[tail]], slot, dhead) = Replayed(disk, slot, dhead)
      BY <1>1, <3>1, ReplayedInstall
    <3> QED
      BY <2>1, <3>1, <3>2, RecoveredIs
  <2> QED
    BY <2>1, <2>3 DEF Pending, InOp
<1>4. CASE RecoverClear
  <2>1. boot # "up" /\ boot' = "up" /\ UNCHANGED <<disk, mem, pc>>
        /\ lh = dhead /\ dhead' = <<>> /\ pinned = {}
        /\ \A j \in DOMAIN lh : disk[lh[j]] = slot[j]
    BY <1>4, RecoverClearSound
  <2>2. Recovered = disk /\ Recovered' = disk
    BY <1>1, <2>1, RecoveredIs, ReplayedEmpty, ReplayedCopied
  <2>3. \A b \in Blocks : Data(b)' = disk[b]
    BY <2>1 DEF Sound, CleanCopies, Data
  <2>4. Current' = disk
    BY <1>1, <2>3 DEF Current
  <2> QED
    BY <2>1, <2>2, <2>4 DEF Pending, InOp
<1> QED
  BY <1>2, <1>3, <1>4 DEF Recover

\* A buffer that is recycled or filled holds what is on disk.
LEMMA CacheStutters ==
    ASSUME IInv, Sound, NEW b \in Blocks, Evict(b) \/ Load(b)
    PROVE  UNCHANGED <<Recovered, Pending, InOp>>
<1>1. UNCHANGED <<disk, slot, dhead, pc, boot>>
  BY DEF Evict, Load, stable
<1>2. b \notin pinned
  BY DEF Evict, Load, InUse, Sound, CleanCopies
<1>3. mem' \in {[mem EXCEPT ![b] = Absent], [mem EXCEPT ![b] = disk[b]]} /\ mem \in [Blocks -> Vals \cup {Absent}]
  BY DEF Evict, Load, IInv, TypeOK
<1>4. mem[b] \in {Absent, disk[b]}
  BY <1>2 DEF Sound, CleanCopies
<1>5. \A c \in Blocks : Data(c)' = Data(c)
  BY <1>1, <1>3, <1>4 DEF Data
<1>6. Recovered' = Recovered
  BY <1>1, RecoveredIs
<1> QED
  BY <1>1, <1>5, <1>6 DEF Pending, Current, InOp

\* Operations open and close; the commit of the last one starts.
LEMMA OpenClose ==
    ASSUME IInv, NEW p \in Procs, Begin(p) \/ EndNotLast(p) \/ EndLast(p)
    PROVE  /\ UNCHANGED <<Recovered, Pending>>
           /\ Begin(p) => p \notin InOp /\ InOp' = InOp \cup {p}
           /\ EndNotLast(p) \/ EndLast(p) => p \in InOp /\ InOp' = InOp \ {p}
<1>1. UNCHANGED <<disk, slot, dhead, mem, boot>> /\ pc \in [Procs -> PcSet]
  BY DEF Begin, EndNotLast, EndLast, stable, cache, IInv, TypeOK
<1>2. FirstStage # "op"
  BY DEF FirstStage
<1>3. Begin(p) => p \notin InOp /\ InOp' = InOp \cup {p}
  BY <1>1 DEF Begin, InOp
<1>4. EndNotLast(p) \/ EndLast(p) => p \in InOp /\ InOp' = InOp \ {p}
  BY <1>1, <1>2 DEF EndNotLast, EndLast, Woken, InOp
<1> QED
  BY <1>1, <1>3, <1>4, RecoveredIs, SameDisk

\* An update is read at once and survives no crash.
LEMMA WriteIsPending ==
    ASSUME IInv, NEW p \in Procs, NEW b \in Blocks, NEW v \in Vals, Write(p, b, v)
    PROVE  p \in InOp /\ Pending' = [Pending EXCEPT ![b] = v] /\ UNCHANGED <<Recovered, InOp>>
<1>1. pc[p] = "op" /\ mem' = [mem EXCEPT ![b] = v] /\ UNCHANGED <<disk, slot, dhead, pc, boot>>
  BY DEF Write, stable
<1>2. boot = "up" /\ mem \in [Blocks -> Vals \cup {Absent}] /\ v # Absent
  BY <1>1, NobodyCommits, AbsentAssumption DEF IInv, TypeOK
<1>3. Data(b)' = v /\ \A c \in Blocks \ {b} : Data(c)' = Data(c)
  BY <1>1, <1>2 DEF Data
<1>4. Current' = [Current EXCEPT ![b] = v]
  BY <1>3 DEF Current
<1>5. Recovered' = Recovered
  BY <1>1, RecoveredIs
<1> QED
  BY <1>1, <1>2, <1>4, <1>5 DEF Pending, InOp

\* Steps that move processes outside operations.
LEMMA WaitingStutters ==
    ASSUME IInv, Sound,
           OtherWakeup \/ \E p \in Procs : BeginWaits(p) \/ FallAsleep(p) \/ Finish(p) \/ Stuck(p)
    PROVE  UNCHANGED <<Recovered, Pending, InOp>>
<1>1. UNCHANGED <<disk, slot, dhead, mem, boot>> /\ pc \in [Procs -> PcSet]
  BY DEF OtherWakeup, BeginWaits, FallAsleep, Finish, Stuck, stable, cache, IInv, TypeOK
<1>2. InOp' = InOp
  BY <1>1 DEF OtherWakeup, BeginWaits, FallAsleep, Finish, Stuck, Woken, InOp
<1> QED
  BY <1>1, <1>2, RecoveredIs, SameDisk

\* The log promises a transaction complete or absent (log.h:4), and keeps it:
\* every step of operations, commits, crashes and recoveries is a step of the
\* atomic disk or changes nothing of it, the header write being its Commit.
\* What that takes is that operations stay below their reservation and that no
\* turn of a commit is refused a buffer.
THEOREM LogIsAtomic ==
    ASSUME OpWrites < MAXOPBLOCKS
    PROVE  Spec /\ []CacheSuffices => AtomicTransactions
<1> USE DEF InOp, Pending, Current
<1>1. ASSUME Init PROVE Atomic!Init
  <2>1. dhead = <<>> /\ boot = "readhead" /\ disk \in [Blocks -> Vals] /\ InOp = {}
    BY <1>1 DEF Init
  <2>2. Recovered = disk
    BY <2>1, RecoveredIs, ReplayedEmpty
  <2> QED
    BY <2>1, <2>2 DEF Atomic!Init
<1>2. ASSUME IInv, Sound, CacheSuffices, [Next]_vars PROVE [Atomic!Next]_(Atomic!vars)
  <2> USE DEF Atomic!Next, Atomic!vars
  <2>1. CASE UNCHANGED <<Recovered, Pending, InOp>>
    BY <2>1
  <2>2. ASSUME NEW p \in Procs, Begin(p) PROVE Atomic!Next
    BY <1>2, <2>2, OpenClose DEF Atomic!Begin
  <2>3. ASSUME NEW p \in Procs, EndNotLast(p) \/ EndLast(p) PROVE Atomic!Next
    BY <1>2, <2>3, OpenClose DEF Atomic!End
  <2>4. ASSUME NEW p \in Procs, NEW b \in Blocks, NEW v \in Vals, Write(p, b, v) PROVE Atomic!Next
    BY <1>2, <2>4, WriteIsPending DEF Atomic!Write
  <2>5. ASSUME NEW p \in Procs, WriteHead(p) PROVE Atomic!Next
    BY <1>2, <2>5, WriteHeadCommits DEF Atomic!Commit
  <2>6. CASE Crash
    <3>1. UNCHANGED <<disk, slot, dhead>> /\ boot' = "readhead" /\ InOp' = {}
      BY <2>6 DEF Crash, stable
    <3>2. Recovered' = Recovered
      BY <3>1, RecoveredIs
    <3> QED
      BY <3>1, <3>2 DEF Atomic!Crash
  <2>7. ASSUME NEW p \in Procs, WriteLog(p) \/ Install(p) \/ Clear(p)
        PROVE  UNCHANGED <<Recovered, Pending, InOp>>
    <3>1. \A q \in Procs : pc[q] # "op" /\ pc'[q] # "op"
      <4>1. Crash \/ Recover \/ \E q \in Procs : CommitStep(q) \/ Stuck(q)
        BY <2>7 DEF CommitStep
      <4>2. pc[p] \in Committing
        BY <2>7 DEF WriteLog, Install, Clear, Committing
      <4> QED
        BY <1>2, <4>1, <4>2, NoOpAfter, CommitterAlone
    <3> QED
      BY <1>2, <2>7, <3>1, CommitStutters
  <2>8. CASE UNCHANGED vars
    <3>1. UNCHANGED <<disk, slot, dhead, mem, boot, pc>>
      BY <2>8 DEF vars
    <3> QED
      BY <2>1, <3>1, RecoveredIs, SameDisk
  <2> QED
    BY <1>2, <2>1, <2>2, <2>3, <2>4, <2>5, <2>6, <2>7, <2>8, CacheStutters, RecoverStutters,
       WaitingStutters DEF Next, ProcStep, CommitStep
<1> QED
  BY <1>1, <1>2, Invariance, SoundInvariance, PTL DEF Spec, AtomicTransactions, Atomic!Spec

=============================================================================
