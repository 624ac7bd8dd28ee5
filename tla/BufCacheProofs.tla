--------------------------- MODULE BufCacheProofs ---------------------------
(***************************************************************************)
(* The buffer cache is coherent: for every finite number of processes, and *)
(* any blocks, contents and number of buffers.  The order of the list does *)
(* not matter to any of it: it says which buffer is recycled, not which    *)
(* may be.                                                                 *)
(***************************************************************************)
EXTENDS BufCache, FiniteSetTheorems, TLAPS

Transfer == {"reading", "writing", "installing"}
Stage    == {"idle", "unref"} \cup Holding \cup Acquiring
Users(b) == {p \in Procs : buf[p] = b}

\* TypeOK, but for the list.
Types ==
    /\ id \in [Buf -> Blocks \cup {NoBlock}]
    /\ valid \in SUBSET Buf /\ dirty \in SUBSET Buf /\ pinned \in SUBSET Buf
    /\ left \in SUBSET Buf /\ unlogged \in SUBSET Buf
    /\ copy \in [Buf -> Vals \cup {NoCopy}]
    /\ refcnt \in [Buf -> Nat]
    /\ holder \in [Buf -> Procs \cup {Nobody}]
    /\ data \in [Buf -> Vals]
    /\ disk \in [Blocks -> Vals]
    /\ pc \in [Procs -> Stage]
    /\ want \in [Procs -> Blocks \cup {NoBlock}]
    /\ buf \in [Procs -> Buf \cup {NoBuf}]

\* A process has a reference to one buffer, from buf_get to buf_release.
References ==
    \A p \in Procs : /\ pc[p] = "idle" => buf[p] = NoBuf
                     /\ pc[p] # "idle" => buf[p] \in Buf /\ want[p] \in Blocks

\* The lock of a buffer names a process that is inside it, but for a buffer that
\* a turn left locked: nobody is inside that one any more.
LockNames ==
    /\ \A b \in Buf : holder[b] # Nobody /\ b \notin left =>
                          buf[holder[b]] = b /\ pc[holder[b]] \in Holding
    /\ \A b \in left : holder[b] # Nobody /\ \A q \in Procs : buf[q] = b => pc[q] \notin Holding

\* A transfer clears B_VALID until it ends; install_trans has a logged block.
Transfers ==
    \A p \in Procs : /\ pc[p] \in Transfer => buf[p] \notin valid
                     /\ pc[p] = "installing" => buf[p] \in pinned

\* A valid buffer that is neither pinned nor B_DIRTY holds what is on disk,
\* unless log_write refused its last change.
CleanIsDisk ==
    \A b \in valid \ unlogged :
        id[b] # NoBlock /\ b \notin dirty /\ b \notin pinned => data[b] = disk[id[b]]

IInv ==
    /\ Types /\ References /\ LockNames /\ Transfers /\ CleanIsDisk
    /\ OneCopy /\ GetsWhatItAsked /\ Exclusive /\ RefsCounted

-----------------------------------------------------------------------------
(***************************************************************************)
(* Stages and references                                                   *)
(***************************************************************************)

\* wakeup() sends sleepers back to the test of their lock.
LEMMA WokenIs ==
    ASSUME NEW at \in [Procs -> Stage]
    PROVE  /\ Woken(at) \in [Procs -> Stage]
           /\ \A q \in Procs : Woken(at)[q] = at[q] \/ (at[q] \in Acquiring /\ Woken(at)[q] \in Acquiring)
BY DEF Woken, Stage, Acquiring

\* q stays where it is, or on its way to the lock.
Stays(q) == pc'[q] = pc[q] \/ (pc[q] \in Acquiring /\ pc'[q] \in Acquiring)

\* One process changes stage and sleepers may be woken.
LEMMA MovesTo ==
    ASSUME Types, NEW p \in Procs, NEW s \in Stage, s # "asleep",
           pc' = Woken([pc EXCEPT ![p] = s]) \/ pc' = [pc EXCEPT ![p] = s]
    PROVE  pc' \in [Procs -> Stage] /\ pc'[p] = s /\ \A q \in Procs \ {p} : Stays(q)
<1> DEFINE at == [pc EXCEPT ![p] = s]
<1>1. at \in [Procs -> Stage] /\ at[p] = s /\ \A q \in Procs \ {p} : at[q] = pc[q]
  BY DEF Types
<1>2. pc' = Woken(at) \/ pc' = at
  OBVIOUS
<1> HIDE DEF at
<1>3. Woken(at)[p] = s
  BY <1>1 DEF Woken
<1> QED
  BY <1>1, <1>2, <1>3, WokenIs DEF Stays

LEMMA UsersFinite ==
    ASSUME IsFiniteSet(Procs), NEW b
    PROVE  IsFiniteSet(Users(b)) /\ Cardinality(Users(b)) \in Nat
BY FS_Subset, FS_CardinalityType DEF Users

LEMMA Counted == RefsCounted <=> \A b \in Buf : refcnt[b] = Cardinality(Users(b)) + LogRefs(b)
BY DEF RefsCounted, Users

LEMMA CountedNext == RefsCounted' <=> \A b \in Buf : refcnt'[b] = Cardinality(Users(b)') + LogRefs(b)'
BY DEF RefsCounted, Users, LogRefs

\* Nobody has or waits for a buffer without references, and it is not pinned.
LEMMA Unreferenced ==
    ASSUME IsFiniteSet(Procs), IInv, NEW b \in Buf, refcnt[b] = 0
    PROVE  b \notin pinned \cup left /\ (\A p \in Procs : buf[p] # b) /\ holder[b] = Nobody
<1>1. Cardinality(Users(b)) = 0 /\ LogRefs(b) = 0
  BY UsersFinite, Counted DEF IInv, LogRefs
<1>2. Users(b) = {}
  BY <1>1, UsersFinite, FS_EmptySet
<1>3. \A p \in Procs : buf[p] # b
  BY <1>2 DEF Users
<1> QED
  BY <1>1, <1>3 DEF LogRefs, IInv, LockNames, Types

\* A process that takes a reference, or drops its own.
LEMMA UserAdded ==
    ASSUME IsFiniteSet(Procs), Types, NEW p \in Procs, NEW b, buf' = [buf EXCEPT ![p] = b], buf[p] # b
    PROVE  Cardinality(Users(b)') = Cardinality(Users(b)) + 1
<1>1. Users(b)' = Users(b) \cup {p} /\ p \notin Users(b)
  BY DEF Users, Types
<1> QED
  BY <1>1, UsersFinite, FS_AddElement

LEMMA UserGone ==
    ASSUME IsFiniteSet(Procs), Types, NEW p \in Procs, NEW c, buf' = [buf EXCEPT ![p] = c],
           NEW b, buf[p] = b, b # c
    PROVE  Cardinality(Users(b)') = Cardinality(Users(b)) - 1
<1>1. Users(b)' = Users(b) \ {p} /\ p \in Users(b)
  BY DEF Users, Types
<1> QED
  BY <1>1, UsersFinite, FS_RemoveElement

LEMMA OtherUsers ==
    ASSUME Types, NEW p \in Procs, NEW c, buf' = [buf EXCEPT ![p] = c], NEW b, b # c, b # buf[p]
    PROVE  Users(b)' = Users(b)
BY DEF Users, Types

-----------------------------------------------------------------------------
(***************************************************************************)
(* The invariant is inductive                                              *)
(***************************************************************************)

LEMMA InitIInv == Init => IInv
<1> SUFFICES ASSUME Init PROVE IInv
  OBVIOUS
<1>1. Types
  BY DEF Init, Types, Stage, NoBuf
<1>2. References /\ LockNames /\ Transfers /\ CleanIsDisk
  BY DEF Init, References, LockNames, Transfers, CleanIsDisk, Transfer
<1>3. OneCopy /\ GetsWhatItAsked /\ Exclusive
  BY DEF Init, OneCopy, GetsWhatItAsked, Exclusive, Holding
<1>4. RefsCounted
  <2> SUFFICES ASSUME NEW b \in Buf PROVE Users(b) = {} /\ LogRefs(b) = 0 /\ refcnt[b] = 0
    BY FS_EmptySet, Counted
  <2>1. b # NoBuf
    BY NbufAssumption DEF Buf, NoBuf
  <2> QED
    BY <2>1 DEF Init, Users, LogRefs
<1> QED
  BY <1>1, <1>2, <1>3, <1>4 DEF IInv

\* A buffer is a number, and NULL is none of them.
LEMMA NotNull == NoBuf \notin Buf
BY NbufAssumption DEF Buf, NoBuf

\* A process asks for block k and gets a reference to buffer b: the part of
\* the invariant that does not depend on how the buffer was found.
LEMMA AsksKeeps ==
    ASSUME IInv, NEW p \in Procs, NEW k \in Blocks, NEW b \in Buf, Asks(p, k, b),
           id'[b] = k, \A c \in Buf \ {b} : id'[c] = id[c],
           id[b] = k \/ \A q \in Procs : buf[q] # b,
           UNCHANGED <<holder, pinned, left>>,
           \A c \in Buf \ {b} : c \in valid' <=> c \in valid,
           \A q \in Procs : buf[q] = b => (b \in valid' <=> b \in valid)
    PROVE  /\ pc' \in [Procs -> Stage] /\ want' \in [Procs -> Blocks \cup {NoBlock}]
           /\ buf' = [buf EXCEPT ![p] = b] /\ buf[p] = NoBuf /\ buf' \in [Procs -> Buf \cup {NoBuf}]
           /\ References' /\ LockNames' /\ Transfers' /\ GetsWhatItAsked' /\ Exclusive'
<1>1. /\ pc[p] = "idle" /\ pc' = [pc EXCEPT ![p] = "lock"] /\ want' = [want EXCEPT ![p] = k]
      /\ buf' = [buf EXCEPT ![p] = b] /\ Types /\ buf[p] = NoBuf
  BY DEF Asks, IInv, References
<1>2. /\ pc' \in [Procs -> Stage] /\ want' \in [Procs -> Blocks \cup {NoBlock}]
      /\ buf' \in [Procs -> Buf \cup {NoBuf}]
  BY <1>1 DEF Types, Stage, Acquiring
<1>3. /\ pc'[p] = "lock" /\ want'[p] = k /\ buf'[p] = b
      /\ \A q \in Procs \ {p} : pc'[q] = pc[q] /\ want'[q] = want[q] /\ buf'[q] = buf[q]
  BY <1>1 DEF Types
<1>4. References'
  BY <1>3 DEF IInv, References
<1>5. LockNames' /\ Exclusive'
  <2>1. \A c \in Buf \ left : holder[c] # Nobody => holder[c] \in Procs \ {p}
    BY <1>1 DEF IInv, LockNames, Types, Holding
  <2>2. pc[p] \notin Holding /\ pc'[p] \notin Holding
    BY <1>1, <1>3 DEF Holding
  <2>3. LockNames'
    BY <1>3, <2>1, <2>2 DEF IInv, LockNames
  <2>4. Exclusive'
    BY <1>3, <2>2 DEF IInv, Exclusive
  <2> QED
    BY <2>3, <2>4
<1>6. Transfers' /\ GetsWhatItAsked'
  <2> SUFFICES ASSUME NEW q \in Procs
               PROVE  /\ pc'[q] \in Transfer => buf'[q] \notin valid'
                      /\ pc'[q] = "installing" => buf'[q] \in pinned'
                      /\ pc'[q] # "idle" => id'[buf'[q]] = want'[q]
                      /\ pc'[q] = "use" => buf'[q] \in valid'
    BY DEF Transfers, GetsWhatItAsked
  <2>1. CASE q = p
    BY <1>3, <2>1 DEF Transfer
  <2>2. CASE q # p
    <3>1. pc[q] # "idle" => buf[q] \in Buf
      BY DEF IInv, References
    <3>2. pc[q] # "idle" => (buf[q] \in valid' <=> buf[q] \in valid) /\ id'[buf[q]] = id[buf[q]]
      BY <3>1
    <3> QED
      BY <1>3, <2>2, <3>2 DEF IInv, Transfers, GetsWhatItAsked, Transfer
  <2> QED
    BY <2>1, <2>2
<1> QED
  BY <1>1, <1>2, <1>4, <1>5, <1>6

LEMMA GetHitKeeps ==
    ASSUME IsFiniteSet(Procs), IInv, NEW p \in Procs, NEW k \in Blocks, NEW b \in Buf, GetHit(p, k, b)
    PROVE  IInv'
<1> USE DEF flags
<1>1. /\ id[b] = k /\ Asks(p, k, b) /\ refcnt' = [refcnt EXCEPT ![b] = @ + 1] /\ Types
      /\ UNCHANGED <<id, valid, dirty, holder, data, lru, pinned, copy, left, unlogged, disk>>
  BY DEF log, GetHit, IsHit, Caches, IInv
<1>2. /\ pc' \in [Procs -> Stage] /\ want' \in [Procs -> Blocks \cup {NoBlock}]
      /\ buf' = [buf EXCEPT ![p] = b] /\ buf[p] = NoBuf /\ buf' \in [Procs -> Buf \cup {NoBuf}]
      /\ References' /\ LockNames' /\ Transfers' /\ GetsWhatItAsked' /\ Exclusive'
  BY <1>1, AsksKeeps
<1>3. Types'
  BY <1>1, <1>2 DEF Types
<1>4. OneCopy' /\ CleanIsDisk'
  BY <1>1 DEF IInv, OneCopy, CleanIsDisk
<1>5. RefsCounted'
  <2> SUFFICES ASSUME NEW c \in Buf PROVE refcnt'[c] = Cardinality(Users(c)') + LogRefs(c)'
    BY CountedNext
  <2>1. refcnt[c] = Cardinality(Users(c)) + LogRefs(c) /\ LogRefs(c)' = LogRefs(c) /\ LogRefs(c) \in Nat
    BY <1>1, Counted DEF IInv, LogRefs
  <2>2. c # NoBuf /\ b # NoBuf
    BY NotNull
  <2>3. CASE c = b
    <3>1. Cardinality(Users(c)') = Cardinality(Users(c)) + 1
      BY <1>1, <1>2, <2>2, <2>3, UserAdded
    <3>2. refcnt'[c] = refcnt[c] + 1
      BY <1>1, <2>3 DEF Types
    <3> QED
      BY <2>1, <3>1, <3>2, UsersFinite
  <2>4. CASE c # b
    <3>1. Cardinality(Users(c)') = Cardinality(Users(c))
      BY <1>1, <1>2, <2>2, <2>4, OtherUsers
    <3>2. refcnt'[c] = refcnt[c]
      BY <1>1, <2>4 DEF Types
    <3> QED
      BY <2>1, <3>1, <3>2
  <2> QED
    BY <2>3, <2>4
<1> QED
  BY <1>2, <1>3, <1>4, <1>5 DEF IInv

LEMMA GetRecyclesKeeps ==
    ASSUME IsFiniteSet(Procs), IInv, NEW p \in Procs, NEW k \in Blocks, NEW b \in Buf, GetRecycles(p, k, b)
    PROVE  IInv'
<1>1. /\ Asks(p, k, b) /\ refcnt[b] = 0 /\ Types /\ \A c \in Buf : id[c] # k
      /\ id' = [id EXCEPT ![b] = k] /\ valid' = valid \ {b} /\ dirty' = dirty \ {b}
      /\ refcnt' = [refcnt EXCEPT ![b] = 1] /\ unlogged' = unlogged \ {b}
      /\ UNCHANGED <<holder, data, lru, pinned, copy, left, disk>>
  BY DEF GetRecycles, Caches, IsVictim, Recyclable, IInv
<1>2. b \notin pinned \cup left /\ \A q \in Procs : buf[q] # b
  BY <1>1, Unreferenced
<1>3. id'[b] = k /\ \A c \in Buf \ {b} : id'[c] = id[c]
  BY <1>1 DEF Types
<1>4. /\ pc' \in [Procs -> Stage] /\ want' \in [Procs -> Blocks \cup {NoBlock}]
      /\ buf' = [buf EXCEPT ![p] = b] /\ buf[p] = NoBuf /\ buf' \in [Procs -> Buf \cup {NoBuf}]
      /\ References' /\ LockNames' /\ Transfers' /\ GetsWhatItAsked' /\ Exclusive'
  BY <1>1, <1>2, <1>3, AsksKeeps
<1>5. Types'
  BY <1>1, <1>4 DEF Types
<1>6. OneCopy'
  BY <1>1, <1>3 DEF IInv, OneCopy
<1>7. CleanIsDisk'
  BY <1>1, <1>3 DEF IInv, CleanIsDisk, Types
<1>8. RefsCounted'
  <2> SUFFICES ASSUME NEW c \in Buf PROVE refcnt'[c] = Cardinality(Users(c)') + LogRefs(c)'
    BY CountedNext
  <2>1. refcnt[c] = Cardinality(Users(c)) + LogRefs(c) /\ LogRefs(c)' = LogRefs(c) /\ LogRefs(c) \in Nat
    BY <1>1, Counted DEF IInv, LogRefs
  <2>2. c # NoBuf /\ b # NoBuf
    BY NotNull
  <2>3. CASE c = b
    <3>1. Cardinality(Users(c)') = Cardinality(Users(c)) + 1
      BY <1>1, <1>4, <2>2, <2>3, UserAdded
    <3>2. refcnt'[c] = 1
      BY <1>1, <2>3 DEF Types
    <3> QED
      BY <1>1, <2>3, <2>1, <3>1, <3>2, UsersFinite
  <2>4. CASE c # b
    <3>1. Cardinality(Users(c)') = Cardinality(Users(c))
      BY <1>1, <1>4, <2>2, <2>4, OtherUsers
    <3>2. refcnt'[c] = refcnt[c]
      BY <1>1, <2>4 DEF Types
    <3> QED
      BY <2>1, <3>1, <3>2
  <2> QED
    BY <2>3, <2>4
<1> QED
  BY <1>4, <1>5, <1>6, <1>7, <1>8 DEF IInv

\* The buffer a process is inside is its own.
LEMMA Alone ==
    ASSUME IInv, NEW p \in Procs, pc[p] \in Holding
    PROVE  /\ buf[p] \in Buf /\ holder[buf[p]] = p /\ id[buf[p]] = want[p] /\ want[p] \in Blocks
           /\ pc[p] # "idle"
           /\ \A q \in Procs \ {p} : pc[q] \in Holding => buf[q] # buf[p]
<1>1. pc[p] # "idle"
  BY DEF Holding
<1>2. \A q \in Procs : pc[q] \in Holding => holder[buf[q]] = q
  BY DEF IInv, Exclusive
<1> QED
  BY <1>1, <1>2 DEF IInv, References, GetsWhatItAsked

\* A step of the process that is inside its buffer, and stays there.
LEMMA InsideKeeps ==
    ASSUME IInv, NEW p \in Procs, pc[p] \in Holding, UNCHANGED <<id, want, buf, holder, left>>,
           pc' \in [Procs -> Stage], pc'[p] \in Holding, \A q \in Procs \ {p} : Stays(q),
           \A b \in Buf \ {buf[p]} : (b \in valid' <=> b \in valid) /\ (b \in pinned' <=> b \in pinned),
           pc'[p] \in Transfer => buf[p] \notin valid',
           pc'[p] = "use" => buf[p] \in valid',
           pc'[p] = "installing" => buf[p] \in pinned'
    PROVE  References' /\ LockNames' /\ Transfers' /\ OneCopy' /\ GetsWhatItAsked' /\ Exclusive'
<1>1. /\ buf[p] \in Buf /\ holder[buf[p]] = p /\ pc[p] # "idle" /\ pc'[p] # "idle"
      /\ \A q \in Procs \ {p} : pc[q] \in Holding => buf[q] # buf[p]
  BY Alone DEF Holding
<1>2. \A q \in Procs \ {p} : /\ pc'[q] \in Holding <=> pc[q] \in Holding
                             /\ pc'[q] \in Holding => pc'[q] = pc[q]
                             /\ pc'[q] = "idle" <=> pc[q] = "idle"
  BY DEF Stays, Acquiring, Holding
<1>3. References' /\ OneCopy'
  BY <1>1, <1>2 DEF IInv, References, OneCopy
<1>4. LockNames' /\ Exclusive'
  BY <1>1, <1>2 DEF IInv, LockNames, Exclusive, Types
<1>5. Transfers' /\ GetsWhatItAsked'
  <2> SUFFICES ASSUME NEW q \in Procs
               PROVE  /\ pc'[q] \in Transfer => buf[q] \notin valid'
                      /\ pc'[q] = "installing" => buf[q] \in pinned'
                      /\ pc'[q] # "idle" => id[buf[q]] = want[q]
                      /\ pc'[q] = "use" => buf[q] \in valid'
    BY DEF Transfers, GetsWhatItAsked
  <2>1. CASE q = p
    BY <1>1, <2>1 DEF IInv, GetsWhatItAsked
  <2>2. CASE q # p
    <3>1. pc'[q] \in Holding => buf[q] \in Buf \ {buf[p]} /\ pc'[q] = pc[q]
      BY <1>1, <1>2, <2>2, Alone
    <3>2. pc'[q] \in Transfer => pc'[q] \in Holding
      BY DEF Transfer, Holding
    <3>3. "use" \in Holding /\ "installing" \in Holding
      BY DEF Holding
    <3> QED
      BY <1>2, <2>2, <3>1, <3>2, <3>3 DEF IInv, Transfers, GetsWhatItAsked
  <2> QED
    BY <2>1, <2>2
<1> QED
  BY <1>3, <1>4, <1>5

\* Neither references nor pins change.
LEMMA CountsStay ==
    ASSUME RefsCounted, UNCHANGED <<refcnt, pinned, left, buf>> PROVE RefsCounted'
BY DEF RefsCounted, LogRefs

LEMMA ReadDoneKeeps == ASSUME IInv, NEW p \in Procs, ReadDone(p) PROVE IInv'
<1> DEFINE b == buf[p]
<1>1. /\ pc[p] = "reading" /\ pc[p] \in Holding /\ Types
      /\ data' = [data EXCEPT ![b] = disk[id[b]]] /\ valid' = valid \cup {b}
      /\ pc' = Woken([pc EXCEPT ![p] = "use"])
      /\ UNCHANGED <<id, dirty, refcnt, holder, lru, pinned, copy, left, unlogged, disk, want, buf>>
  BY DEF ReadDone, log, mine, Holding, IInv
<1>2. b \in Buf /\ id[b] \in Blocks
  BY <1>1, Alone
<1>3. pc' \in [Procs -> Stage] /\ pc'[p] = "use" /\ \A q \in Procs \ {p} : Stays(q)
  <2>1. "use" \in Stage
    BY DEF Stage, Holding
  <2> QED
    BY <1>1, <2>1, MovesTo
<1>4. pc'[p] \in Holding /\ pc'[p] \notin Transfer
  BY <1>3 DEF Holding, Transfer
<1>5. References' /\ LockNames' /\ Transfers' /\ OneCopy' /\ GetsWhatItAsked' /\ Exclusive'
  BY <1>1, <1>2, <1>3, <1>4, InsideKeeps
<1>6. Types'
  BY <1>1, <1>2, <1>3 DEF Types
<1>7. CleanIsDisk'
  BY <1>1, <1>2 DEF IInv, CleanIsDisk, Types
<1>8. RefsCounted'
  BY <1>1, CountsStay DEF IInv
<1> QED
  BY <1>5, <1>6, <1>7, <1>8 DEF IInv

\* log_write, of either outcome, by the process that is inside b.
LEMMA UpdateKeeps == ASSUME IsFiniteSet(Procs), IInv, NEW p \in Procs, NEW v \in Vals, Update(p, v) PROVE IInv'
<1> DEFINE b == buf[p]
<1>1. /\ pc[p] = "use" /\ pc[p] \in Holding /\ pc[p] \notin Transfer /\ Types
      /\ data' = [data EXCEPT ![b] = v]
      /\ UNCHANGED <<id, valid, dirty, holder, lru, copy, left, disk, pc, want, buf>>
  BY DEF Update, mine, flags, Holding, Transfer, IInv
<1>2. b \in Buf
  BY <1>1, Alone
<1>3. b \in valid /\ pc' \in [Procs -> Stage] /\ \A q \in Procs : Stays(q)
  BY <1>1 DEF IInv, GetsWhatItAsked, Stays, Types
<1>4. PICK n \in {0, 1} :
          /\ refcnt' = [refcnt EXCEPT ![b] = @ + n]
          /\ \A c \in Buf : LogRefs(c)' = LogRefs(c) + (IF c = b THEN n ELSE 0)
          /\ \A c \in Buf \ {b} : (c \in pinned' <=> c \in pinned) /\ (c \in unlogged' <=> c \in unlogged)
          /\ pinned' \in SUBSET Buf /\ unlogged' \in SUBSET Buf
          /\ b \in pinned' \cup unlogged'
  <2>1. CASE LogTakes(b)
    <3>1. Pins(b) \in {0, 1} /\ \A c \in Buf : LogRefs(c)' = LogRefs(c) + (IF c = b THEN Pins(b) ELSE 0)
      BY <1>1, <1>2, <2>1 DEF LogTakes, Pins, LogRefs
    <3> QED
      BY <1>1, <1>2, <2>1, <3>1 DEF LogTakes, Types
  <2>2. CASE LogRefuses(b)
    <3>1. refcnt = [refcnt EXCEPT ![b] = @ + 0]
      BY <1>1, <1>2 DEF Types
    <3>2. \A c \in Buf : LogRefs(c)' = LogRefs(c) + (IF c = b THEN 0 ELSE 0)
      BY <1>1, <2>2 DEF LogRefuses, LogRefs
    <3> QED
      BY <1>1, <1>2, <2>2, <3>1, <3>2 DEF LogRefuses, Types
  <2> QED
    BY <2>1, <2>2 DEF Update
<1>5. References' /\ LockNames' /\ Transfers' /\ OneCopy' /\ GetsWhatItAsked' /\ Exclusive'
  BY <1>1, <1>2, <1>3, <1>4, InsideKeeps
<1>6. Types'
  BY <1>1, <1>2, <1>4 DEF Types
<1>7. CleanIsDisk'
  <2> SUFFICES ASSUME NEW c \in valid \ unlogged', id[c] # NoBlock, c \notin dirty, c \notin pinned'
               PROVE  data'[c] = disk[id[c]]
    BY <1>1 DEF CleanIsDisk
  <2>1. c # b /\ c \in Buf
    BY <1>1, <1>4 DEF Types
  <2> QED
    BY <1>1, <1>4, <2>1 DEF IInv, CleanIsDisk, Types
<1>8. RefsCounted'
  <2> SUFFICES ASSUME NEW c \in Buf PROVE refcnt'[c] = Cardinality(Users(c)') + LogRefs(c)'
    BY CountedNext
  <2>1. refcnt[c] = Cardinality(Users(c)) + LogRefs(c) /\ Users(c)' = Users(c)
    BY <1>1, Counted DEF IInv, Users
  <2>2. LogRefs(c) \in Nat /\ Cardinality(Users(c)) \in Nat
    BY UsersFinite DEF LogRefs
  <2>3. CASE c = b
    <3>1. refcnt'[c] = refcnt[c] + n /\ LogRefs(c)' = LogRefs(c) + n
      BY <1>1, <1>4, <2>3 DEF Types
    <3> QED
      BY <1>4, <2>1, <2>2, <3>1
  <2>4. CASE c # b
    <3>1. refcnt'[c] = refcnt[c] /\ LogRefs(c)' = LogRefs(c)
      BY <1>1, <1>4, <2>2, <2>4 DEF Types
    <3> QED
      BY <2>1, <3>1
  <2> QED
    BY <2>3, <2>4
<1> QED
  BY <1>5, <1>6, <1>7, <1>8 DEF IInv

LEMMA StartsWriteKeeps ==
    ASSUME IInv, NEW p \in Procs, (\E v \in Vals : WriteThrough(p, v)) \/ Install(p) PROVE IInv'
<1> DEFINE b == buf[p]
<1>1. /\ pc[p] = "use" /\ pc[p] \in Holding /\ Types
      /\ dirty' = dirty \cup {b} /\ valid' = valid \ {b}
      /\ unlogged' \in SUBSET Buf /\ \A c \in Buf \ {b} : c \in unlogged' <=> c \in unlogged
      /\ UNCHANGED <<id, refcnt, holder, lru, pinned, copy, left, disk, want, buf>>
  BY DEF WriteThrough, Install, StartsWrite, log, mine, Holding, IInv, Types
<1>2. b \in Buf
  BY <1>1, Alone
<1>3. PICK s \in Transfer : pc' = [pc EXCEPT ![p] = s] /\ (s = "installing" => b \in pinned)
  BY DEF WriteThrough, Install, StartsWrite, Transfer
<1>4. s \in Stage /\ s # "asleep" /\ s \in Holding /\ s # "use"
  BY <1>3 DEF Stage, Holding, Transfer
<1>5. pc' \in [Procs -> Stage] /\ pc'[p] = s /\ \A q \in Procs \ {p} : Stays(q)
  BY <1>1, <1>3, <1>4, MovesTo
<1>6. References' /\ LockNames' /\ Transfers' /\ OneCopy' /\ GetsWhatItAsked' /\ Exclusive'
  BY <1>1, <1>2, <1>3, <1>4, <1>5, InsideKeeps
<1>7. data' \in [Buf -> Vals] /\ \A c \in Buf \ {b} : data'[c] = data[c]
  <2>1. CASE Install(p)
    <3>1. data' = [data EXCEPT ![b] = copy[b]] /\ copy[b] \in Vals
      BY <1>1, <1>2, <2>1 DEF Install, Types
    <3> QED
      BY <1>1, <3>1 DEF Types
  <2>2. CASE \E v \in Vals : WriteThrough(p, v)
    <3>1. PICK v \in Vals : data' = [data EXCEPT ![b] = v]
      BY <2>2 DEF WriteThrough
    <3> QED
      BY <1>1, <1>2, <3>1 DEF Types
  <2> QED
    BY <2>1, <2>2
<1>8. Types'
  BY <1>1, <1>2, <1>5, <1>7 DEF Types
<1>9. CleanIsDisk'
  BY <1>1, <1>7 DEF IInv, CleanIsDisk, Types
<1>10. RefsCounted'
  BY <1>1, CountsStay DEF IInv
<1> QED
  BY <1>6, <1>8, <1>9, <1>10 DEF IInv

LEMMA WriteDoneKeeps == ASSUME IsFiniteSet(Procs), IInv, NEW p \in Procs, WriteDone(p) PROVE IInv'
<1> DEFINE b == buf[p]
           u == IF pc[p] = "installing" THEN 1 ELSE 0
<1>1. /\ pc[p] \in {"writing", "installing"} /\ pc[p] \in Holding /\ Types
      /\ disk' = [disk EXCEPT ![id[b]] = data[b]] /\ valid' = valid \cup {b}
      /\ pinned' = (IF pc[p] = "installing" THEN pinned \ {b} ELSE pinned)
      /\ pc' = Woken([pc EXCEPT ![p] = "use"])
      /\ copy' \in [Buf -> Vals \cup {NoCopy}]
      /\ UNCHANGED <<id, dirty, holder, data, lru, left, unlogged, want, buf>>
  BY DEF WriteDone, mine, Holding, IInv, Types
<1>2. b \in Buf /\ id[b] \in Blocks
  BY <1>1, Alone
<1>3. pc' \in [Procs -> Stage] /\ pc'[p] = "use" /\ \A q \in Procs \ {p} : Stays(q)
  <2>1. "use" \in Stage
    BY DEF Stage, Holding
  <2> QED
    BY <1>1, <2>1, MovesTo
<1>4. pc'[p] \in Holding /\ pc'[p] \notin Transfer
  BY <1>3 DEF Holding, Transfer
<1>5. References' /\ LockNames' /\ Transfers' /\ OneCopy' /\ GetsWhatItAsked' /\ Exclusive'
  BY <1>1, <1>2, <1>3, <1>4, InsideKeeps
<1>6. u = 1 => b \in pinned
  BY DEF IInv, Transfers
<1>7. refcnt \in [Buf -> Nat] /\ refcnt' = [refcnt EXCEPT ![b] = @ - u]
  BY <1>1 DEF WriteDone, Types
<1>8. \A c \in Buf : LogRefs(c)' = (IF c = b THEN LogRefs(c) - u ELSE LogRefs(c)) /\ LogRefs(c) \in Nat
  BY <1>1, <1>2, <1>6 DEF LogRefs
<1> HIDE DEF u
<1>9. u \in Int
  BY DEF u
<1>10. \A c \in Buf : refcnt'[c] = Cardinality(Users(c)') + LogRefs(c)' /\ refcnt'[c] \in Nat
  <2> SUFFICES ASSUME NEW c \in Buf PROVE refcnt'[c] = Cardinality(Users(c)') + LogRefs(c)' /\ refcnt'[c] \in Nat
    OBVIOUS
  <2>1. refcnt[c] = Cardinality(Users(c)) + LogRefs(c) /\ Users(c)' = Users(c) /\ Cardinality(Users(c)) \in Nat
    BY <1>1, Counted, UsersFinite DEF IInv, Users
  <2>2. LogRefs(c)' \in Nat
    BY DEF LogRefs
  <2> QED
    BY <1>2, <1>7, <1>8, <1>9, <2>1, <2>2
<1>11. RefsCounted'
  BY <1>10, CountedNext
<1>12. Types'
  <2>1. refcnt' \in [Buf -> Nat]
    BY <1>7, <1>10
  <2> QED
    BY <1>1, <1>2, <1>3, <2>1 DEF Types
<1>13. CleanIsDisk'
  <2> SUFFICES ASSUME NEW c \in valid' \ unlogged, id[c] # NoBlock, c \notin dirty, c \notin pinned'
               PROVE  data[c] = disk'[id[c]]
    BY <1>1 DEF CleanIsDisk
  <2>1. CASE c = b
    BY <1>1, <1>2, <2>1 DEF Types
  <2>2. CASE c # b
    <3>1. c \in valid /\ c \notin pinned /\ c \in Buf /\ id[c] # id[b] /\ id[c] \in Blocks
      BY <1>1, <1>2, <2>2 DEF Types, IInv, OneCopy
    <3> QED
      BY <1>1, <3>1 DEF IInv, CleanIsDisk, Types
  <2> QED
    BY <2>1, <2>2
<1> QED
  BY <1>5, <1>11, <1>12, <1>13 DEF IInv

\* Steps on the way to a lock.
LEMMA WaitKeeps ==
    ASSUME IInv, OtherWakeup \/ \E p \in Procs : AcquireWaits(p) \/ FallAsleep(p) PROVE IInv'
<1>1. /\ UNCHANGED <<id, valid, dirty, refcnt, holder, data, lru, pinned, copy, left, unlogged, disk, want, buf>>
      /\ Types
  BY DEF OtherWakeup, AcquireWaits, FallAsleep, flags, log, mine, IInv
<1>2. pc' \in [Procs -> Stage] /\ \A q \in Procs : Stays(q)
  <2>1. CASE OtherWakeup
    BY <1>1, <2>1, WokenIs DEF OtherWakeup, Types, Stays
  <2>2. CASE \E p \in Procs : AcquireWaits(p) \/ FallAsleep(p)
    BY <1>1, <2>2 DEF AcquireWaits, FallAsleep, Types, Stays, Stage, Acquiring
  <2> QED
    BY <2>1, <2>2
<1>3. \A q \in Procs : \A s \in Holding \cup {"idle"} : pc'[q] = s <=> pc[q] = s
  BY <1>2 DEF Stays, Acquiring, Holding
<1>4. Types' /\ References' /\ CleanIsDisk' /\ OneCopy'
  BY <1>1, <1>2, <1>3 DEF IInv, Types, References, CleanIsDisk, OneCopy
<1>5. LockNames' /\ Exclusive'
  BY <1>1, <1>3 DEF IInv, LockNames, Exclusive, Types
<1>6. Transfers' /\ GetsWhatItAsked'
  BY <1>1, <1>3 DEF IInv, Transfers, GetsWhatItAsked, Transfer, Holding
<1>7. RefsCounted'
  BY <1>1, CountsStay DEF IInv
<1> QED
  BY <1>4, <1>5, <1>6, <1>7 DEF IInv

LEMMA AcquireKeeps == ASSUME IInv, NEW p \in Procs, Acquire(p) PROVE IInv'
<1> DEFINE b == buf[p]
           s == IF b \in valid THEN "use" ELSE "reading"
<1>1. /\ pc[p] = "lock" /\ Types /\ holder[b] = Nobody /\ holder' = [holder EXCEPT ![b] = p]
      /\ pc' = [pc EXCEPT ![p] = s]
      /\ UNCHANGED <<id, valid, dirty, refcnt, data, lru, pinned, copy, left, unlogged, disk, want, buf>>
  <2>1. b \notin valid => valid \ {b} = valid
    OBVIOUS
  <2> QED
    BY <2>1 DEF Acquire, NeedsRead, log, mine, IInv
<1>2. b \in Buf /\ id[b] = want[p] /\ s \in Stage /\ s \in Holding /\ s # "asleep"
  BY <1>1 DEF IInv, References, GetsWhatItAsked, Stage, Holding
<1>3. pc' \in [Procs -> Stage] /\ pc'[p] = s /\ \A q \in Procs \ {p} : pc'[q] = pc[q]
  BY <1>1, <1>2 DEF Types
<1>4. holder'[b] = p /\ \A c \in Buf \ {b} : holder'[c] = holder[c]
  BY <1>1, <1>2 DEF Types
<1>5. \A q \in Procs : pc[q] \in Holding => buf[q] # b /\ buf[q] \in Buf /\ q # p
  BY <1>1, Alone, NoneAssumption DEF Holding
<1>6. Types' /\ CleanIsDisk' /\ OneCopy'
  BY <1>1, <1>2, <1>3 DEF IInv, Types, CleanIsDisk, OneCopy
<1>7. References'
  BY <1>1, <1>2, <1>3 DEF IInv, References, Holding
<1>8. LockNames'
  BY <1>1, <1>2, <1>3, <1>4 DEF IInv, LockNames, Types
<1>9. Exclusive'
  BY <1>1, <1>3, <1>4, <1>5 DEF IInv, Exclusive
<1>10. Transfers' /\ GetsWhatItAsked'
  BY <1>1, <1>2, <1>3 DEF IInv, Transfers, GetsWhatItAsked, Transfer
<1>11. RefsCounted'
  BY <1>1, CountsStay DEF IInv
<1> QED
  BY <1>6, <1>7, <1>8, <1>9, <1>10, <1>11 DEF IInv

LEMMA UnlockKeeps == ASSUME IInv, NEW p \in Procs, Unlock(p) PROVE IInv'
<1> DEFINE b == buf[p]
<1>1. /\ pc[p] = "use" /\ pc[p] \in Holding /\ Types
      /\ holder' = [holder EXCEPT ![b] = Nobody] /\ pc' = Woken([pc EXCEPT ![p] = "unref"])
      /\ UNCHANGED <<id, valid, dirty, refcnt, data, lru, pinned, copy, left, unlogged, disk, want, buf>>
  BY DEF Unlock, log, flags, mine, Holding, IInv
<1>2. /\ b \in Buf /\ holder[b] = p
      /\ \A q \in Procs \ {p} : pc[q] \in Holding => buf[q] # b
  BY <1>1, Alone
<1>3. pc' \in [Procs -> Stage] /\ pc'[p] = "unref" /\ \A q \in Procs \ {p} : Stays(q)
  <2>1. "unref" \in Stage
    BY DEF Stage
  <2> QED
    BY <1>1, <2>1, MovesTo
<1>4. \A q \in Procs \ {p} : \A s \in Holding \cup {"idle"} : pc'[q] = s <=> pc[q] = s
  BY <1>3 DEF Stays, Acquiring, Holding
<1>5. pc'[p] \notin Holding /\ pc'[p] # "idle" /\ pc[p] # "idle"
  BY <1>1, <1>3 DEF Holding
<1>6. holder'[b] = Nobody /\ \A c \in Buf \ {b} : holder'[c] = holder[c]
  BY <1>1, <1>2 DEF Types
<1>7. Types' /\ CleanIsDisk' /\ OneCopy'
  BY <1>1, <1>2, <1>3 DEF IInv, Types, CleanIsDisk, OneCopy
<1>8. References'
  BY <1>1, <1>4, <1>5 DEF IInv, References
<1>9. LockNames'
  <2>1. b \notin left
    BY <1>1 DEF IInv, LockNames
  <2>2. ASSUME NEW c \in left PROVE holder'[c] # Nobody /\ \A q \in Procs : buf[q] = c => pc'[q] \notin Holding
    <3>1. c # b /\ c \in Buf /\ holder[c] # Nobody /\ \A q \in Procs : buf[q] = c => pc[q] \notin Holding
      BY <1>1, <2>1 DEF IInv, LockNames, Types
    <3> QED
      BY <1>4, <1>5, <1>6, <3>1
  <2> SUFFICES ASSUME NEW c \in Buf \ left, holder'[c] # Nobody PROVE buf[holder'[c]] = c /\ pc'[holder'[c]] \in Holding
    BY <1>1, <2>2 DEF LockNames
  <2>3. c # b /\ holder'[c] = holder[c] /\ buf[holder[c]] = c /\ pc[holder[c]] \in Holding
    BY <1>6 DEF IInv, LockNames
  <2>4. holder[c] \in Procs \ {p}
    BY <1>6, <2>3 DEF IInv, Types
  <2> QED
    BY <1>4, <2>3, <2>4
<1>10. Exclusive'
  <2> SUFFICES ASSUME NEW q \in Procs, pc'[q] \in Holding PROVE holder'[buf[q]] = q
    BY <1>1 DEF Exclusive
  <2>1. q # p /\ pc[q] \in Holding /\ buf[q] # b
    BY <1>2, <1>4, <1>5
  <2>2. buf[q] \in Buf /\ holder[buf[q]] = q
    BY <2>1, Alone
  <2> QED
    BY <1>6, <2>1, <2>2
<1>11. Transfers' /\ GetsWhatItAsked'
  <2>1. Transfer \subseteq Holding /\ "installing" \in Holding /\ "use" \in Holding
    BY DEF Transfer, Holding
  <2>2. ASSUME NEW q \in Procs, q # p
        PROVE  /\ pc'[q] \in Transfer <=> pc[q] \in Transfer
               /\ pc'[q] = "installing" <=> pc[q] = "installing"
               /\ pc'[q] = "use" <=> pc[q] = "use"
               /\ pc'[q] = "idle" <=> pc[q] = "idle"
    BY <1>4, <2>1, <2>2 DEF Transfer
  <2>3. pc'[p] \notin Transfer /\ pc'[p] # "installing" /\ pc'[p] # "use" /\ pc'[p] # "idle" /\ pc[p] # "idle"
    BY <1>5, <2>1
  <2>4. Transfers'
    BY <1>1, <2>2, <2>3 DEF IInv, Transfers
  <2>5. GetsWhatItAsked'
    BY <1>1, <2>2, <2>3 DEF IInv, GetsWhatItAsked
  <2> QED
    BY <2>4, <2>5
<1>12. RefsCounted'
  BY <1>1, CountsStay DEF IInv
<1> QED
  BY <1>7, <1>8, <1>9, <1>10, <1>11, <1>12 DEF IInv

LEMMA UnrefKeeps == ASSUME IsFiniteSet(Procs), IInv, NEW p \in Procs, Unref(p) PROVE IInv'
<1> DEFINE b == buf[p]
<1>1. /\ pc[p] = "unref" /\ pc[p] \notin Holding /\ pc[p] # "idle" /\ Types
      /\ refcnt' = [refcnt EXCEPT ![b] = @ - 1] /\ pc' = [pc EXCEPT ![p] = "idle"]
      /\ buf' = [buf EXCEPT ![p] = NoBuf] /\ want' = [want EXCEPT ![p] = NoBlock]
      /\ UNCHANGED <<id, valid, dirty, holder, data, pinned, copy, left, unlogged, disk>>
  BY DEF Unref, log, flags, Holding, IInv
<1>2. b \in Buf /\ b # NoBuf
  BY <1>1, NotNull DEF IInv, References
<1>3. /\ pc' \in [Procs -> Stage] /\ buf' \in [Procs -> Buf \cup {NoBuf}] /\ want' \in [Procs -> Blocks \cup {NoBlock}]
      /\ pc'[p] = "idle" /\ buf'[p] = NoBuf
      /\ \A q \in Procs \ {p} : pc'[q] = pc[q] /\ buf'[q] = buf[q] /\ want'[q] = want[q]
  BY <1>1 DEF Types, Stage
<1>4. \A c \in Buf : refcnt'[c] = Cardinality(Users(c)') + LogRefs(c)' /\ refcnt'[c] \in Nat
  <2> SUFFICES ASSUME NEW c \in Buf PROVE refcnt'[c] = Cardinality(Users(c)') + LogRefs(c)' /\ refcnt'[c] \in Nat
    OBVIOUS
  <2>1. /\ refcnt[c] = Cardinality(Users(c)) + LogRefs(c) /\ LogRefs(c)' = LogRefs(c) /\ LogRefs(c) \in Nat
        /\ Cardinality(Users(c)) \in Nat
    BY <1>1, Counted, UsersFinite DEF IInv, LogRefs
  <2>2. CASE c = b
    <3>1. Cardinality(Users(c)') = Cardinality(Users(c)) - 1
      BY <1>1, <1>2, <2>2, UserGone
    <3>2. refcnt'[c] = refcnt[c] - 1
      BY <1>1, <2>2 DEF Types
    <3>3. Users(c) # {}
      BY <2>2 DEF Users
    <3>4. Cardinality(Users(c)) # 0
      BY <3>3, UsersFinite, FS_EmptySet
    <3> QED
      BY <2>1, <3>1, <3>2, <3>4
  <2>3. CASE c # b
    <3>1. c # NoBuf
      BY NotNull
    <3>2. Users(c)' = Users(c)
      BY <1>1, <2>3, <3>1, OtherUsers
    <3>3. refcnt'[c] = refcnt[c]
      BY <1>1, <2>3 DEF Types
    <3> QED
      BY <2>1, <3>2, <3>3
  <2> QED
    BY <2>2, <2>3
<1>5. Types'
  <2>1. refcnt' \in [Buf -> Nat]
    BY <1>1, <1>4 DEF Types
  <2> QED
    BY <1>1, <1>3, <2>1 DEF Types
<1>6. References' /\ CleanIsDisk' /\ OneCopy'
  BY <1>1, <1>3 DEF IInv, References, CleanIsDisk, OneCopy
<1>7. LockNames' /\ Exclusive'
  <2>1. \A c \in Buf \ left : holder[c] # Nobody => holder[c] \in Procs \ {p}
    BY <1>1 DEF IInv, LockNames, Types
  <2>2. pc'[p] \notin Holding
    BY <1>3 DEF Holding
  <2>3. LockNames'
    BY <1>1, <1>3, <2>1, <2>2 DEF IInv, LockNames
  <2>4. Exclusive'
    BY <1>1, <1>3, <2>2 DEF IInv, Exclusive
  <2> QED
    BY <2>3, <2>4
<1>8. Transfers' /\ GetsWhatItAsked'
  BY <1>1, <1>3 DEF IInv, Transfers, GetsWhatItAsked, Transfer
<1>9. RefsCounted'
  BY <1>4, CountedNext
<1> QED
  BY <1>5, <1>6, <1>7, <1>8, <1>9 DEF IInv

\* A turn of write_log.
LEMMA CopyKeeps == ASSUME IInv, NEW p \in Procs, CopyToLog(p) PROVE IInv'
<1>1. /\ pc[p] = "use" /\ Types
      /\ copy' = [copy EXCEPT ![buf[p]] = data[buf[p]]]
      /\ UNCHANGED <<id, valid, dirty, refcnt, holder, data, lru, pinned, left, unlogged, disk, pc, want, buf>>
  BY DEF CopyToLog, flags, mine, IInv
<1>2. buf[p] \in Buf
  BY <1>1, Alone DEF Holding
<1>3. Types'
  BY <1>1, <1>2 DEF Types
<1>4. References' /\ LockNames' /\ Transfers' /\ CleanIsDisk' /\ OneCopy' /\ GetsWhatItAsked' /\ Exclusive'
  BY <1>1 DEF IInv, References, LockNames, Transfers, CleanIsDisk, OneCopy, GetsWhatItAsked, Exclusive
<1>5. RefsCounted'
  BY <1>1, CountsStay DEF IInv
<1> QED
  BY <1>3, <1>4, <1>5 DEF IInv

\* A turn that is given up: the reference of p becomes one of nobody.
LEMMA SkipKeeps == ASSUME IsFiniteSet(Procs), IInv, NEW p \in Procs, SkipTurn(p) PROVE IInv'
<1> DEFINE b == buf[p]
<1>1. /\ pc[p] = "use" /\ pc[p] \in Holding /\ Types
      /\ left' = left \cup {b} /\ copy' = [copy EXCEPT ![b] = NoCopy]
      /\ pc' = [pc EXCEPT ![p] = "idle"]
      /\ buf' = [buf EXCEPT ![p] = NoBuf] /\ want' = [want EXCEPT ![p] = NoBlock]
      /\ UNCHANGED <<id, valid, dirty, refcnt, holder, data, lru, pinned, unlogged, disk>>
  BY DEF SkipTurn, flags, Holding, IInv
<1>2. /\ b \in Buf /\ b # NoBuf /\ holder[b] = p
      /\ \A q \in Procs \ {p} : pc[q] \in Holding => buf[q] # b
  BY <1>1, NotNull, Alone
<1>3. /\ pc' \in [Procs -> Stage] /\ buf' \in [Procs -> Buf \cup {NoBuf}] /\ want' \in [Procs -> Blocks \cup {NoBlock}]
      /\ pc'[p] = "idle" /\ buf'[p] = NoBuf
      /\ \A q \in Procs \ {p} : pc'[q] = pc[q] /\ buf'[q] = buf[q] /\ want'[q] = want[q]
  BY <1>1 DEF Types, Stage
<1>4. b \notin left /\ p # Nobody
  BY <1>1, <1>2, NoneAssumption DEF IInv, LockNames
<1>5. Types'
  BY <1>1, <1>2, <1>3 DEF Types
<1>6. References' /\ CleanIsDisk' /\ OneCopy'
  BY <1>1, <1>3 DEF IInv, References, CleanIsDisk, OneCopy
<1>7. pc'[p] \notin Holding /\ pc'[p] \notin Transfer
  BY <1>3 DEF Holding, Transfer
<1>8. LockNames'
  <2>1. ASSUME NEW c \in Buf, holder[c] # Nobody, c \notin left'
        PROVE  buf'[holder[c]] = c /\ pc'[holder[c]] \in Holding
    <3>1. c # b /\ buf[holder[c]] = c /\ pc[holder[c]] \in Holding /\ holder[c] \in Procs
      BY <1>1, <2>1 DEF IInv, LockNames, Types
    <3> QED
      BY <1>3, <3>1
  <2>2. ASSUME NEW c \in left' PROVE holder[c] # Nobody /\ \A q \in Procs : buf'[q] = c => pc'[q] \notin Holding
    BY <1>1, <1>2, <1>3, <1>4, <1>7 DEF IInv, LockNames
  <2> QED
    BY <1>1, <2>1, <2>2 DEF LockNames
<1>9. Exclusive'
  BY <1>1, <1>3, <1>7 DEF IInv, Exclusive
<1>10. Transfers' /\ GetsWhatItAsked'
  BY <1>1, <1>3, <1>7 DEF IInv, Transfers, GetsWhatItAsked, Transfer
<1>11. RefsCounted'
  <2> SUFFICES ASSUME NEW c \in Buf PROVE refcnt[c] = Cardinality(Users(c)') + LogRefs(c)'
    BY <1>1, CountedNext
  <2>1. /\ refcnt[c] = Cardinality(Users(c)) + LogRefs(c) /\ LogRefs(c) \in Nat
        /\ Cardinality(Users(c)) \in Nat
    BY Counted, UsersFinite DEF IInv, LogRefs
  <2>2. CASE c = b
    <3>1. Cardinality(Users(c)') = Cardinality(Users(c)) - 1
      BY <1>1, <1>2, <2>2, UserGone
    <3>2. LogRefs(c)' = LogRefs(c) + 1
      BY <1>1, <1>4, <2>2 DEF LogRefs
    <3> QED
      BY <2>1, <3>1, <3>2
  <2>3. CASE c # b
    <3>1. c # NoBuf
      BY NotNull
    <3>2. Users(c)' = Users(c)
      BY <1>1, <2>3, <3>1, OtherUsers
    <3>3. LogRefs(c)' = LogRefs(c)
      BY <1>1, <2>3 DEF LogRefs
    <3> QED
      BY <2>1, <3>2, <3>3
  <2> QED
    BY <2>2, <2>3
<1> QED
  BY <1>5, <1>6, <1>8, <1>9, <1>10, <1>11 DEF IInv

LEMMA StepIInv == ASSUME IsFiniteSet(Procs), IInv, [Next]_vars PROVE IInv'
<1>1. CASE UNCHANGED vars
  BY <1>1 DEF vars, IInv, Types, References, LockNames, Transfers, CleanIsDisk, OneCopy,
     GetsWhatItAsked, Exclusive, RefsCounted, LogRefs, log
<1>2. CASE Next
  BY <1>2, GetHitKeeps, GetRecyclesKeeps, AcquireKeeps, WaitKeeps, ReadDoneKeeps, WriteDoneKeeps,
     UpdateKeeps, StartsWriteKeeps, CopyKeeps, SkipKeeps, UnlockKeeps, UnrefKeeps DEF Next
<1> QED
  BY <1>1, <1>2

LEMMA Invariance == ASSUME IsFiniteSet(Procs) PROVE Spec => []IInv
<1>1. IInv /\ [Next]_vars => IInv'
  BY StepIInv
<1> QED
  BY <1>1, InitIInv, PTL DEF Spec

\* A block is never in two buffers (buf_get).
THEOREM NeverTwoCopies == ASSUME IsFiniteSet(Procs) PROVE Spec => []OneCopy
<1>1. IInv => OneCopy
  BY DEF IInv
<1> QED
  BY <1>1, Invariance, PTL

\* What a process gets after any wait is the block it asked for, loaded
\* (buf_get, sleeplock_acquire, block_read).
THEOREM GetsItsBlock == ASSUME IsFiniteSet(Procs) PROVE Spec => []GetsWhatItAsked
<1>1. IInv => GetsWhatItAsked
  BY DEF IInv
<1> QED
  BY <1>1, Invariance, PTL

\* A process inside a buffer holds its lock, so there is one at most
\* (sleeplock_acquire, sleeplock_held).
THEOREM InsideAlone == ASSUME IsFiniteSet(Procs) PROVE Spec => []Exclusive
<1>1. IInv => Exclusive
  BY DEF IInv
<1> QED
  BY <1>1, Invariance, PTL

\* The count of a buffer is its users and its pin (buf_get, buf_release,
\* buf_pin, buf_unpin).
THEOREM CountsAreUsers == ASSUME IsFiniteSet(Procs) PROVE Spec => []RefsCounted
<1>1. IInv => RefsCounted
  BY DEF IInv
<1> QED
  BY <1>1, Invariance, PTL

-----------------------------------------------------------------------------
(***************************************************************************)
(* Copies in the log                                                       *)
(***************************************************************************)

\* Every logged block that has a copy in the log is what the cache has of it:
\* a pinned buffer stays loaded, and nobody changes it between write_log and
\* install_trans.
CopiesExact ==
    /\ \A b \in pinned : b \in valid \/ \E q \in Procs : buf[q] = b /\ pc[q] = "installing"
    /\ \A b \in Buf : copy[b] # NoCopy => b \in pinned /\ copy[b] = data[b]

LEMMA InitCopies == Init => CopiesExact
BY DEF Init, CopiesExact

\* A step of the process that is inside its buffer, and concerns only that.
LEMMA InsideCopies ==
    ASSUME IInv, IInv', CopiesExact, NEW p \in Procs, pc[p] \in Holding, UNCHANGED buf,
           \A q \in Procs \ {p} : Stays(q),
           \A c \in Buf \ {buf[p]} : /\ c \in valid' <=> c \in valid
                                     /\ c \in pinned' <=> c \in pinned
                                     /\ copy'[c] = copy[c] /\ data'[c] = data[c],
           buf[p] \in pinned' => buf[p] \in valid' \/ pc'[p] = "installing",
           copy'[buf[p]] # NoCopy => buf[p] \in pinned' /\ copy'[buf[p]] = data'[buf[p]]
    PROVE  CopiesExact'
<1>1. ASSUME NEW c \in pinned' PROVE c \in valid' \/ \E q \in Procs : buf'[q] = c /\ pc'[q] = "installing"
  <2>1. CASE c = buf[p]
    BY <2>1
  <2>2. CASE c # buf[p]
    <3>1. c \in Buf \ {buf[p]} /\ c \in pinned
      BY <2>2 DEF IInv, Types
    <3>2. ASSUME NEW q \in Procs, buf[q] = c, pc[q] = "installing" PROVE pc'[q] = "installing"
      BY <2>2, <3>2 DEF Stays, Acquiring
    <3> QED
      BY <3>1, <3>2 DEF CopiesExact
  <2> QED
    BY <2>1, <2>2
<1>2. ASSUME NEW c \in Buf, copy'[c] # NoCopy PROVE c \in pinned' /\ copy'[c] = data'[c]
  BY <1>2 DEF CopiesExact
<1> QED
  BY <1>1, <1>2 DEF CopiesExact

LEMMA StepCopies == ASSUME IsFiniteSet(Procs), IInv, IInv', CopiesExact, [Next]_vars PROVE CopiesExact'
<1>1. CASE \/ UNCHANGED vars \/ OtherWakeup
           \/ \E p \in Procs : AcquireWaits(p) \/ FallAsleep(p) \/ Acquire(p) \/ Unlock(p) \/ Unref(p)
           \/ \E p \in Procs, h \in Blocks, b \in Buf : GetHit(p, h, b)
  <2>1. UNCHANGED <<valid, pinned, copy, data>>
    <3>1. \A c : c \notin valid => valid \ {c} = valid
      OBVIOUS
    <3> QED
      BY <1>1, <3>1 DEF vars, flags, log, OtherWakeup, AcquireWaits, FallAsleep, Acquire, NeedsRead, Unlock, Unref, GetHit
  <2>2. \A q \in Procs : pc[q] = "installing" => pc'[q] = pc[q] /\ buf'[q] = buf[q]
    BY <1>1 DEF IInv, Types, vars, mine, OtherWakeup, Woken, AcquireWaits, FallAsleep, Acquire, Unlock, Unref, GetHit, Asks
  <2> QED
    BY <2>1, <2>2 DEF CopiesExact
<1>2. ASSUME NEW p \in Procs, NEW h \in Blocks, NEW b \in Buf, GetRecycles(p, h, b) PROVE CopiesExact'
  <2>1. /\ refcnt[b] = 0 /\ valid' = valid \ {b} /\ UNCHANGED <<data, pinned, copy>> /\ pc[p] = "idle"
        /\ pc' = [pc EXCEPT ![p] = "lock"] /\ buf' = [buf EXCEPT ![p] = b]
    BY <1>2 DEF GetRecycles, IsVictim, Recyclable, Asks
  <2>2. b \notin pinned
    BY <2>1, Unreferenced
  <2>3. \A q \in Procs : pc[q] = "installing" => pc'[q] = pc[q] /\ buf'[q] = buf[q]
    BY <2>1 DEF IInv, Types
  <2> QED
    BY <2>1, <2>2, <2>3 DEF CopiesExact
<1>3. ASSUME NEW p \in Procs, NEW v \in Vals, Update(p, v) PROVE CopiesExact'
  <2>1. /\ pc[p] = "use" /\ data' = [data EXCEPT ![buf[p]] = v] /\ UNCHANGED <<valid, copy, pc, buf>>
        /\ pinned' = pinned \/ pinned' = pinned \cup {buf[p]}
    BY <1>3 DEF Update, LogTakes, LogRefuses, flags, mine
  <2>2. buf[p] \in valid /\ buf[p] \in Buf
    BY <2>1, Alone DEF IInv, GetsWhatItAsked, Holding
  <2>3. copy[buf[p]] = NoCopy
    BY <1>3, <2>2 DEF Update, Committing
  <2> QED
    BY <2>1, <2>2, <2>3, InsideCopies DEF Holding, Stays, IInv, Types
<1>4. ASSUME NEW p \in Procs, NEW v \in Vals, WriteThrough(p, v) PROVE CopiesExact'
  <2>1. /\ pc[p] = "use" /\ buf[p] \notin pinned /\ data' = [data EXCEPT ![buf[p]] = v]
        /\ valid' = valid \ {buf[p]} /\ pc' = [pc EXCEPT ![p] = "writing"] /\ UNCHANGED <<pinned, copy, buf>>
    BY <1>4 DEF WriteThrough, StartsWrite, mine
  <2>2. buf[p] \in Buf /\ copy[buf[p]] = NoCopy
    BY <2>1, Alone DEF Holding, CopiesExact
  <2> QED
    BY <2>1, <2>2, InsideCopies DEF Holding, Stays, IInv, Types
<1>5. ASSUME NEW p \in Procs, CopyToLog(p) PROVE CopiesExact'
  <2>1. /\ pc[p] = "use" /\ buf[p] \in pinned /\ copy' = [copy EXCEPT ![buf[p]] = data[buf[p]]]
        /\ UNCHANGED <<valid, pinned, data, pc, buf>>
    BY <1>5 DEF CopyToLog, flags, mine
  <2>2. buf[p] \in Buf /\ buf[p] \in valid
    BY <2>1, Alone DEF Holding, IInv, GetsWhatItAsked
  <2> QED
    BY <2>1, <2>2, InsideCopies DEF Holding, Stays, IInv, Types
<1>6. ASSUME NEW p \in Procs, SkipTurn(p) PROVE CopiesExact'
  <2>1. /\ pc[p] = "use" /\ copy' = [copy EXCEPT ![buf[p]] = NoCopy] /\ pc' = [pc EXCEPT ![p] = "idle"]
        /\ buf' = [buf EXCEPT ![p] = NoBuf] /\ UNCHANGED <<valid, pinned, data>>
    BY <1>6 DEF SkipTurn, flags
  <2>2. \A q \in Procs : pc[q] = "installing" => pc'[q] = pc[q] /\ buf'[q] = buf[q]
    BY <2>1 DEF IInv, Types
  <2>3. \A c \in Buf : copy'[c] # NoCopy => copy'[c] = copy[c]
    BY <2>1 DEF IInv, Types
  <2> QED
    BY <2>1, <2>2, <2>3 DEF CopiesExact
<1>7. ASSUME NEW p \in Procs, Install(p) PROVE CopiesExact'
  <2>1. /\ pc[p] = "use" /\ buf[p] \in pinned /\ data' = [data EXCEPT ![buf[p]] = copy[buf[p]]]
        /\ valid' = valid \ {buf[p]} /\ pc' = [pc EXCEPT ![p] = "installing"] /\ UNCHANGED <<pinned, copy, buf>>
    BY <1>7 DEF Install, StartsWrite, log, mine
  <2>2. buf[p] \in Buf
    BY <2>1, Alone DEF Holding
  <2> QED
    BY <2>1, <2>2, InsideCopies DEF Holding, Stays, IInv, Types
<1>8. ASSUME NEW p \in Procs, ReadDone(p) PROVE CopiesExact'
  <2>1. /\ pc[p] = "reading" /\ data' = [data EXCEPT ![buf[p]] = disk[id[buf[p]]]]
        /\ valid' = valid \cup {buf[p]} /\ pc' = Woken([pc EXCEPT ![p] = "use"]) /\ UNCHANGED <<pinned, copy, buf>>
    BY <1>8 DEF ReadDone, log, mine
  <2>2. /\ buf[p] \in Buf /\ buf[p] \notin valid
        /\ \A q \in Procs \ {p} : pc[q] \in Holding => buf[q] # buf[p]
    BY <2>1, Alone DEF Holding, IInv, Transfers, Transfer
  <2>3. buf[p] \notin pinned /\ copy[buf[p]] = NoCopy
    BY <2>1, <2>2 DEF CopiesExact, Holding
  <2>4. \A q \in Procs \ {p} : Stays(q)
    BY <2>1, MovesTo DEF Stage, Holding, IInv
  <2> QED
    BY <2>1, <2>2, <2>3, <2>4, InsideCopies DEF Holding, IInv, Types
<1>9. ASSUME NEW p \in Procs, WriteDone(p) PROVE CopiesExact'
  <2>1. /\ pc[p] \in {"writing", "installing"} /\ valid' = valid \cup {buf[p]} /\ UNCHANGED <<data, buf>>
        /\ pc' = Woken([pc EXCEPT ![p] = "use"])
        /\ \/ UNCHANGED <<pinned, copy>>
           \/ pinned' = pinned \ {buf[p]} /\ copy' = [copy EXCEPT ![buf[p]] = NoCopy]
    BY <1>9 DEF WriteDone, mine
  <2>2. buf[p] \in Buf
    BY <2>1, Alone DEF Holding
  <2>3. \A q \in Procs \ {p} : Stays(q)
    BY <2>1, MovesTo DEF Stage, Holding, IInv
  <2>4. copy'[buf[p]] # NoCopy => buf[p] \in pinned' /\ copy'[buf[p]] = data'[buf[p]]
    BY <2>1, <2>2 DEF CopiesExact, IInv, Types
  <2>5. \A c \in Buf \ {buf[p]} : (c \in pinned' <=> c \in pinned) /\ copy'[c] = copy[c]
    BY <2>1, <2>2 DEF IInv, Types
  <2> QED
    BY <2>1, <2>2, <2>3, <2>4, <2>5, InsideCopies DEF Holding, IInv, Types
<1> QED
  BY <1>1, <1>2, <1>3, <1>4, <1>5, <1>6, <1>7, <1>8, <1>9 DEF Next

LEMMA CopiesInvariance == ASSUME IsFiniteSet(Procs) PROVE Spec => []CopiesExact
<1>1. IInv /\ IInv' /\ CopiesExact /\ [Next]_vars => CopiesExact'
  BY StepCopies
<1> QED
  BY <1>1, InitCopies, Invariance, PTL DEF Spec

-----------------------------------------------------------------------------
(***************************************************************************)
(* Contents                                                                *)
(***************************************************************************)

\* What reading block k finds: a buffer, or the disk.
LEMMA CurrentIs ==
    ASSUME OneCopy, NEW k \in Blocks
    PROVE  /\ \A b \in Buf : id[b] = k /\ InBuffer(b) => Current(k) = data[b]
           /\ (\A b \in Buf : ~ (id[b] = k /\ InBuffer(b))) => Current(k) = disk[k]
BY NoneAssumption DEF OneCopy, Current

LEMMA CurrentNext ==
    ASSUME OneCopy', NEW k \in Blocks
    PROVE  /\ \A b \in Buf : id'[b] = k /\ InBuffer(b)' => Current(k)' = data'[b]
           /\ (\A b \in Buf : ~ (id'[b] = k /\ InBuffer(b)')) => Current(k)' = disk'[k]
BY NoneAssumption DEF OneCopy, Current

\* Nothing that has to do with block k changes.
LEMMA CurrentStays ==
    ASSUME OneCopy, OneCopy', NEW k \in Blocks, disk'[k] = disk[k],
           \A b \in Buf : /\ id'[b] = k <=> id[b] = k
                          /\ id[b] = k => (InBuffer(b)' <=> InBuffer(b)) /\ data'[b] = data[b]
    PROVE  Current(k)' = Current(k)
<1>1. CASE \E b \in Buf : id[b] = k /\ InBuffer(b)
  BY <1>1, CurrentIs, CurrentNext
<1>2. CASE \A b \in Buf : ~ (id[b] = k /\ InBuffer(b))
  BY <1>2, CurrentIs, CurrentNext
<1> QED
  BY <1>1, <1>2

\* Processes that move without starting or ending a write.
LEMMA WritersStay ==
    ASSUME UNCHANGED valid,
           \A q \in Procs : pc[q] \in {"writing", "installing"} \/ pc'[q] \in {"writing", "installing"}
               => pc'[q] = pc[q] /\ buf'[q] = buf[q],
           NEW b
    PROVE  InBuffer(b)' <=> InBuffer(b)
BY DEF InBuffer

\* A transfer by process p concerns its own buffer only.
LEMMA OtherBuffers ==
    ASSUME IInv, NEW p \in Procs, pc[p] \in Holding, UNCHANGED buf,
           \A q \in Procs \ {p} : Stays(q), NEW b \in Buf \ {buf[p]}, b \in valid' <=> b \in valid
    PROVE  InBuffer(b)' <=> InBuffer(b)
<1>1. \A q \in Procs : buf[q] = b => q # p /\ \A s \in {"writing", "installing"} : pc'[q] = s <=> pc[q] = s
  BY DEF Stays, Acquiring
<1> QED
  BY <1>1 DEF InBuffer

\* No write is going on in a buffer somebody else is inside.
LEMMA NoOtherWriter ==
    ASSUME IInv, NEW p \in Procs, pc[p] \in Holding, pc[p] \notin {"writing", "installing"}
    PROVE  InBuffer(buf[p]) <=> buf[p] \in valid
<1>1. \A q \in Procs \ {p} : pc[q] \in Holding => buf[q] # buf[p]
  BY Alone
<1> QED
  BY <1>1 DEF InBuffer, Holding

\* The contents of a block change only when the process that holds it writes,
\* and to what it writes, or go back to the disk's when log_write refused that:
\* a recycled buffer was clean or refused, a reloaded one had nothing newer, and
\* install_trans brings back what write_log copied (Recyclable, block_read,
\* log_write, write_log, install_trans).
THEOREM OnlyWritesChange == ASSUME IsFiniteSet(Procs) PROVE Spec => NothingReverts
<1> DEFINE Written(k) == \/ \E p \in Procs : pc[p] = "use" /\ want[p] = k /\ data'[buf[p]] = Current(k)'
                         \/ \E b \in unlogged : id[b] = k /\ Current(k)' = disk[k]
           Step == \A k \in Blocks : Current(k)' # Current(k) =>
                       \/ \E p \in Procs : /\ pc[p] = "use" /\ want[p] = k
                                           /\ data'[buf[p]] = Current(k)'
                       \/ \E b \in unlogged : id[b] = k /\ Current(k)' = disk[k]
<1>1. IInv /\ IInv' /\ CopiesExact /\ [Next]_vars => Step
  <2> SUFFICES ASSUME IInv, IInv', CopiesExact, [Next]_vars, NEW k \in Blocks
               PROVE  Current(k)' = Current(k) \/ Written(k)
    OBVIOUS
  <2> HIDE DEF Written
  <2>1. OneCopy /\ OneCopy' /\ Types
    BY DEF IInv
  <2>2. CASE \/ UNCHANGED vars \/ OtherWakeup
             \/ \E p \in Procs : \/ AcquireWaits(p) \/ FallAsleep(p) \/ Acquire(p) \/ Unlock(p) \/ Unref(p)
                                \/ CopyToLog(p) \/ SkipTurn(p)
             \/ \E p \in Procs, h \in Blocks, b \in Buf : GetHit(p, h, b)
    <3>1. UNCHANGED <<id, valid, data, disk>>
      <4>1. \A c : c \notin valid => valid \ {c} = valid
        OBVIOUS
      <4> QED
        BY <2>2, <4>1 DEF vars, flags, OtherWakeup, AcquireWaits, FallAsleep, Acquire, NeedsRead, Unlock, Unref, GetHit, CopyToLog, SkipTurn
    <3>2. \A q \in Procs : pc[q] \in {"writing", "installing"} \/ pc'[q] \in {"writing", "installing"}
               => pc'[q] = pc[q] /\ buf'[q] = buf[q]
      BY <2>1, <2>2 DEF Types, vars, mine, OtherWakeup, Woken, AcquireWaits, FallAsleep, Acquire, Unlock, Unref, GetHit, Asks, CopyToLog, SkipTurn
    <3>3. \A b \in Buf : InBuffer(b)' <=> InBuffer(b)
      BY <3>1, <3>2, WritersStay
    <3> QED
      BY <2>1, <3>1, <3>3, CurrentStays
  <2>3. ASSUME NEW p \in Procs, NEW h \in Blocks, NEW b \in Buf, GetRecycles(p, h, b)
        PROVE  Current(k)' = Current(k) \/ Written(k)
    <3>1. /\ refcnt[b] = 0 /\ b \notin dirty /\ (\A c \in Buf : id[c] # h) /\ pc[p] = "idle"
          /\ id' = [id EXCEPT ![b] = h] /\ valid' = valid \ {b} /\ UNCHANGED <<data, disk>>
          /\ pc' = [pc EXCEPT ![p] = "lock"] /\ buf' = [buf EXCEPT ![p] = b]
      BY <2>3 DEF GetRecycles, Caches, IsVictim, Recyclable, Asks
    <3>2. b \notin pinned /\ \A q \in Procs : buf[q] # b
      BY <3>1, Unreferenced
    <3>3. \A q \in Procs : \/ pc'[q] = pc[q] /\ buf'[q] = buf[q]
                           \/ q = p /\ pc[q] = "idle" /\ pc'[q] = "lock"
      BY <2>1, <3>1 DEF Types
    <3>4. ~ InBuffer(b)' /\ (InBuffer(b) <=> b \in valid)
      BY <3>1, <3>2, <3>3 DEF InBuffer
    <3>5. \A c \in Buf \ {b} : id'[c] = id[c] /\ (InBuffer(c)' <=> InBuffer(c))
      BY <2>1, <3>1, <3>3 DEF InBuffer, Types
    <3>6. id'[b] = h
      BY <2>1, <3>1 DEF Types
    <3>7. CASE k = h
      <4>1. \A c \in Buf : ~ (id[c] = k /\ InBuffer(c)) /\ ~ (id'[c] = k /\ InBuffer(c)')
        BY <3>1, <3>4, <3>5, <3>7
      <4> QED
        BY <2>1, <3>1, <4>1, CurrentIs, CurrentNext
    <3>8. CASE k # h /\ id[b] = k
      <4>1. \A c \in Buf : ~ (id'[c] = k /\ InBuffer(c)')
        BY <2>1, <3>4, <3>5, <3>8, NoneAssumption DEF OneCopy
      <4>2. Current(k)' = disk[k]
        BY <2>1, <3>1, <4>1, CurrentNext
      <4>3. CASE b \in valid \ unlogged
        <5>1. Current(k) = data[b]
          BY <2>1, <3>4, <3>8, <4>3, CurrentIs
        <5>2. data[b] = disk[k]
          BY <3>1, <3>2, <3>8, <4>3, NoneAssumption DEF IInv, CleanIsDisk
        <5> QED
          BY <4>2, <5>1, <5>2
      <4>4. CASE b \notin valid
        <5>1. \A c \in Buf : ~ (id[c] = k /\ InBuffer(c))
          BY <2>1, <3>4, <3>8, <4>4, NoneAssumption DEF OneCopy
        <5> QED
          BY <2>1, <4>2, <5>1, CurrentIs
      <4>5. CASE b \in unlogged
        BY <3>8, <4>2, <4>5 DEF Written
      <4> QED
        BY <4>3, <4>4, <4>5
    <3>9. CASE k # h /\ id[b] # k
      BY <2>1, <3>1, <3>5, <3>6, <3>9, CurrentStays
    <3> QED
      BY <3>7, <3>8, <3>9
  <2>4. ASSUME NEW p \in Procs, NEW v \in Vals, Update(p, v) \/ WriteThrough(p, v)
        PROVE  Current(k)' = Current(k) \/ Written(k)
    <3>1. /\ pc[p] = "use" /\ pc[p] \in Holding /\ data' = [data EXCEPT ![buf[p]] = v]
          /\ \A c \in Buf \ {buf[p]} : c \in valid' <=> c \in valid
          /\ UNCHANGED <<id, disk, want, buf>>
      BY <2>4 DEF Update, WriteThrough, StartsWrite, flags, mine, Holding
    <3>2. buf[p] \in Buf /\ id[buf[p]] = want[p] /\ want[p] \in Blocks
      BY <3>1, Alone
    <3>3. data'[buf[p]] = v /\ \A c \in Buf \ {buf[p]} : data'[c] = data[c]
      BY <2>1, <3>1, <3>2 DEF Types
    <3>4. InBuffer(buf[p])' /\ \A q \in Procs \ {p} : Stays(q)
      <4>1. CASE Update(p, v)
        BY <3>1, <4>1 DEF Update, flags, Stays, InBuffer, IInv, GetsWhatItAsked
      <4>2. CASE WriteThrough(p, v)
        BY <2>1, <3>1, <4>2 DEF WriteThrough, StartsWrite, Stays, InBuffer, Types
      <4> QED
        BY <2>4, <4>1, <4>2
    <3>5. CASE k = want[p]
      <4>1. Current(k)' = data'[buf[p]]
        BY <2>1, <3>1, <3>2, <3>4, <3>5, CurrentNext
      <4> QED
        BY <3>1, <3>5, <4>1 DEF Written
    <3>6. CASE k # want[p]
      <4>1. \A c \in Buf \ {buf[p]} : InBuffer(c)' <=> InBuffer(c)
        BY <3>1, <3>4, OtherBuffers
      <4> QED
        BY <2>1, <3>1, <3>2, <3>3, <3>6, <4>1, CurrentStays
    <3> QED
      BY <3>5, <3>6
  <2>5. ASSUME NEW p \in Procs, Install(p) \/ ReadDone(p) \/ WriteDone(p)
        PROVE  Current(k)' = Current(k)
    <3>1. /\ pc[p] \in Holding /\ UNCHANGED <<id, want, buf>>
          /\ \A c \in Buf \ {buf[p]} : c \in valid' <=> c \in valid
      BY <2>5 DEF Install, ReadDone, WriteDone, StartsWrite, mine, Holding
    <3>2. buf[p] \in Buf /\ id[buf[p]] = want[p] /\ want[p] \in Blocks
      BY <3>1, Alone
    <3>3. PICK s \in {"use", "installing"} :
              pc' = Woken([pc EXCEPT ![p] = s]) \/ pc' = [pc EXCEPT ![p] = s]
      BY <2>5 DEF Install, ReadDone, WriteDone, StartsWrite
    <3>4. s \in Stage /\ s # "asleep"
      BY <3>3 DEF Stage, Holding
    <3>5. pc'[p] = s /\ \A q \in Procs \ {p} : Stays(q)
      BY <2>1, <3>3, <3>4, MovesTo
    <3>6. \A c \in Buf \ {buf[p]} : (InBuffer(c)' <=> InBuffer(c)) /\ data'[c] = data[c]
      <4>1. \A c \in Buf \ {buf[p]} : InBuffer(c)' <=> InBuffer(c)
        BY <3>1, <3>5, OtherBuffers
      <4> QED
        BY <2>1, <2>5, <3>2, <4>1 DEF Install, ReadDone, WriteDone, Types
    <3>7. InBuffer(buf[p])'
      <4>1. CASE Install(p)
        <5>1. pc' = [pc EXCEPT ![p] = "installing"] /\ pc \in [Procs -> Stage]
          BY <2>1, <4>1 DEF Install, StartsWrite, Types
        <5> QED
          BY <3>1, <5>1 DEF InBuffer
      <4>2. CASE ReadDone(p) \/ WriteDone(p)
        BY <3>1, <4>2 DEF ReadDone, WriteDone, InBuffer
      <4> QED
        BY <2>5, <4>1, <4>2
    <3>8. k # want[p] => disk'[k] = disk[k]
      BY <2>1, <2>5, <3>2 DEF Install, ReadDone, WriteDone, Types
    <3>9. CASE k # want[p]
      BY <2>1, <3>1, <3>2, <3>6, <3>8, <3>9, CurrentStays
    <3>10. CASE k = want[p]
      <4>1. Current(k)' = data'[buf[p]]
        BY <2>1, <3>1, <3>2, <3>7, <3>10, CurrentNext
      <4>2. CASE Install(p) \/ WriteDone(p)
        <5>1. InBuffer(buf[p])
          BY <4>2 DEF Install, WriteDone, InBuffer, IInv, GetsWhatItAsked
        <5>2. data'[buf[p]] = data[buf[p]]
          <6>1. CASE Install(p)
            BY <2>1, <3>2, <6>1 DEF Install, CopiesExact, Types
          <6>2. CASE WriteDone(p)
            BY <6>2 DEF WriteDone
          <6> QED
            BY <4>2, <6>1, <6>2
        <5>3. Current(k) = data[buf[p]]
          BY <2>1, <3>2, <3>10, <5>1, CurrentIs
        <5> QED
          BY <4>1, <5>3, <5>2
      <4>3. CASE ReadDone(p)
        <5>1. pc[p] = "reading" /\ data'[buf[p]] = disk[k]
          BY <2>1, <3>2, <3>10, <4>3 DEF ReadDone, Types
        <5>2. buf[p] \notin valid
          BY <5>1 DEF IInv, Transfers, Transfer
        <5>3. ~ InBuffer(buf[p])
          BY <3>1, <5>1, <5>2, NoOtherWriter
        <5>4. \A c \in Buf : ~ (id[c] = k /\ InBuffer(c))
          BY <2>1, <3>2, <3>10, <5>3, NoneAssumption DEF OneCopy
        <5>5. Current(k) = disk[k]
          BY <2>1, <5>4, CurrentIs
        <5> QED
          BY <4>1, <5>1, <5>5
      <4> QED
        BY <2>5, <4>2, <4>3
    <3> QED
      BY <3>9, <3>10
  <2> QED
    BY <2>2, <2>3, <2>4, <2>5 DEF Next
<1> QED
  BY <1>1, Invariance, CopiesInvariance, PTL DEF Spec, NothingReverts

=============================================================================
