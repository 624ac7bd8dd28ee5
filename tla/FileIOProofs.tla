---------------------------- MODULE FileIOProofs ----------------------------
(***************************************************************************)
(* The blocks one transaction of file_write logs stay within what          *)
(* log_begin_op reserved, for files of any size.  And with a file of       *)
(* direct blocks, reading and writing implement ByteFile: each turn of a   *)
(* block loop moves the bytes at the open file's position, every other     *)
(* step is a stutter or the return of a call.  For every size of a block,  *)
(* of an inode, of the log and of a reservation, any processes and open    *)
(* files.                                                                  *)
(***************************************************************************)
EXTENDS FileIO, FiniteSetTheorems, SequenceTheorems, TLAPS

-----------------------------------------------------------------------------
(***************************************************************************)
(* Blocks and bytes                                                        *)
(***************************************************************************)

LEMMA BlockPositive == BSIZE \in Nat /\ BSIZE > 0
BY FileIOAssumption

\* Position x is in block x \div BSIZE, behind x % BSIZE bytes of it.
LEMMA Divided ==
    ASSUME NEW x \in Nat
    PROVE  /\ x \div BSIZE \in Nat /\ x % BSIZE \in 0 .. BSIZE - 1
           /\ x = BSIZE * (x \div BSIZE) + (x % BSIZE)
BY BlockPositive

LEMMA TimesMonotone ==
    ASSUME NEW a \in Nat, NEW b \in Nat, a <= b PROVE BSIZE * a <= BSIZE * b
BY BlockPositive, Z3

LEMMA DividedMonotone ==
    ASSUME NEW x \in Nat, NEW y \in Nat, x <= y PROVE x \div BSIZE <= y \div BSIZE
<1>1. PICK q \in Nat, r \in 0 .. BSIZE - 1 : x = BSIZE * q + r /\ q = x \div BSIZE
  BY Divided
<1>2. PICK q1 \in Nat, r1 \in 0 .. BSIZE - 1 : y = BSIZE * q1 + r1 /\ q1 = y \div BSIZE
  BY Divided
<1>3. ASSUME q1 + 1 <= q PROVE FALSE
  <2>1. BSIZE * (q1 + 1) <= BSIZE * q
    BY <1>3, TimesMonotone
  <2>2. BSIZE * (q1 + 1) = BSIZE * q1 + BSIZE
    BY BlockPositive
  <2>3. BSIZE * q \in Nat /\ BSIZE * q1 \in Nat
    BY BlockPositive
  <2> QED
    BY <1>1, <1>2, <2>1, <2>2, <2>3, BlockPositive
<1> QED
  BY <1>1, <1>2, <1>3

\* k blocks or fewer end before block k + 1.
LEMMA DividedBound ==
    ASSUME NEW x \in Nat, NEW k \in Nat, x <= BSIZE * k PROVE x \div BSIZE <= k
<1>1. PICK q \in Nat, r \in 0 .. BSIZE - 1 : x = BSIZE * q + r /\ q = x \div BSIZE
  BY Divided
<1>2. ASSUME k + 1 <= q PROVE FALSE
  <2>1. BSIZE * (k + 1) <= BSIZE * q
    BY <1>2, TimesMonotone
  <2>2. BSIZE * (k + 1) = BSIZE * k + BSIZE /\ BSIZE * q \in Nat /\ BSIZE * k \in Nat
    BY BlockPositive
  <2> QED
    BY <1>1, <2>1, <2>2, BlockPositive
<1> QED
  BY <1>1, <1>2

\* t bytes, fewer than k blocks, reach at most k blocks on.
LEMMA DividedReach ==
    ASSUME NEW x \in Nat, NEW t \in Nat, NEW k \in Nat, t < BSIZE * k
    PROVE  (x + t) \div BSIZE <= x \div BSIZE + k
<1>1. PICK q \in Nat, r \in 0 .. BSIZE - 1 : x = BSIZE * q + r /\ q = x \div BSIZE
  BY Divided
<1>2. x + t \in Nat
  OBVIOUS
<1>3. PICK q1 \in Nat, r1 \in 0 .. BSIZE - 1 :
          x + t = BSIZE * q1 + r1 /\ q1 = (x + t) \div BSIZE
  BY <1>2, Divided
<1>4. ASSUME q + k + 1 <= q1 PROVE FALSE
  <2>1. BSIZE * (q + k + 1) <= BSIZE * q1
    BY <1>4, TimesMonotone
  <2>2. /\ BSIZE * (q + k + 1) = BSIZE * q + BSIZE * k + BSIZE
        /\ BSIZE * q \in Nat /\ BSIZE * q1 \in Nat /\ BSIZE * k \in Nat
    BY BlockPositive
  <2> QED
    BY <1>1, <1>3, <2>1, <2>2, BlockPositive
<1>5. q1 <= q + k
  BY <1>4
<1> QED
  BY <1>1, <1>3, <1>5

\* What a turn of a loop moves ends in a block before b.
LEMMA WithinBlock ==
    ASSUME NEW x \in Nat, NEW m \in Nat, NEW b \in Nat,
           x \div BSIZE < b, m <= BSIZE - (x % BSIZE)
    PROVE  x + m <= BSIZE * b
<1>1. PICK q \in Nat, r \in 0 .. BSIZE - 1 :
          x = BSIZE * q + r /\ q = x \div BSIZE /\ r = x % BSIZE
  BY Divided
<1>2. BSIZE * (q + 1) <= BSIZE * b
  BY <1>1, TimesMonotone
<1>3. BSIZE * (q + 1) = BSIZE * q + BSIZE /\ BSIZE * q \in Nat /\ BSIZE * b \in Nat
  BY BlockPositive
<1> QED
  BY <1>1, <1>2, <1>3, BlockPositive

\* As many blocks as Init gives a file of s bytes.
LEMMA EnoughBlocks ==
    ASSUME NEW s \in Nat
    PROVE  /\ (s + BSIZE - 1) \div BSIZE \in Nat
           /\ s <= BSIZE * ((s + BSIZE - 1) \div BSIZE)
           /\ \A k \in Nat : s <= BSIZE * k => (s + BSIZE - 1) \div BSIZE <= k
<1>1. PICK x \in Nat : x = s + BSIZE - 1
  BY BlockPositive
<1>2. PICK q \in Nat, r \in 0 .. BSIZE - 1 : x = BSIZE * q + r /\ q = x \div BSIZE
  BY Divided
<1>3. BSIZE * q \in Nat
  BY BlockPositive
<1>4. s <= BSIZE * q
  BY <1>1, <1>2, <1>3, BlockPositive
<1>5. ASSUME NEW k \in Nat, s <= BSIZE * k PROVE q <= k
  <2>1. ASSUME k + 1 <= q PROVE FALSE
    <3>1. BSIZE * (k + 1) <= BSIZE * q
      BY <2>1, TimesMonotone
    <3>2. BSIZE * (k + 1) = BSIZE * k + BSIZE /\ BSIZE * k \in Nat
      BY BlockPositive
    <3> QED
      BY <1>1, <1>2, <1>3, <1>5, <3>1, <3>2, BlockPositive
  <2> QED
    BY <2>1
<1> QED
  BY <1>1, <1>2, <1>4, <1>5

LEMMA SmallerOfTwo ==
    ASSUME NEW a \in Int, NEW b \in Int
    PROVE  Min({a, b}) \in {a, b} /\ Min({a, b}) <= a /\ Min({a, b}) <= b
<1>1. \E x \in {a, b} : \A y \in {a, b} : x <= y
  <2>1. a <= b \/ b <= a
    OBVIOUS
  <2> QED
    BY <2>1
<1>2. Min({a, b}) \in {a, b} /\ \A y \in {a, b} : Min({a, b}) <= y
  BY <1>1 DEF Min
<1> QED
  BY <1>2

LEMMA LargerOfTwo ==
    ASSUME NEW a \in Int, NEW b \in Int
    PROVE  Max({a, b}) \in {a, b} /\ Max({a, b}) >= a /\ Max({a, b}) >= b
<1>1. \E x \in {a, b} : \A y \in {a, b} : x >= y
  <2>1. a <= b \/ b <= a
    OBVIOUS
  <2> QED
    BY <2>1
<1>2. Max({a, b}) \in {a, b} /\ \A y \in {a, b} : Max({a, b}) >= y
  BY <1>1 DEF Max
<1> QED
  BY <1>2

-----------------------------------------------------------------------------
(***************************************************************************)
(* The inductive invariant                                                 *)
(***************************************************************************)

\* Blocks a transaction writes in full: the reservation less what a write may
\* need beside them, halved for the blocks of the bitmap.
Whole == (MAXOPBLOCKS - 1 - 1 - 2) \div 2

CallSet == [f : File \cup {Nobody}, n : Int, n1 : Int, i : Int]
Inside  == {"write", "update", "wend", "read", "rend"}

Types ==
    /\ size \in Nat /\ blocks \in Nat
    /\ holder \in Procs \cup {Nobody}
    /\ off \in [File -> Nat]
    /\ at \in [Procs -> AtSet]
    /\ call \in [Procs -> CallSet]
    /\ tot \in [Procs -> Int]
    /\ logged \in [Procs -> SUBSET Int]

\* A call goes on with an open file, inside the inode's lock alone, and a
\* chunk of a write is no longer than Whole blocks.
CallOf(p) ==
    /\ at[p] # "idle" => call[p].f \in File
    /\ at[p] \in Inside <=> holder = p
    /\ at[p] \in {"write", "update", "read"} => tot[p] >= 0
    /\ at[p] \notin Inside => tot[p] = 0
    /\ at[p] \in {"begin", "wlock", "write"} => call[p].n1 <= BSIZE * Whole

\* The inode's block, and Whole + 1 blocks from block b on.
Near(b) == {IBlock} \cup (b .. b + Whole)

\* A transaction has logged blocks that lie together, from the one in which
\* its bytes begin.
Together(p) ==
    /\ at[p] \in {"write", "update", "wend"} =>
          logged[p] \subseteq Near(OffsetOf(p) \div BSIZE)
    /\ at[p] = "log_end" => \E b \in Nat : logged[p] \subseteq Near(b)
    /\ at[p] \notin {"write", "update", "wend", "log_end"} => logged[p] = {}

IOInv ==
    /\ Types
    /\ \A p \in Procs : CallOf(p) /\ Together(p)

LEMMA WholePositive ==
    Whole \in Nat /\ Whole + 2 <= MAXOPBLOCKS /\ Chunk \in Nat /\ Chunk = BSIZE * Whole
<1>1. Whole \in Nat /\ Whole + 2 <= MAXOPBLOCKS
  BY FileIOAssumption DEF Whole
<1>2. Chunk = Whole * BSIZE
  BY DEF Chunk, Whole
<1>3. Whole * BSIZE = BSIZE * Whole /\ BSIZE * Whole \in Nat
  BY <1>1, BlockPositive
<1> QED
  BY <1>1, <1>2, <1>3

LEMMA NextChunkBound ==
    ASSUME NEW n \in Int, NEW i \in Int
    PROVE  NextChunk(n, i) \in Int /\ NextChunk(n, i) <= BSIZE * Whole
<1>1. n - i \in Int /\ Chunk \in Int
  BY WholePositive
<1>2. NextChunk(n, i) \in {n - i, Chunk} /\ NextChunk(n, i) <= Chunk
  BY <1>1, SmallerOfTwo DEF NextChunk
<1> QED
  BY <1>1, <1>2, WholePositive

LEMMA InitIOInv == Init => IOInv
<1> SUFFICES ASSUME Init PROVE IOInv
  OBVIOUS
<1>1. size \in Nat
  BY FileIOAssumption DEF Init
<1>2. blocks \in Nat
  <2>1. PICK a \in Nat, b \in Nat : a = (size + BSIZE - 1) \div BSIZE /\ b = NDIRECT + 1
    BY <1>1, EnoughBlocks, FileIOAssumption
  <2>2. blocks = Min({a, b})
    BY <2>1 DEF Init
  <2>3. Min({a, b}) \in {a, b}
    BY SmallerOfTwo
  <2> QED
    BY <2>2, <2>3
<1>4. Types
  BY <1>1, <1>2 DEF Init, Types, NoCall, CallSet, AtSet
<1>6. ASSUME NEW p \in Procs PROVE CallOf(p) /\ Together(p)
  BY FileIOAssumption DEF Init, CallOf, Together, Inside
<1> QED
  BY <1>4, <1>6 DEF IOInv

\* A set of blocks near each other is within a reservation.
LEMMA NearFits ==
    ASSUME NEW b \in Nat, NEW S, S \subseteq Near(b) PROVE Cardinality(S) <= MAXOPBLOCKS
<1>1. IsFiniteSet(b .. b + Whole) /\ Cardinality(b .. b + Whole) = Whole + 1
  <2>1. PICK e \in Nat : e = b + Whole /\ b <= e /\ e - b + 1 = Whole + 1
    BY WholePositive
  <2>2. IsFiniteSet(b .. e) /\ Cardinality(b .. e) = e - b + 1
    BY <2>1, FS_Interval
  <2> QED
    BY <2>1, <2>2
<1>2. IsFiniteSet({IBlock}) /\ Cardinality({IBlock}) = 1
  BY FS_Singleton
<1>3. IBlock \notin b .. b + Whole
  BY WholePositive DEF IBlock
<1>4. IsFiniteSet(Near(b)) /\ Cardinality(Near(b)) = Whole + 2
  <2>1. {IBlock} \cap (b .. b + Whole) = {} /\ Cardinality({}) = 0
    BY <1>3, FS_EmptySet
  <2>2. /\ IsFiniteSet({IBlock} \cup (b .. b + Whole))
        /\ Cardinality({IBlock} \cup (b .. b + Whole))
              = Cardinality({IBlock}) + Cardinality(b .. b + Whole)
                    - Cardinality({IBlock} \cap (b .. b + Whole))
    BY <1>1, <1>2, FS_Union
  <2> QED
    <3>1. Whole \in Nat /\ 1 + (Whole + 1) - 0 = Whole + 2
      BY WholePositive
    <3> QED
      BY <1>1, <1>2, <2>1, <2>2, <3>1 DEF Near
<1>5. Cardinality(S) <= Cardinality(Near(b)) /\ IsFiniteSet(S)
  BY <1>4, FS_Subset
<1>6. Cardinality(S) \in Nat
  BY <1>5, FS_CardinalityType
<1> QED
  BY <1>4, <1>5, <1>6, WholePositive, FileIOAssumption

LEMMA InvariantBounds == ASSUME IOInv PROVE WithinReservation
<1>1. ASSUME NEW p \in Procs PROVE Cardinality(logged[p]) <= MAXOPBLOCKS
  <2>1. \E b \in Nat : logged[p] \subseteq Near(b)
    <3>1. CASE at[p] \in {"write", "update", "wend"}
      <4>1. OffsetOf(p) \in Nat
        BY <3>1 DEF IOInv, Types, CallOf, OffsetOf
      <4> QED
        BY <3>1, <4>1, Divided DEF IOInv, Together
    <3>2. CASE at[p] = "log_end"
      BY <3>2 DEF IOInv, Together
    <3>3. CASE at[p] \notin {"write", "update", "wend", "log_end"}
      BY <3>3 DEF IOInv, Together
    <3> QED
      BY <3>1, <3>2, <3>3
  <2> QED
    BY <2>1, NearFits
<1> QED
  BY <1>1 DEF WithinReservation

-----------------------------------------------------------------------------
(***************************************************************************)
(* The steps                                                               *)
(***************************************************************************)

\* A step of p: the others keep their places, and an offset moves only under
\* the inode's lock, so under no other call.
LEMMA MoveKeeps ==
    ASSUME IOInv, NEW p \in Procs, Types',
           \A q \in Procs \ {p} :
               /\ at'[q] = at[q] /\ call'[q] = call[q] /\ tot'[q] = tot[q]
               /\ logged'[q] = logged[q]
               /\ holder' = q <=> holder = q,
           off' = off \/ holder = p,
           CallOf(p)', Together(p)'
    PROVE  IOInv'
<1>1. ASSUME NEW q \in Procs, q # p
      PROVE  CallOf(q)' /\ Together(q)'
  <2>1. /\ at'[q] = at[q] /\ call'[q] = call[q] /\ tot'[q] = tot[q]
        /\ logged'[q] = logged[q]
        /\ holder' = q <=> holder = q
    BY <1>1
  <2>2. CallOf(q) /\ Together(q)
    BY DEF IOInv
  <2>3. CallOf(q)'
    BY <2>1, <2>2 DEF CallOf
  <2>4. CASE at[q] \in Inside
    <3>1. off' = off
      BY <1>1, <2>2, <2>4 DEF CallOf
    <3>2. OffsetOf(q)' = OffsetOf(q)
      BY <2>1, <3>1 DEF OffsetOf
    <3>3. at'[q] # "log_end"
      BY <2>1, <2>4 DEF Inside
    <3> QED
      BY <2>1, <2>2, <2>3, <3>2, <3>3 DEF Together
  <2>5. CASE at[q] \notin Inside
    <3>1. at'[q] \notin Inside /\ at'[q] \notin {"write", "update", "wend"}
      BY <2>1, <2>5 DEF Inside
    <3> QED
      BY <2>1, <2>2, <2>3, <3>1 DEF Together
  <2> QED
    BY <2>4, <2>5
<1>2. \A q \in Procs : CallOf(q)' /\ Together(q)'
  BY <1>1
<1> QED
  BY <1>2 DEF IOInv

\* What a step needs of its process.
LEMMA Before ==
    ASSUME IOInv, NEW p \in Procs
    PROVE  Types /\ CallOf(p) /\ Together(p) /\ p # Nobody
BY FileIOAssumption DEF IOInv

LEMMA StartKeeps ==
    ASSUME IOInv, NEW p \in Procs, NEW f \in File, NEW n \in Count,
           StartWrite(p, f, n) \/ StartRead(p, f, n)
    PROVE  IOInv'
<1>1. n \in Int /\ n % Width \in Int
  BY FileIOAssumption
<1>2. PICK c \in CallSet, there \in {"begin", "rlock"} :
          /\ c.f = f /\ at[p] = "idle"
          /\ at' = [at EXCEPT ![p] = there] /\ call' = [call EXCEPT ![p] = c]
          /\ there = "begin" => c.n1 <= BSIZE * Whole
          /\ UNCHANGED <<size, blocks, holder, off, tot, logged>>
  <2>1. CASE StartWrite(p, f, n)
    <3>1. NextChunk(n, 0) \in Int /\ NextChunk(n, 0) <= BSIZE * Whole
      <4>1. n \in Int /\ 0 \in Int
        BY <1>1
      <4> QED
        BY <4>1, NextChunkBound
    <3>2. PICK c : c = [f |-> f, n |-> n, n1 |-> NextChunk(n, 0), i |-> 0]
      OBVIOUS
    <3>3. c \in CallSet /\ c.f = f /\ c.n1 <= BSIZE * Whole
      BY <1>1, <3>1, <3>2 DEF CallSet
    <3>4. /\ at[p] = "idle" /\ at' = [at EXCEPT ![p] = "begin"] /\ call' = [call EXCEPT ![p] = c]
          /\ UNCHANGED <<size, blocks, holder, off, tot, logged>>
      BY <2>1, <3>2 DEF StartWrite, Goes, file, log, moves
    <3> QED
      BY <3>3, <3>4
  <2>2. CASE StartRead(p, f, n)
    <3>1. PICK c : c = [NoCall EXCEPT !.f = f, !.n = U32(n)]
      OBVIOUS
    <3>2. c = [f |-> f, n |-> U32(n), n1 |-> 0, i |-> 0]
      BY <3>1 DEF NoCall
    <3>3. c \in CallSet /\ c.f = f
      BY <1>1, <3>2 DEF CallSet, U32
    <3>4. /\ at[p] = "idle" /\ at' = [at EXCEPT ![p] = "rlock"] /\ call' = [call EXCEPT ![p] = c]
          /\ UNCHANGED <<size, blocks, holder, off, tot, logged>>
      BY <2>2, <3>1 DEF StartRead, Goes, file, log, moves
    <3> QED
      BY <3>3, <3>4
  <2> QED
    BY <2>1, <2>2
<1>3. /\ at'[p] = there /\ there \notin Inside /\ at[p] \notin Inside
      /\ call'[p] = c /\ tot'[p] = tot[p] /\ logged'[p] = logged[p]
      /\ \A q \in Procs \ {p} : at'[q] = at[q] /\ call'[q] = call[q]
  BY <1>2, Before DEF Types, Inside
<1>4. Types'
  BY <1>2, Before DEF Types, AtSet
<1>5. CallOf(p)'
  BY <1>2, <1>3, Before DEF CallOf, Inside
<1>6. Together(p)'
  BY <1>2, <1>3, Before DEF Together
<1> QED
  BY <1>2, <1>3, <1>4, <1>5, <1>6, Before, MoveKeeps

LEMMA BeginOpKeeps == ASSUME IOInv, NEW p \in Procs, BeginOp(p) PROVE IOInv'
<1>1. /\ at[p] = "begin" /\ at' = [at EXCEPT ![p] = "wlock"]
      /\ UNCHANGED <<size, blocks, holder, off, call, tot, logged>>
  BY DEF BeginOp, Goes, file, moves
<1>2. at'[p] = "wlock" /\ \A q \in Procs \ {p} : at'[q] = at[q]
  BY <1>1, Before DEF Types
<1>3. Types'
  BY <1>1, Before DEF Types, AtSet
<1>4. CallOf(p)' /\ Together(p)'
  BY <1>1, <1>2, Before DEF CallOf, Together, Inside
<1>5. at'[p] \notin Inside
  BY <1>2 DEF Inside
<1> QED
  BY <1>1, <1>2, <1>3, <1>4, <1>5, Before, MoveKeeps

\* Nobody is inside the lock when it is free.
LEMMA LockToWriteKeeps == ASSUME IOInv, NEW p \in Procs, LockToWrite(p) PROVE IOInv'
<1>1. /\ at[p] = "wlock" /\ holder = Nobody /\ holder' = p
      /\ UNCHANGED <<size, blocks, off, call, logged>>
      /\ \/ /\ ~ WriteRefused(OffsetOf(p), call[p].n1)
            /\ at' = [at EXCEPT ![p] = "write"] /\ tot' = tot
         \/ at' = [at EXCEPT ![p] = "wend"] /\ tot' = [tot EXCEPT ![p] = -1]
  BY DEF LockToWrite, Goes, file, log
<1>2. PICK there \in {"write", "wend"}, t \in {-1, 0} :
          /\ at' = [at EXCEPT ![p] = there] /\ tot' = [tot EXCEPT ![p] = t]
          /\ there = "write" => t = 0
  <2>1. tot[p] = 0 /\ tot \in [Procs -> Int]
    BY <1>1, Before DEF Types, CallOf, Inside
  <2>2. tot = [tot EXCEPT ![p] = 0]
    BY <2>1
  <2> QED
    BY <1>1, <2>2
<1>3. /\ at'[p] = there /\ tot'[p] = t
      /\ \A q \in Procs \ {p} : at'[q] = at[q] /\ tot'[q] = tot[q] /\ (holder' = q <=> holder = q)
  BY <1>1, <1>2, FileIOAssumption, Before DEF Types
<1>4. Types'
  BY <1>1, <1>2, Before DEF Types, AtSet
<1>5. CallOf(p)' /\ Together(p)'
  BY <1>1, <1>2, <1>3, Before DEF CallOf, Together, Inside
<1> QED
  BY <1>1, <1>3, <1>4, <1>5, Before, MoveKeeps

\* A turn of either loop takes its call on by what is left of the block, or of
\* the request.
LEMMA TurnTakes ==
    ASSUME IOInv, NEW p \in Procs, at[p] \in {"write", "read"}, NEW n \in Int, tot[p] < n
    PROVE  /\ Here(p) \in Nat /\ tot[p] \in Nat /\ OffsetOf(p) \in Nat
           /\ Here(p) = OffsetOf(p) + tot[p]
           /\ Turn(p, n) \in Nat /\ Turn(p, n) <= BSIZE - (Here(p) % BSIZE)
<1>1. /\ Here(p) \in Nat /\ tot[p] \in Nat /\ OffsetOf(p) \in Nat
      /\ Here(p) = OffsetOf(p) + tot[p]
  BY Before DEF Types, CallOf, Here, OffsetOf
<1>2. /\ Here(p) % BSIZE \in 0 .. BSIZE - 1 /\ BSIZE - (Here(p) % BSIZE) \in Nat
      /\ n - tot[p] \in Nat
  <2>1. Here(p) % BSIZE \in 0 .. BSIZE - 1
    BY <1>1, Divided
  <2> QED
    BY <1>1, <2>1, BlockPositive
<1>3. /\ Turn(p, n) \in {BSIZE - (Here(p) % BSIZE), n - tot[p]}
      /\ Turn(p, n) <= BSIZE - (Here(p) % BSIZE)
  <2>1. PICK a \in Int, b \in Int : a = BSIZE - (Here(p) % BSIZE) /\ b = n - tot[p]
    BY <1>2
  <2>2. Turn(p, n) = Min({a, b})
    BY <2>1 DEF Turn
  <2>3. Min({a, b}) \in {a, b} /\ Min({a, b}) <= a
    BY SmallerOfTwo
  <2> QED
    BY <2>1, <2>2, <2>3
<1>4. Turn(p, n) \in Nat
  BY <1>2, <1>3
<1> QED
  BY <1>1, <1>3, <1>4

\* The block a turn of inode_write logs is near the one its bytes begin in.
LEMMA TurnNear ==
    ASSUME IOInv, NEW p \in Procs, at[p] = "write", tot[p] < call[p].n1
    PROVE  BlockNo(p) \in Near(OffsetOf(p) \div BSIZE) /\ BlockNo(p) \in Int
<1>1. call[p].n1 \in Int /\ call[p].n1 <= BSIZE * Whole
  BY Before DEF Types, CallSet, CallOf
<1>2. Here(p) \in Nat /\ tot[p] \in Nat /\ OffsetOf(p) \in Nat /\ Here(p) = OffsetOf(p) + tot[p]
  BY <1>1, TurnTakes
<1>3. PICK o \in Nat, t \in Nat, b \in Nat : o = OffsetOf(p) /\ t = tot[p] /\ b = o \div BSIZE
  BY <1>2, Divided
<1>4. t < BSIZE * Whole /\ o + t \in Nat /\ o <= o + t
  BY <1>1, <1>3, BlockPositive, WholePositive
<1>5. (o + t) \div BSIZE <= o \div BSIZE + Whole
  BY <1>4, WholePositive, DividedReach
<1>6. o \div BSIZE <= (o + t) \div BSIZE /\ (o + t) \div BSIZE \in Nat
  BY <1>4, DividedMonotone, Divided
<1>7. (o + t) \div BSIZE \in b .. b + Whole
  BY <1>3, <1>5, <1>6, WholePositive
<1>8. BlockNo(p) = (o + t) \div BSIZE
  BY <1>2, <1>3 DEF BlockNo
<1> QED
  BY <1>3, <1>6, <1>7, <1>8 DEF Near

\* A turn, in a block of the file or in another.
LEMMA TurnKeeps ==
    ASSUME IOInv, NEW p \in Procs, at[p] \in {"write", "read"}, NEW n \in Int, tot[p] < n,
           tot' = [tot EXCEPT ![p] = @ + Turn(p, n)],
           UNCHANGED <<size, blocks, holder, off, at, call>>,
           \/ logged' = logged
           \/ /\ at[p] = "write" /\ n = call[p].n1
              /\ logged' = [logged EXCEPT ![p] = @ \cup {BlockNo(p)}]
    PROVE  IOInv'
<1>1. PICK m \in Nat : m = Turn(p, n) /\ tot[p] \in Nat
  BY TurnTakes
<1>2. logged' \in [Procs -> SUBSET Int] /\ \A q \in Procs \ {p} : logged'[q] = logged[q]
  BY TurnNear, Before DEF Types
<1>3. logged'[p] \subseteq logged[p] \cup Near(OffsetOf(p) \div BSIZE) /\ (at[p] = "read" => logged' = logged)
  BY TurnNear, Before DEF Types
<1>4. tot' \in [Procs -> Int] /\ tot'[p] = tot[p] + m /\ \A q \in Procs \ {p} : tot'[q] = tot[q]
  BY <1>1, Before DEF Types
<1>5. Types'
  BY <1>2, <1>4, Before DEF Types
<1>6. CallOf(p)'
  BY <1>1, <1>4, Before DEF CallOf, Inside
<1>7. OffsetOf(p)' = OffsetOf(p)
  BY DEF OffsetOf
<1>8. Together(p)'
  BY <1>3, <1>7, Before DEF Together
<1> QED
  BY <1>2, <1>4, <1>5, <1>6, <1>8, Before, MoveKeeps

LEMMA BlockKeeps ==
    ASSUME IOInv, NEW p \in Procs, WriteBlock(p) \/ ReadBlock(p) \/ BeyondAddrs(p) PROVE IOInv'
<1>1. call[p].n \in Int /\ call[p].n1 \in Int
  BY Before DEF Types, CallSet
<1>2. CASE WriteBlock(p)
  BY <1>1, <1>2, TurnKeeps DEF WriteBlock, Logs
<1>3. CASE ReadBlock(p)
  BY <1>1, <1>3, TurnKeeps DEF ReadBlock, file, log
<1>4. CASE BeyondAddrs(p)
  <2>1. CASE at[p] = "write"
    BY <1>1, <1>4, <2>1, TurnKeeps DEF BeyondAddrs, Logs, file
  <2>2. CASE at[p] = "read"
    BY <1>1, <1>4, <2>2, TurnKeeps DEF BeyondAddrs, file
  <2> QED
    BY <1>4, <2>1, <2>2 DEF BeyondAddrs
<1> QED
  BY <1>2, <1>3, <1>4

\* A loop that ends leaves its call where it got to.
LEMMA LoopEndKeeps ==
    ASSUME IOInv, NEW p \in Procs, WriteLoopEnds(p) \/ ReadLoopEnds(p) PROVE IOInv'
<1>1. /\ \/ at[p] = "write" /\ at' = [at EXCEPT ![p] = "update"]
         \/ at[p] = "read" /\ at' = [at EXCEPT ![p] = "rend"]
      /\ UNCHANGED <<size, blocks, holder, off, call, tot, logged>>
  BY DEF WriteLoopEnds, ReadLoopEnds, Goes, file, log, moves
<1>2. /\ \/ at[p] = "write" /\ at'[p] = "update"
         \/ at[p] = "read" /\ at'[p] = "rend"
      /\ \A q \in Procs \ {p} : at'[q] = at[q]
  BY <1>1, Before DEF Types
<1>3. Types'
  BY <1>1, Before DEF Types, AtSet
<1>4. OffsetOf(p)' = OffsetOf(p)
  BY <1>1 DEF OffsetOf
<1>5. CallOf(p)'
  BY <1>1, <1>2, Before DEF CallOf, Inside
<1>6. Together(p)'
  BY <1>1, <1>2, <1>4, Before DEF Together
<1> QED
  BY <1>1, <1>2, <1>3, <1>5, <1>6, Before, MoveKeeps

LEMMA UpdateKeeps == ASSUME IOInv, NEW p \in Procs, Update(p) PROVE IOInv'
<1>1. /\ at[p] = "update" /\ at' = [at EXCEPT ![p] = "wend"]
      /\ size' = Max({size, Here(p)})
      /\ UNCHANGED <<blocks, holder, off, call, tot>>
      /\ \/ logged' = [logged EXCEPT ![p] = @ \cup {IBlock}]
         \/ logged' = logged
  BY DEF Update, Goes, Logs, moves
<1>2. /\ at'[p] = "wend" /\ \A q \in Procs \ {p} : at'[q] = at[q] /\ logged'[q] = logged[q]
      /\ logged'[p] \subseteq logged[p] \cup {IBlock}
  BY <1>1, Before DEF Types
<1>3. Here(p) \in Nat /\ size \in Nat
  BY <1>1, Before DEF Types, CallOf, Here, OffsetOf, Inside
<1>4. size' \in Nat
  <2>1. size' \in {size, Here(p)}
    BY <1>1, <1>3, LargerOfTwo
  <2> QED
    BY <1>3, <2>1
<1>5. Types'
  <2>1. logged' \in [Procs -> SUBSET Int]
    BY <1>1, Before DEF Types, IBlock
  <2> QED
    BY <1>1, <1>4, <2>1, Before DEF Types, AtSet
<1>7. OffsetOf(p)' = OffsetOf(p)
  BY <1>1 DEF OffsetOf
<1>8. CallOf(p)'
  BY <1>1, <1>2, Before DEF CallOf, Inside
<1>9. Together(p)'
  BY <1>1, <1>2, <1>7, Before DEF Together, Near
<1> QED
  BY <1>1, <1>2, <1>5, <1>8, <1>9, Before, MoveKeeps

\* The offset follows what the call has moved, and the lock is given back.
LEMMA AdvancedReaches ==
    ASSUME IOInv, NEW p \in Procs, at[p] \in {"wend", "rend"},
           off' = [off EXCEPT ![call[p].f] = Advanced(p, @, tot[p])]
    PROVE  /\ call[p].f \in File /\ holder = p
           /\ off' \in [File -> Nat]
<1>1. /\ call[p].f \in File /\ holder = p /\ tot[p] \in Int
      /\ off \in [File -> Nat]
  BY Before DEF Types, CallOf, Inside
<1>2. PICK o \in Nat : o = Advanced(p, off[call[p].f], tot[p])
  <2>1. CASE tot[p] > 0
    BY <1>1, <2>1 DEF Advanced
  <2>2. CASE ~ tot[p] > 0
    BY <1>1, <2>2 DEF Advanced
  <2> QED
    BY <2>1, <2>2
<1>3. off' = [off EXCEPT ![call[p].f] = o]
  BY <1>2
<1> QED
  BY <1>1, <1>2, <1>3

LEMMA UnlockWrittenKeeps == ASSUME IOInv, NEW p \in Procs, UnlockWritten(p) PROVE IOInv'
<1>1. /\ at[p] = "wend" /\ at' = [at EXCEPT ![p] = "log_end"]
      /\ off' = [off EXCEPT ![call[p].f] = Advanced(p, @, tot[p])]
      /\ tot' = [tot EXCEPT ![p] = 0] /\ holder' = Nobody
      /\ UNCHANGED <<size, blocks, logged>>
  BY DEF UnlockWritten, Goes, file, log
<1>2. call[p].f \in File /\ holder = p /\ off' \in [File -> Nat]
  BY <1>1, AdvancedReaches
<1>3. /\ call' \in [Procs -> CallSet] /\ call'[p].f = call[p].f
      /\ \A q \in Procs \ {p} : call'[q] = call[q]
  <2>1. /\ call \in [Procs -> CallSet] /\ tot[p] \in Int
    BY Before DEF Types
  <2>2. PICK i \in Int, n \in Int :
            call' = [call EXCEPT ![p] = [@ EXCEPT !.i = i, !.n = n]]
    <3>1. call' = [call EXCEPT ![p].i = IF tot[p] > 0 THEN @ + tot[p] ELSE @,
                               ![p].n = IF tot[p] = call[p].n1 THEN @ ELSE 0]
      BY DEF UnlockWritten
    <3>2. call[p].i \in Int /\ call[p].n \in Int
      BY <2>1 DEF CallSet
    <3>3. PICK i \in Int, n \in Int :
              /\ i = IF tot[p] > 0 THEN call[p].i + tot[p] ELSE call[p].i
              /\ n = IF tot[p] = call[p].n1 THEN call[p].n ELSE 0
      BY <2>1, <3>2
    <3>4. call' = [call EXCEPT ![p] = [@ EXCEPT !.i = i, !.n = n]]
      BY <2>1, <3>1, <3>3 DEF CallSet
    <3> QED
      BY <3>4, Zenon
  <2>3. PICK c \in CallSet : c = call[p]
    BY <2>1
  <2>4. [c EXCEPT !.i = i, !.n = n] \in CallSet /\ [c EXCEPT !.i = i, !.n = n].f = c.f
    BY DEF CallSet
  <2>5. call' = [call EXCEPT ![p] = [c EXCEPT !.i = i, !.n = n]]
    BY <2>2, <2>3
  <2> QED
    BY <2>1, <2>3, <2>4, <2>5
<1>4. /\ at'[p] = "log_end" /\ tot'[p] = 0
      /\ \A q \in Procs \ {p} : at'[q] = at[q] /\ tot'[q] = tot[q]
  BY <1>1, Before DEF Types
<1>5. \A q \in Procs \ {p} : holder' = q <=> holder = q
  BY <1>1, <1>2, FileIOAssumption
<1>6. Types'
  BY <1>1, <1>2, <1>3, Before DEF Types, AtSet
<1>7. CallOf(p)'
  BY <1>1, <1>2, <1>3, <1>4, Before DEF CallOf, Inside
<1>8. Together(p)'
  <2>1. logged[p] \subseteq Near(OffsetOf(p) \div BSIZE)
    BY <1>1, Before DEF Together
  <2>2. OffsetOf(p) \div BSIZE \in Nat
    <3>1. PICK o \in Nat : o = OffsetOf(p)
      BY <1>2, Before DEF Types, OffsetOf
    <3> QED
      BY <3>1, Divided
  <2>3. \E b \in Nat : logged'[p] \subseteq Near(b)
    BY <1>1, <2>1, <2>2
  <2> QED
    BY <1>4, <2>3 DEF Together
<1>9. at'[p] \notin Inside
  BY <1>4 DEF Inside
<1> QED
  BY <1>1, <1>2, <1>3, <1>4, <1>5, <1>6, <1>7, <1>8, <1>9, MoveKeeps

LEMMA UnlockReadKeeps == ASSUME IOInv, NEW p \in Procs, UnlockRead(p) PROVE IOInv'
<1>1. /\ at[p] = "rend" /\ at' = [at EXCEPT ![p] = "idle"]
      /\ off' = [off EXCEPT ![call[p].f] = Advanced(p, @, tot[p])]
      /\ tot' = [tot EXCEPT ![p] = 0] /\ holder' = Nobody
      /\ call' = [call EXCEPT ![p] = NoCall]
      /\ UNCHANGED <<size, blocks, logged>>
  BY DEF UnlockRead, Goes, file, log
<1>2. holder = p /\ off' \in [File -> Nat]
  BY <1>1, AdvancedReaches
<1>3. /\ at'[p] = "idle" /\ tot'[p] = 0
      /\ \A q \in Procs \ {p} : at'[q] = at[q] /\ tot'[q] = tot[q] /\ call'[q] = call[q]
  BY <1>1, Before DEF Types
<1>4. \A q \in Procs \ {p} : holder' = q <=> holder = q
  BY <1>1, <1>2, FileIOAssumption
<1>5. NoCall \in CallSet
  BY DEF NoCall, CallSet
<1>6. Types'
  BY <1>1, <1>2, <1>5, Before DEF Types, AtSet
<1>7. CallOf(p)' /\ Together(p)'
  BY <1>1, <1>3, Before DEF CallOf, Together, Inside
<1>8. at'[p] \notin Inside
  BY <1>3 DEF Inside
<1> QED
  BY <1>1, <1>2, <1>3, <1>4, <1>6, <1>7, <1>8, MoveKeeps

LEMMA EndOpKeeps == ASSUME IOInv, NEW p \in Procs, EndOp(p) PROVE IOInv'
<1>1. /\ at[p] = "log_end" /\ logged' = [logged EXCEPT ![p] = {}]
      /\ UNCHANGED <<size, blocks, holder, off, tot>>
  BY DEF EndOp, file, moves
<1>2. PICK c \in CallSet, there \in {"begin", "idle"} :
          /\ at' = [at EXCEPT ![p] = there] /\ call' = [call EXCEPT ![p] = c]
          /\ there = "begin" => c.f = call[p].f /\ c.n1 <= BSIZE * Whole
  <2>1. PICK d \in CallSet : d = call[p] /\ call \in [Procs -> CallSet]
    BY Before DEF Types
  <2>2. CASE call[p].i < call[p].n
    <3>1. PICK n1 \in Int : n1 = NextChunk(call[p].n, call[p].i) /\ n1 <= BSIZE * Whole
      <4>1. d.n \in Int /\ d.i \in Int
        BY DEF CallSet
      <4>2. NextChunk(d.n, d.i) \in Int /\ NextChunk(d.n, d.i) <= BSIZE * Whole
        BY <4>1, NextChunkBound
      <4> QED
        BY <2>1, <4>2
    <3>2. [d EXCEPT !.n1 = n1] \in CallSet /\ [d EXCEPT !.n1 = n1].f = d.f /\ [d EXCEPT !.n1 = n1].n1 = n1
      BY DEF CallSet
    <3>3. at' = [at EXCEPT ![p] = "begin"] /\ call' = [call EXCEPT ![p] = [d EXCEPT !.n1 = n1]]
      BY <2>1, <2>2, <3>1 DEF EndOp, Goes
    <3> QED
      BY <2>1, <3>1, <3>2, <3>3
  <2>3. CASE ~ call[p].i < call[p].n
    <3>1. at' = [at EXCEPT ![p] = "idle"] /\ call' = [call EXCEPT ![p] = NoCall]
      BY <2>3 DEF EndOp, Goes
    <3>2. NoCall \in CallSet
      BY DEF NoCall, CallSet
    <3> QED
      BY <3>1, <3>2
  <2> QED
    BY <2>2, <2>3
<1>3. /\ at'[p] = there /\ call'[p] = c /\ logged'[p] = {}
      /\ \A q \in Procs \ {p} : at'[q] = at[q] /\ call'[q] = call[q] /\ logged'[q] = logged[q]
  BY <1>1, <1>2, Before DEF Types
<1>4. Types'
  BY <1>1, <1>2, Before DEF Types, AtSet
<1>5. CallOf(p)' /\ Together(p)'
  BY <1>1, <1>2, <1>3, Before DEF CallOf, Together, Inside
<1>6. at'[p] \notin Inside
  BY <1>3 DEF Inside
<1> QED
  BY <1>1, <1>3, <1>4, <1>5, <1>6, Before, MoveKeeps

LEMMA LockToReadKeeps == ASSUME IOInv, NEW p \in Procs, LockToRead(p) PROVE IOInv'
<1>1. /\ at[p] = "rlock" /\ holder = Nobody /\ holder' = p
      /\ UNCHANGED <<size, blocks, off, tot, logged>>
  BY DEF LockToRead, file, log, moves
<1>2. PICK c \in CallSet, there \in {"read", "rend"} :
          /\ at' = [at EXCEPT ![p] = there] /\ call' = [call EXCEPT ![p] = c]
          /\ c.f = call[p].f
  <2>1. PICK d \in CallSet, o \in Nat : d = call[p] /\ call \in [Procs -> CallSet] /\ o = OffsetOf(p)
    BY <1>1, Before DEF Types, CallOf, OffsetOf
  <2>2. CASE o > size \/ Plus(o, call[p].n) < o
    <3>1. at' = [at EXCEPT ![p] = "rend"] /\ call' = [call EXCEPT ![p] = d]
      BY <2>1, <2>2 DEF LockToRead, Goes
    <3> QED
      BY <2>1, <3>1
  <2>3. CASE ~ (o > size \/ Plus(o, call[p].n) < o)
    <3>1. PICK n : n = IF Plus(o, call[p].n) > size THEN size - o ELSE call[p].n
      OBVIOUS
    <3>2. at' = [at EXCEPT ![p] = "read"] /\ call' = [call EXCEPT ![p] = [d EXCEPT !.n = n]]
      BY <2>1, <2>3, <3>1 DEF LockToRead, Goes
    <3>3. n \in Int
      <4>1. d.n \in Int /\ size \in Nat
        BY Before DEF CallSet, Types
      <4> QED
        BY <2>1, <3>1, <4>1
    <3>4. [d EXCEPT !.n = n] \in CallSet /\ [d EXCEPT !.n = n].f = d.f
      BY <3>3 DEF CallSet
    <3> QED
      BY <2>1, <3>2, <3>4
  <2> QED
    BY <2>2, <2>3
<1>3. /\ at'[p] = there /\ call'[p] = c
      /\ \A q \in Procs \ {p} : at'[q] = at[q] /\ call'[q] = call[q] /\ (holder' = q <=> holder = q)
  BY <1>1, <1>2, FileIOAssumption, Before DEF Types
<1>4. Types'
  BY <1>1, <1>2, Before DEF Types, AtSet
<1>5. CallOf(p)' /\ Together(p)'
  BY <1>1, <1>2, <1>3, Before DEF CallOf, Together, Inside
<1> QED
  BY <1>1, <1>3, <1>4, <1>5, Before, MoveKeeps

-----------------------------------------------------------------------------
LEMMA StepIOInv == ASSUME IOInv, [Next]_vars PROVE IOInv'
<1>1. CASE UNCHANGED vars
  BY <1>1 DEF vars, IOInv, Types, CallOf, Together, OffsetOf
<1>2. CASE Next
  BY <1>2, StartKeeps, BeginOpKeeps, LockToWriteKeeps, BlockKeeps, LoopEndKeeps,
     UpdateKeeps, UnlockWrittenKeeps, EndOpKeeps, LockToReadKeeps, UnlockReadKeeps
     DEF Next
<1> QED
  BY <1>1, <1>2

LEMMA Invariance == Spec => []IOInv
<1>1. IOInv /\ [Next]_vars => IOInv'
  BY StepIOInv
<1> QED
  BY <1>1, InitIOInv, PTL DEF Spec

\* A transaction of file_write logs no more than log_begin_op reserved for it,
\* whatever the offset, the other users of the file, the blocks that cannot be
\* had, and the numbers found behind addrs (file_write's chunks, inode_write).
THEOREM ReservationKept == Spec => []WithinReservation
<1>1. IOInv => WithinReservation
  BY InvariantBounds
<1> QED
  BY <1>1, Invariance, PTL

-----------------------------------------------------------------------------
(***************************************************************************)
(* FileIO implements ByteFile: what the calls in progress rest on          *)
(***************************************************************************)

\* A write begins inside the file; a read stays inside it, so its count was
\* cut at the end; what a loop has moved is in the file once its size is
\* written; a call that reads nothing has got nothing.  What a write has moved
\* is in the blocks the file has.
CallInFile(p) ==
    /\ at[p] \in {"write", "update", "read"} => OffsetOf(p) <= size
    /\ at[p] \in {"write", "update"} => Here(p) <= BSIZE * blocks
    /\ at[p] \in {"wend", "rend"} /\ tot[p] > 0 => Here(p) <= size
    /\ at[p] = "rlock" => call[p].n \in 0 .. Width - 1
    /\ at[p] = "read" => tot[p] <= call[p].n /\ OffsetOf(p) + call[p].n <= size
    /\ at[p] \notin {"read", "rend"} => got[p] = <<>>
    /\ at[p] \in {"idle", "rlock", "read", "rend"} => call[p].i = 0

\* The file has direct blocks, up to its size.
FileInv ==
    /\ IOInv /\ DirectFile /\ size <= BSIZE * blocks
    /\ got = [p \in Procs |-> got[p]]
    /\ \A p \in Procs : CallInFile(p)

LEMMA InitFileInv == Init /\ DirectFile => FileInv
<1> SUFFICES ASSUME Init, DirectFile PROVE FileInv
  OBVIOUS
<1>1. got = [p \in Procs |-> got[p]]
  BY DEF Init
<1>2. IOInv /\ blocks \in Nat /\ size \in Nat
  BY InitIOInv DEF IOInv, Types
<1>3. size <= BSIZE * blocks
  <2>1. PICK a \in Nat, b \in Nat : a = (size + BSIZE - 1) \div BSIZE /\ b = NDIRECT + 1 /\ size <= BSIZE * a
    BY <1>2, EnoughBlocks, FileIOAssumption
  <2>2. blocks = Min({a, b})
    BY <2>1 DEF Init
  <2>3. Min({a, b}) \in {a, b}
    BY SmallerOfTwo
  <2>4. blocks <= NDIRECT /\ NDIRECT \in Nat
    BY FileIOAssumption DEF DirectFile
  <2> QED
    BY <2>1, <2>2, <2>3, <2>4
<1>4. ASSUME NEW p \in Procs PROVE CallInFile(p)
  BY DEF Init, CallInFile, NoCall
<1> QED
  BY <1>1, <1>2, <1>3, <1>4 DEF FileInv

\* A step of p changes the size or an offset only inside the lock.
LEMMA OthersInFile ==
    ASSUME IOInv, NEW p \in Procs, NEW q \in Procs, q # p, CallInFile(q),
           at'[q] = at[q], call'[q] = call[q], tot'[q] = tot[q], got'[q] = got[q],
           (size' = size /\ off' = off) \/ holder = p, blocks' = blocks
    PROVE  CallInFile(q)'
<1>1. CASE at[q] \in Inside
  <2>1. size' = size /\ off' = off
    BY <1>1, Before DEF CallOf
  <2>2. OffsetOf(q)' = OffsetOf(q) /\ Here(q)' = Here(q)
    BY <2>1 DEF OffsetOf, Here
  <2> QED
    BY <2>1, <2>2 DEF CallInFile
<1>2. CASE at[q] \notin Inside
  <2>1. at'[q] \notin {"write", "update", "read", "wend", "rend"}
    BY <1>2 DEF Inside
  <2> QED
    BY <2>1 DEF CallInFile
<1> QED
  BY <1>1, <1>2

LEMMA OnlyOwn ==
    ASSUME NEW h, h = [q \in Procs |-> h[q]], NEW p \in Procs, NEW x, NEW g,
           g = [h EXCEPT ![p] = x]
    PROVE  /\ g = [q \in Procs |-> g[q]] /\ g[p] = x
           /\ \A q \in Procs \ {p} : g[q] = h[q]
OBVIOUS

\* Calls start, take their locks and end their loops, and give the lock back.
LEMMA StartInFile ==
    ASSUME FileInv, NEW p \in Procs, NEW f \in File, NEW n \in Count,
           StartWrite(p, f, n) \/ StartRead(p, f, n)
    PROVE  CallInFile(p)'
<1>1. /\ at[p] = "idle" /\ CallInFile(p) /\ at \in [Procs -> AtSet]
      /\ call \in [Procs -> CallSet]
  BY DEF FileInv, IOInv, Types, StartWrite, StartRead
<1>2. CASE StartWrite(p, f, n)
  <2>1. at'[p] = "begin" /\ got'[p] = got[p]
    BY <1>1, <1>2 DEF StartWrite, Goes, moves
  <2> QED
    BY <1>1, <2>1 DEF CallInFile
<1>3. CASE StartRead(p, f, n)
  <2>1. /\ at'[p] = "rlock" /\ got'[p] = got[p]
        /\ call'[p] = [NoCall EXCEPT !.f = f, !.n = U32(n)]
    BY <1>1, <1>3 DEF StartRead, Goes, moves
  <2>2. call'[p].n = n % Width /\ call'[p].i = 0
    BY <2>1 DEF NoCall, U32
  <2>3. n % Width \in 0 .. Width - 1
    <3>1. n \in Int /\ Width \in Nat /\ Width > 0
      BY FileIOAssumption
    <3> QED
      BY <3>1
  <2> QED
    BY <1>1, <2>1, <2>2, <2>3 DEF CallInFile
<1> QED
  BY <1>2, <1>3

\* A count that did not overflow ends at the end of the file, or before.
LEMMA CutAtEnd ==
    ASSUME NEW o \in Nat, NEW s \in Nat, NEW n \in 0 .. Width - 1,
           o <= s, ~ Plus(o, n) < o,
           NEW m, m = IF Plus(o, n) > s THEN s - o ELSE n
    PROVE  m \in Nat /\ o + m <= s
<1>1. Width \in Nat /\ Width > 0 /\ n \in Nat /\ n < Width /\ o + n \in Nat
  BY FileIOAssumption
<1>2. (o + n) % Width \in 0 .. Width - 1
  BY <1>1
<1>3. CASE o + n < Width
  <2>1. (o + n) % Width = o + n
    BY <1>1, <1>3
  <2> QED
    BY <1>1, <2>1 DEF Plus
<1>4. CASE o + n >= Width
  <2>1. CASE o >= Width
    BY <1>1, <1>2, <2>1 DEF Plus
  <2>2. CASE o < Width
    <3>1. (o + n) % Width = o + n - Width
      BY <1>1, <1>4, <2>2
    <3> QED
      BY <1>1, <2>2, <3>1 DEF Plus
  <2> QED
    BY <2>1, <2>2, <1>1
<1> QED
  BY <1>1, <1>3, <1>4

LEMMA LockInFile ==
    ASSUME FileInv, NEW p \in Procs, LockToWrite(p) \/ LockToRead(p) PROVE CallInFile(p)'
<1>1. /\ CallInFile(p) /\ at \in [Procs -> AtSet] /\ call \in [Procs -> CallSet]
      /\ tot \in [Procs -> Int] /\ tot[p] = 0 /\ size \in Nat /\ OffsetOf(p) \in Nat
  BY DEF FileInv, IOInv, Types, CallOf, OffsetOf, Inside, LockToWrite, LockToRead
<1>2. UNCHANGED <<size, off, blocks>> /\ got'[p] = got[p] /\ size <= BSIZE * blocks
  BY DEF LockToWrite, LockToRead, file, moves, FileInv
<1>3. CASE LockToWrite(p)
  <2>1. at[p] = "wlock" /\ call' = call
    BY <1>3 DEF LockToWrite
  <2>2. \/ at'[p] = "wend" /\ tot'[p] = -1
        \/ at'[p] = "write" /\ ~ WriteRefused(OffsetOf(p), call[p].n1)
    BY <1>1, <1>3 DEF LockToWrite, Goes
  <2>3. OffsetOf(p)' = OffsetOf(p)
    BY <1>2, <2>1 DEF OffsetOf
  <2>4. at'[p] = "write" => OffsetOf(p) <= size
    BY <1>1, <2>2 DEF WriteRefused
  <2>5. at'[p] = "write" => Here(p)' <= BSIZE * blocks
    <3> SUFFICES ASSUME at'[p] = "write" PROVE Here(p)' <= BSIZE * blocks
      OBVIOUS
    <3>1. tot'[p] = 0
      BY <1>1, <1>3 DEF LockToWrite, Goes
    <3>2. Here(p)' = OffsetOf(p)
      BY <1>1, <2>3, <3>1 DEF Here
    <3>3. BSIZE * blocks \in Nat
      BY BlockPositive DEF FileInv, IOInv, Types
    <3> QED
      BY <1>1, <1>2, <2>4, <3>2, <3>3
  <2> QED
    BY <1>1, <1>2, <2>1, <2>2, <2>3, <2>4, <2>5 DEF CallInFile
<1>4. CASE LockToRead(p)
  <2>1. at[p] = "rlock" /\ call[p].n \in 0 .. Width - 1 /\ call[p].i = 0 /\ tot' = tot
    BY <1>1, <1>4 DEF LockToRead, CallInFile, moves
  <2>2. CASE OffsetOf(p) > size \/ Plus(OffsetOf(p), call[p].n) < OffsetOf(p)
    <3>1. at'[p] = "rend" /\ call' = call
      BY <1>1, <1>4, <2>2 DEF LockToRead, Goes
    <3> QED
      BY <1>1, <2>1, <3>1 DEF CallInFile
  <2>3. CASE ~ (OffsetOf(p) > size \/ Plus(OffsetOf(p), call[p].n) < OffsetOf(p))
    <3>1. PICK m : m = IF Plus(OffsetOf(p), call[p].n) > size THEN size - OffsetOf(p) ELSE call[p].n
      OBVIOUS
    <3>2. /\ at'[p] = "read"
          /\ call'[p].n = m /\ call'[p].f = call[p].f /\ call'[p].i = call[p].i
      BY <1>1, <1>4, <2>3, <3>1 DEF LockToRead, Goes, CallSet
    <3>3. m \in Nat /\ OffsetOf(p) + m <= size
      <4>1. PICK o \in Nat, s \in Nat, n \in 0 .. Width - 1 :
                o = OffsetOf(p) /\ s = size /\ n = call[p].n
        BY <1>1, <2>1
      <4>2. m = (IF Plus(o, n) > s THEN s - o ELSE n) /\ o <= s /\ ~ Plus(o, n) < o
        <5>1. m = IF Plus(o, n) > s THEN s - o ELSE n
          BY <3>1, <4>1
        <5>2. ~ (o > s) /\ ~ Plus(o, n) < o
          BY <2>3, <4>1
        <5> QED
          BY <5>1, <5>2
      <4>3. m \in Nat /\ o + m <= s
        BY <4>2, CutAtEnd
      <4> QED
        BY <4>1, <4>3
    <3>4. OffsetOf(p)' = OffsetOf(p)
      BY <1>2, <3>2 DEF OffsetOf
    <3> QED
      BY <1>1, <1>2, <2>1, <3>2, <3>3, <3>4 DEF CallInFile
  <2> QED
    BY <2>2, <2>3
<1> QED
  BY <1>3, <1>4

\* A turn moves something, and no more than was asked for.
LEMMA TurnMoves ==
    ASSUME IOInv, NEW p \in Procs, at[p] \in {"write", "read"}, NEW n \in Int, tot[p] < n
    PROVE  Turn(p, n) \in Nat /\ Turn(p, n) > 0 /\ tot[p] + Turn(p, n) <= n
<1>1. Here(p) \in Nat /\ tot[p] \in Nat
  BY Before DEF Types, CallOf, Here, OffsetOf
<1>2. PICK a \in Int, b \in Int :
          a = BSIZE - (Here(p) % BSIZE) /\ b = n - tot[p] /\ a > 0 /\ b > 0
  <2>1. BSIZE - (Here(p) % BSIZE) \in Nat /\ BSIZE - (Here(p) % BSIZE) > 0
    BY <1>1, Divided, BlockPositive
  <2>2. n - tot[p] \in Nat /\ n - tot[p] > 0
    BY <1>1
  <2> QED
    BY <2>1, <2>2
<1>3. Turn(p, n) = Min({a, b})
  BY <1>2 DEF Turn
<1>4. Turn(p, n) \in {a, b} /\ Turn(p, n) <= b
  BY <1>3, SmallerOfTwo
<1> QED
  BY <1>1, <1>2, <1>4

\* And, in a block of the file, not past the last one.
LEMMA TurnReaches ==
    ASSUME IOInv, NEW p \in Procs, at[p] \in {"write", "read"}, NEW n \in Int,
           tot[p] < n, HasBlock(BlockNo(p))
    PROVE  /\ Here(p) \in Nat /\ tot[p] \in Nat /\ OffsetOf(p) \in Nat
           /\ Here(p) = OffsetOf(p) + tot[p]
           /\ Turn(p, n) \in Nat
           /\ Here(p) + Turn(p, n) <= BSIZE * blocks
<1>1. /\ Here(p) \in Nat /\ tot[p] \in Nat /\ OffsetOf(p) \in Nat
      /\ Here(p) = OffsetOf(p) + tot[p]
      /\ Turn(p, n) \in Nat /\ Turn(p, n) <= BSIZE - (Here(p) % BSIZE)
  BY TurnTakes
<1>2. blocks \in Nat /\ Here(p) \div BSIZE < blocks
  BY Before DEF Types, HasBlock, BlockNo
<1> QED
  BY <1>1, <1>2, WithinBlock

\* In a file of direct blocks a loop with bytes to go is at a block within addrs.
LEMMA InsideArray ==
    ASSUME FileInv, NEW p \in Procs, NEW n \in Int, at[p] \in {"write", "read"},
           tot[p] < n, at[p] = "read" => n = call[p].n
    PROVE  BlockNo(p) \in Nat /\ BlockNo(p) <= NDIRECT
<1>1. tot[p] < n /\ (at[p] = "read" => n = call[p].n)
  OBVIOUS
<1>2. /\ IOInv /\ CallInFile(p) /\ at[p] \in {"write", "read"}
      /\ blocks \in Nat /\ blocks <= NDIRECT /\ NDIRECT \in Nat
      /\ size \in Nat /\ size <= BSIZE * blocks
  BY FileIOAssumption, Before DEF FileInv, Types, DirectFile
<1>3. Here(p) \in Nat /\ tot[p] \in Nat /\ OffsetOf(p) \in Nat /\ Here(p) = OffsetOf(p) + tot[p]
  BY <1>1, <1>2, TurnTakes
<1>4. BSIZE * blocks \in Nat
  BY <1>2, BlockPositive
<1>5. Here(p) <= BSIZE * blocks
  <2>1. CASE at[p] = "write"
    BY <1>2, <2>1 DEF CallInFile
  <2>2. CASE at[p] = "read"
    <3>1. OffsetOf(p) + n <= size
      BY <1>1, <1>2, <2>2 DEF CallInFile
    <3> QED
      BY <1>1, <1>2, <1>3, <1>4, <3>1
  <2> QED
    BY <1>2, <2>1, <2>2
<1>6. BlockNo(p) <= blocks /\ BlockNo(p) \in Nat
  BY <1>2, <1>3, <1>5, DividedBound, Divided DEF BlockNo
<1> QED
  BY <1>2, <1>6

LEMMA NeverBeyond == ASSUME FileInv, NEW p \in Procs PROVE ~ BeyondAddrs(p)
<1> SUFFICES ASSUME BeyondAddrs(p) PROVE FALSE
  OBVIOUS
<1>1. PICK n \in Int : tot[p] < n /\ (at[p] = "read" => n = call[p].n)
  BY Before DEF FileInv, Types, CallSet, BeyondAddrs
<1>2. at[p] \in {"write", "read"} /\ BlockNo(p) > NDIRECT
  BY DEF BeyondAddrs
<1>3. BlockNo(p) \in Nat /\ BlockNo(p) <= NDIRECT
  BY <1>1, <1>2, InsideArray
<1> QED
  BY <1>2, <1>3, FileIOAssumption

LEMMA MoveInFile ==
    ASSUME FileInv, NEW p \in Procs, WriteBlock(p) \/ ReadBlock(p) PROVE CallInFile(p)'
<1>1. /\ CallInFile(p) /\ IOInv /\ at[p] \in {"write", "read"} /\ tot \in [Procs -> Int]
      /\ call[p].n \in Int /\ call[p].n1 \in Int
  BY Before DEF FileInv, Types, CallSet, WriteBlock, ReadBlock
<1>2. /\ UNCHANGED <<size, blocks, off, at, call>> /\ OffsetOf(p)' = OffsetOf(p)
  BY DEF WriteBlock, ReadBlock, OffsetOf, file, log
<1>3. CASE WriteBlock(p)
  <2>1. /\ at[p] = "write" /\ got' = got /\ tot[p] < call[p].n1 /\ HasBlock(BlockNo(p))
        /\ tot' = [tot EXCEPT ![p] = @ + Turn(p, call[p].n1)]
    BY <1>3 DEF WriteBlock
  <2>2. /\ tot[p] \in Nat /\ OffsetOf(p) \in Nat /\ Here(p) = OffsetOf(p) + tot[p]
        /\ Turn(p, call[p].n1) \in Nat /\ Here(p) + Turn(p, call[p].n1) <= BSIZE * blocks
    BY <1>1, <2>1, TurnReaches
  <2>3. Here(p)' = Here(p) + Turn(p, call[p].n1)
    <3>1. tot'[p] = tot[p] + Turn(p, call[p].n1)
      BY <1>1, <2>1
    <3> QED
      BY <1>2, <2>2, <3>1 DEF Here
  <2> QED
    BY <1>1, <1>2, <2>1, <2>2, <2>3 DEF CallInFile
<1>4. CASE ReadBlock(p)
  <2>1. at[p] = "read" /\ tot[p] < call[p].n /\ tot' = [tot EXCEPT ![p] = @ + Turn(p, call[p].n)]
    BY <1>4 DEF ReadBlock
  <2>2. tot'[p] <= call[p].n
    <3>1. tot[p] + Turn(p, call[p].n) <= call[p].n
      BY <1>1, <2>1, TurnMoves
    <3> QED
      BY <1>1, <2>1, <3>1
  <2> QED
    BY <1>1, <1>2, <2>1, <2>2 DEF CallInFile
<1> QED
  BY <1>3, <1>4

LEMMA LoopEndInFile ==
    ASSUME FileInv, NEW p \in Procs, WriteLoopEnds(p) \/ ReadLoopEnds(p) PROVE CallInFile(p)'
<1>1. /\ CallInFile(p) /\ Types /\ call[p].n \in Int /\ tot[p] \in Int
      /\ UNCHANGED <<size, blocks, off, call, tot, got>>
      /\ OffsetOf(p)' = OffsetOf(p) /\ Here(p)' = Here(p)
  BY Before DEF FileInv, IOInv, Types, CallSet, WriteLoopEnds, ReadLoopEnds,
                OffsetOf, Here, file, moves
<1>2. CASE WriteLoopEnds(p)
  <2>1. at[p] = "write" /\ at'[p] = "update"
    BY <1>1, <1>2 DEF WriteLoopEnds, Goes, Types
  <2> QED
    BY <1>1, <2>1 DEF CallInFile
<1>3. CASE ReadLoopEnds(p)
  <2>1. at[p] = "read" /\ at'[p] = "rend"
    BY <1>1, <1>3 DEF ReadLoopEnds, Goes, Types
  <2>2. Here(p) <= size
    <3>1. call[p].f \in File /\ OffsetOf(p) \in Nat /\ size \in Nat
      BY <2>1, Before DEF FileInv, CallOf, Types, OffsetOf
    <3> QED
      BY <1>1, <2>1, <3>1 DEF CallInFile, Here
  <2> QED
    BY <1>1, <2>1, <2>2 DEF CallInFile
<1> QED
  BY <1>2, <1>3

\* inode_write leaves the size at the end of what it moved, or behind it.
LEMMA SizeAfter ==
    ASSUME IOInv, NEW p \in Procs, Update(p)
    PROVE  /\ size' \in {size, Here(p)} /\ size' >= size /\ size' >= Here(p)
           /\ Here(p) \in Int /\ size \in Int
<1>1. size' = Max({size, Here(p)}) /\ at[p] = "update"
  BY DEF Update
<1>2. PICK a \in Int, b \in Int : a = size /\ b = Here(p)
  BY <1>1, Before DEF Types, CallOf, Here, OffsetOf
<1>3. size' = Max({a, b})
  BY <1>1, <1>2
<1> QED
  BY <1>2, <1>3, LargerOfTwo

LEMMA UpdateInFile == ASSUME FileInv, NEW p \in Procs, Update(p) PROVE CallInFile(p)'
<1>1. /\ CallInFile(p) /\ IOInv /\ Types /\ at[p] = "update" /\ at'[p] = "wend"
      /\ UNCHANGED <<off, call, tot, got>>
      /\ Here(p)' = Here(p)
  BY Before DEF FileInv, Types, Update, Goes, OffsetOf, Here, moves
<1>2. Here(p)' <= size'
  BY <1>1, SizeAfter
<1> QED
  BY <1>1, <1>2 DEF CallInFile

\* Outside the lock little is left to keep.
LEMMA OutsideInFile ==
    ASSUME FileInv, NEW p \in Procs,
           BeginOp(p) \/ UnlockWritten(p) \/ EndOp(p) \/ UnlockRead(p)
    PROVE  CallInFile(p)'
<1>1. CallInFile(p) /\ Types /\ at \in [Procs -> AtSet] /\ call \in [Procs -> CallSet]
  BY Before DEF FileInv, IOInv, Types
<1>2. CASE BeginOp(p) \/ UnlockWritten(p)
  <2>1. /\ at[p] \in {"begin", "wend"} /\ at'[p] \in {"wlock", "log_end"} /\ got' = got
    BY <1>1, <1>2 DEF BeginOp, UnlockWritten, Goes, moves
  <2> QED
    BY <1>1, <2>1 DEF CallInFile
<1>3. CASE EndOp(p)
  <2>1. /\ at[p] = "log_end" /\ got' = got
        /\ at'[p] = "begin" \/ (at'[p] = "idle" /\ call'[p] = NoCall)
    BY <1>1, <1>3 DEF EndOp, Goes, moves
  <2> QED
    BY <1>1, <2>1 DEF CallInFile, NoCall
<1>4. CASE UnlockRead(p)
  <2>1. at'[p] = "idle" /\ call'[p] = NoCall /\ got' = [got EXCEPT ![p] = <<>>]
    BY <1>1, <1>4 DEF UnlockRead, Goes
  <2>2. got'[p] = <<>>
    <3>1. got = [q \in Procs |-> got[q]]
      BY DEF FileInv
    <3> QED
      BY <2>1, <3>1
  <2> QED
    BY <2>1, <2>2 DEF CallInFile, NoCall
<1> QED
  BY <1>2, <1>3, <1>4

-----------------------------------------------------------------------------
StepOf(p) ==
    \/ \E f \in File, n \in Count : StartWrite(p, f, n) \/ StartRead(p, f, n)
    \/ BeginOp(p) \/ LockToWrite(p) \/ WriteBlock(p) \/ WriteLoopEnds(p)
    \/ Update(p) \/ UnlockWritten(p) \/ EndOp(p)
    \/ LockToRead(p) \/ ReadBlock(p) \/ ReadLoopEnds(p) \/ UnlockRead(p)

\* A step of p disturbs no other call, and what p's file_read has copied
\* stays p's.
LEMMA OthersUntouched ==
    ASSUME IOInv, NEW p \in Procs, StepOf(p)
    PROVE  /\ \A q \in Procs \ {p} : at'[q] = at[q] /\ call'[q] = call[q] /\ tot'[q] = tot[q]
           /\ (size' = size /\ off' = off) \/ holder = p
           /\ blocks' = blocks /\ (size' = size \/ Update(p))
           /\ \E g : got' = [got EXCEPT ![p] = g] \/ got' = got
<1>1. Types /\ (at[p] \in Inside => holder = p)
  BY Before DEF CallOf
<1>2. CASE \E f \in File, n \in Count : StartWrite(p, f, n) \/ StartRead(p, f, n)
  BY <1>1, <1>2 DEF StartWrite, StartRead, Goes, Types, file, moves
<1>3. CASE BeginOp(p) \/ LockToWrite(p) \/ LockToRead(p) \/ EndOp(p)
  <2>1. /\ UNCHANGED <<size, blocks, off, got>>
        /\ \E a : at' = [at EXCEPT ![p] = a]
        /\ call' = call \/ \E c : call' = [call EXCEPT ![p] = c]
        /\ tot' = tot \/ \E t : tot' = [tot EXCEPT ![p] = t]
    <3>1. CASE BeginOp(p)
      BY <3>1 DEF BeginOp, Goes, file, moves
    <3>2. CASE LockToWrite(p)
      BY <3>2 DEF LockToWrite, Goes, file, moves
    <3>3. CASE LockToRead(p)
      BY <3>3 DEF LockToRead, Goes, file, moves
    <3>4. CASE EndOp(p)
      BY <3>4 DEF EndOp, Goes, file, moves
    <3> QED
      BY <1>3, <3>1, <3>2, <3>3, <3>4
  <2> QED
    BY <1>1, <2>1 DEF Types
<1>4. CASE WriteBlock(p) \/ ReadBlock(p) \/ WriteLoopEnds(p) \/ ReadLoopEnds(p)
  <2>1. /\ UNCHANGED <<size, blocks, off, call>>
        /\ at' = at \/ \E a : at' = [at EXCEPT ![p] = a]
        /\ tot' = tot \/ \E t : tot' = [tot EXCEPT ![p] = t]
        /\ got' = got \/ \E g : got' = [got EXCEPT ![p] = g]
    <3>1. CASE WriteBlock(p)
      BY <3>1 DEF WriteBlock
    <3>2. CASE ReadBlock(p)
      BY <3>2 DEF ReadBlock, file
    <3>3. CASE WriteLoopEnds(p) \/ ReadLoopEnds(p)
      BY <3>3 DEF WriteLoopEnds, ReadLoopEnds, Goes, file, moves
    <3> QED
      BY <1>4, <3>1, <3>2, <3>3
  <2> QED
    BY <1>1, <2>1 DEF Types
<1>5. CASE Update(p) \/ UnlockWritten(p) \/ UnlockRead(p)
  <2>1. holder = p
    BY <1>1, <1>5 DEF Update, UnlockWritten, UnlockRead, Inside
  <2>2. /\ blocks' = blocks /\ (size' = size \/ Update(p))
        /\ \E a : at' = [at EXCEPT ![p] = a]
        /\ call' = call \/ \E c : call' = [call EXCEPT ![p] = c]
        /\ tot' = tot \/ \E t : tot' = [tot EXCEPT ![p] = t]
        /\ got' = got \/ \E g : got' = [got EXCEPT ![p] = g]
    <3>1. CASE Update(p)
      BY <3>1 DEF Update, Goes, moves
    <3>2. CASE UnlockWritten(p)
      <4>1. \E c : call' = [call EXCEPT ![p] = c]
        BY <1>1, <3>2 DEF UnlockWritten, Types, CallSet
      <4> QED
        BY <3>2, <4>1 DEF UnlockWritten, Goes, file
    <3>3. CASE UnlockRead(p)
      BY <3>3 DEF UnlockRead, Goes, file
    <3> QED
      BY <1>5, <3>1, <3>2, <3>3
  <2> QED
    BY <1>1, <2>1, <2>2 DEF Types
<1> QED
  BY <1>2, <1>3, <1>4, <1>5 DEF StepOf

LEMMA StepFileInv == ASSUME FileInv, [Next]_vars PROVE FileInv'
<1>1. IOInv' /\ IOInv
  BY StepIOInv DEF FileInv
<1>2. CASE UNCHANGED vars
  BY <1>1, <1>2 DEF FileInv, vars, CallInFile, OffsetOf, Here, DirectFile
<1>3. CASE Next
  <2>1. PICK p \in Procs : StepOf(p)
    BY <1>3, NeverBeyond DEF Next, StepOf
  <2>2. /\ \A q \in Procs \ {p} : at'[q] = at[q] /\ call'[q] = call[q] /\ tot'[q] = tot[q]
        /\ (size' = size /\ off' = off) \/ holder = p
        /\ blocks' = blocks /\ (size' = size \/ Update(p))
        /\ \E g : got' = [got EXCEPT ![p] = g] \/ got' = got
    BY <1>1, <2>1, OthersUntouched
  <2>3. got' = [q \in Procs |-> got'[q]] /\ \A q \in Procs \ {p} : got'[q] = got[q]
    <3>1. got = [q \in Procs |-> got[q]]
      BY DEF FileInv
    <3>2. CASE got' = got
      BY <3>1, <3>2
    <3>3. ASSUME NEW g, got' = [got EXCEPT ![p] = g]
          PROVE  got' = [q \in Procs |-> got'[q]] /\ \A q \in Procs \ {p} : got'[q] = got[q]
      BY <3>1, <3>3
    <3> QED
      BY <2>2, <3>2, <3>3
  <2>4. CallInFile(p)'
    BY <2>1, StartInFile, LockInFile, MoveInFile, LoopEndInFile, UpdateInFile, OutsideInFile
       DEF StepOf
  <2>5. ASSUME NEW q \in Procs, q # p PROVE CallInFile(q)'
    <3>1. CallInFile(q) /\ at'[q] = at[q] /\ call'[q] = call[q] /\ tot'[q] = tot[q] /\ got'[q] = got[q]
      BY <2>2, <2>3, <2>5 DEF FileInv
    <3> QED
      BY <1>1, <2>2, <2>5, <3>1, OthersInFile
  <2>6. size' <= BSIZE * blocks'
    <3>1. CASE size' = size
      BY <2>2, <3>1 DEF FileInv
    <3>2. CASE Update(p)
      <4>1. at[p] = "update" /\ CallInFile(p) /\ size <= BSIZE * blocks
        BY <3>2 DEF FileInv, Update
      <4> QED
        BY <1>1, <2>2, <3>2, <4>1, SizeAfter DEF CallInFile
    <3> QED
      BY <2>2, <3>1, <3>2
  <2> QED
    BY <1>1, <2>2, <2>3, <2>4, <2>5, <2>6 DEF FileInv, DirectFile
<1> QED
  BY <1>2, <1>3

LEMMA FileInvariance == Spec /\ DirectFile => []FileInv
<1>1. FileInv /\ [Next]_vars => FileInv'
  BY StepFileInv
<1> QED
  BY <1>1, InitFileInv, PTL DEF Spec

\* No action allocates or frees a block.
LEMMA StaysIndirect == Spec /\ ~ DirectFile => []~DirectFile
<1>1. ~ DirectFile /\ [Next]_vars => ~ DirectFile'
  BY DEF DirectFile, Next, vars, file, log, moves, limits, StartWrite, StartRead, BeginOp,
         LockToWrite, WriteBlock, WriteLoopEnds, Update, UnlockWritten, EndOp,
         LockToRead, ReadBlock, ReadLoopEnds, UnlockRead, BeyondAddrs
<1> QED
  BY <1>1, PTL DEF Spec

\* Whatever the size on disk, the block loops leave addrs only in a file with an
\* indirect block: in a file without one, the first block that is not allocated
\* ends them, and the test against MAXFILE plays no part in it (inode_read,
\* inode_write).
THEOREM ArrayLeftByIndirect == Spec => []ArrayLeftOnlyIndirect
<1>1. FileInv => ArrayLeftOnlyIndirect
  <2> SUFFICES ASSUME FileInv, NEW p \in Procs,
                      at[p] \in {"write", "read"},
                      tot[p] < IF at[p] = "write" THEN call[p].n1 ELSE call[p].n
               PROVE  ~ (BlockNo(p) > NDIRECT)
    BY DEF ArrayLeftOnlyIndirect
  <2> DEFINE n == IF at[p] = "write" THEN call[p].n1 ELSE call[p].n
  <2>1. n \in Int
    BY Before DEF FileInv, Types, CallSet
  <2>2. BlockNo(p) \in Nat /\ BlockNo(p) <= NDIRECT
    BY <2>1, InsideArray
  <2> QED
    BY <2>2, FileIOAssumption
<1>2. ~ DirectFile => ArrayLeftOnlyIndirect
  BY DEF ArrayLeftOnlyIndirect
<1> QED
  BY <1>1, <1>2, FileInvariance, StaysIndirect, PTL

-----------------------------------------------------------------------------
(***************************************************************************)
(* What the refinement mapping shows of a state.                           *)
(***************************************************************************)

\* Where the bytes end, with what p alone has moved.
End(p) == IF InLoop(p) /\ Here(p) > size THEN Here(p) ELSE size

Bytes(p)  == [x \in 1 .. End(p) |-> data[x - 1]]
Places(p) == [f \in File |-> IF InLoop(p) /\ call[p].f = f THEN Here(p) ELSE off[f]]

\* With nobody else in a loop, the bytes end at the size or at what p has
\* moved, and p's file is at p's place.
Views ==
    \A p \in Procs :
        (\A q \in Procs \ {p} : ~ InLoop(q)) => Content = Bytes(p) /\ Position = Places(p)

LEMMA View == FileInv => Views
<1> SUFFICES ASSUME FileInv, NEW p \in Procs, \A q \in Procs \ {p} : ~ InLoop(q)
             PROVE  Content = Bytes(p) /\ Position = Places(p)
  BY DEF Views
<1>1. Types /\ size \in Int
  BY Before DEF FileInv, Types
<1>2. CASE ~ InLoop(p)
  <2>1. {q \in Procs : InLoop(q)} = {} /\ \A f \in File : Movers(f) = {}
    BY <1>2 DEF Movers
  <2>2. Content = [x \in 1 .. Max({size}) |-> data[x - 1]]
    <3>1. {size} \cup {Here(q) : q \in {r \in Procs : InLoop(r)}} = {size}
      BY <2>1
    <3> QED
      BY <3>1 DEF Content
  <2>3. \A f \in File : {off[f]} \cup {Here(q) : q \in Movers(f)} = {off[f]}
    BY <2>1
  <2>4. Max({size}) = size /\ \A f \in File : Max({off[f]}) = off[f]
    <3>1. \A n \in Int : Max({n}) = n
      BY DEF Max
    <3> QED
      BY <1>1, <3>1 DEF Types
  <2> QED
    BY <1>2, <2>2, <2>3, <2>4 DEF End, Position, Bytes, Places
<1>3. CASE InLoop(p)
  <2>1. /\ {q \in Procs : InLoop(q)} = {p}
        /\ \A f \in File : Movers(f) = IF call[p].f = f THEN {p} ELSE {}
    BY <1>3 DEF Movers
  <2>2. /\ call[p].f \in File /\ Here(p) \in Int /\ Here(p) > off[call[p].f]
    BY <1>3, Before DEF FileInv, CallOf, Types, InLoop, Here, OffsetOf
  <2>3. Max({size, Here(p)}) = End(p)
    <3>1. PICK a \in Int, b \in Int : a = size /\ b = Here(p)
      BY <1>1, <2>2
    <3>2. Max({a, b}) = IF b > a THEN b ELSE a
      <4>1. Max({a, b}) \in {a, b} /\ Max({a, b}) >= a /\ Max({a, b}) >= b
        BY <3>1, LargerOfTwo
      <4> QED
        BY <3>1, <4>1
    <3> QED
      BY <1>3, <3>1, <3>2 DEF End
  <2>4. Content = [x \in 1 .. End(p) |-> data[x - 1]]
    <3>1. {size} \cup {Here(q) : q \in {r \in Procs : InLoop(r)}} = {size, Here(p)}
      BY <2>1
    <3> QED
      BY <2>3, <3>1 DEF Content
  <2>5. ASSUME NEW f \in File
        PROVE  Max({off[f]} \cup {Here(q) : q \in Movers(f)})
                   = IF call[p].f = f THEN Here(p) ELSE off[f]
    <3>1. CASE call[p].f = f
      <4>1. {off[f]} \cup {Here(q) : q \in Movers(f)} = {off[f], Here(p)}
        BY <2>1, <3>1
      <4>2. PICK a \in Int, b \in Int : a = off[f] /\ b = Here(p) /\ b > a
        BY <1>1, <2>2, <3>1 DEF Types
      <4>3. Max({a, b}) = b
        BY <4>2, LargerOfTwo
      <4> QED
        BY <3>1, <4>1, <4>2, <4>3
    <3>2. CASE call[p].f # f
      <4>1. {off[f]} \cup {Here(q) : q \in Movers(f)} = {off[f]}
        BY <2>1, <3>2
      <4>2. PICK a \in Int : a = off[f]
        BY <1>1 DEF Types
      <4>3. Max({a}) = a
        BY DEF Max
      <4> QED
        BY <3>2, <4>1, <4>2, <4>3
    <3> QED
      BY <3>1, <3>2
  <2> QED
    BY <1>3, <2>4, <2>5 DEF Position, Bytes, Places
<1> QED
  BY <1>2, <1>3

LEMMA ViewPrimed == FileInv' => Views'
BY View, PTL

LEMMA ViewAfter ==
    ASSUME FileInv', NEW p \in Procs, \A q \in Procs \ {p} : ~ InLoop(q)'
    PROVE  Content' = Bytes(p)' /\ Position' = Places(p)'
<1>1. Views'
  BY ViewPrimed
<1> QED
  BY <1>1 DEF Views

-----------------------------------------------------------------------------
(***************************************************************************)
(* The steps of FileIO as steps of ByteFile                                *)
(***************************************************************************)

MovedOf(p) ==
    IF at[p] \in {"write", "update", "wend"} /\ tot[p] > 0 THEN call[p].i + tot[p] ELSE call[p].i

Untouched(p) ==
    \A q \in Procs \ {p} : at'[q] = at[q] /\ call'[q] = call[q] /\ tot'[q] = tot[q]

LEMMA MovedByOthers ==
    ASSUME NEW p \in Procs, Untouched(p)
    PROVE  /\ Moved = [q \in Procs |-> MovedOf(q)]
           /\ Moved' = [q \in Procs |-> IF q = p THEN MovedOf(p)' ELSE MovedOf(q)]
<1>1. Moved = [q \in Procs |-> MovedOf(q)] /\ Moved' = [q \in Procs |-> MovedOf(q)']
  BY DEF Moved, MovedOf
<1>2. \A q \in Procs \ {p} : MovedOf(q)' = MovedOf(q)
  BY DEF MovedOf, Untouched
<1> QED
  BY <1>1, <1>2

\* The process in the lock is the only one in a loop, before its step and after.
LEMMA HolderViews ==
    ASSUME FileInv, FileInv', NEW p \in Procs, at[p] \in Inside, Untouched(p)
    PROVE  /\ Content = Bytes(p) /\ Position = Places(p)
           /\ Content' = Bytes(p)' /\ Position' = Places(p)'
<1>1. \A q \in Procs \ {p} : ~ InLoop(q)
  BY Before DEF FileInv, CallOf, InLoop, Inside
<1>2. \A q \in Procs \ {p} : ~ InLoop(q)'
  BY <1>1 DEF Untouched, InLoop
<1>3. Views
  BY View
<1> QED
  BY <1>1, <1>2, <1>3, ViewAfter DEF Views

\* Steps that move nothing.
LEMMA QuietView ==
    ASSUME NEW p \in Procs, Untouched(p), UNCHANGED <<data, size, off>>,
           InLoop(p)' <=> InLoop(p),
           InLoop(p) => call'[p].f = call[p].f /\ tot'[p] = tot[p]
    PROVE  UNCHANGED <<Content, Position>>
<1>1. ASSUME NEW q \in Procs
      PROVE  /\ InLoop(q)' <=> InLoop(q)
             /\ InLoop(q) => call'[q].f = call[q].f /\ Here(q)' = Here(q)
  <2>1. InLoop(q)' <=> InLoop(q)
    BY DEF Untouched, InLoop
  <2>2. ASSUME InLoop(q) PROVE call'[q].f = call[q].f /\ tot'[q] = tot[q]
    BY <2>2 DEF Untouched
  <2> QED
    BY <2>1, <2>2 DEF Here, OffsetOf
<1>2. Content' = Content
  <2>1. {Here(q) : q \in {r \in Procs : InLoop(r)}}' = {Here(q) : q \in {r \in Procs : InLoop(r)}}
    BY <1>1
  <2> QED
    BY <2>1 DEF Content
<1>3. Position' = Position
  <2>1. ASSUME NEW f \in File
        PROVE  {Here(q) : q \in Movers(f)}' = {Here(q) : q \in Movers(f)}
    BY <1>1 DEF Movers
  <2> QED
    BY <2>1 DEF Position
<1> QED
  BY <1>2, <1>3

LEMMA QuietKeeps ==
    ASSUME NEW p \in Procs, Untouched(p), UNCHANGED <<data, size, off, got>>,
           InLoop(p)' <=> InLoop(p),
           InLoop(p) => call'[p].f = call[p].f /\ tot'[p] = tot[p],
           MovedOf(p)' = MovedOf(p)
    PROVE  UNCHANGED <<Content, Position, Moved, got>>
<1>1. UNCHANGED <<Content, Position>>
  BY QuietView
<1>2. Moved' = Moved
  BY MovedByOthers
<1> QED
  BY <1>1, <1>2

LEMMA StartStutters ==
    ASSUME FileInv, NEW p \in Procs, Untouched(p), NEW f \in File, NEW n \in Count,
           StartWrite(p, f, n) \/ StartRead(p, f, n)
    PROVE  UNCHANGED <<Content, Position, Moved, got>>
<1>1. /\ at[p] = "idle" /\ at'[p] \in {"begin", "rlock"} /\ call[p].i = 0 /\ call'[p].i = 0
      /\ UNCHANGED <<data, size, off, got>>
  <2>1. CallInFile(p) /\ at \in [Procs -> AtSet] /\ call \in [Procs -> CallSet]
    BY Before DEF FileInv, Types
  <2>2. CASE StartWrite(p, f, n)
    BY <2>1, <2>2 DEF StartWrite, CallInFile, Goes, file, moves
  <2>3. CASE StartRead(p, f, n)
    <3>1. [NoCall EXCEPT !.f = f, !.n = U32(n)].i = 0
      BY DEF NoCall
    <3> QED
      BY <2>1, <2>3, <3>1 DEF StartRead, CallInFile, Goes, file, moves
  <2> QED
    BY <2>2, <2>3
<1>2. ~ InLoop(p) /\ ~ InLoop(p)' /\ MovedOf(p)' = MovedOf(p)
  BY <1>1 DEF InLoop, MovedOf
<1> QED
  BY <1>1, <1>2, QuietKeeps

LEMMA LockStutters ==
    ASSUME FileInv, NEW p \in Procs, Untouched(p),
           BeginOp(p) \/ LockToWrite(p) \/ LockToRead(p)
    PROVE  UNCHANGED <<Content, Position, Moved, got>>
<1>1. /\ at[p] \in {"begin", "wlock", "rlock"} /\ UNCHANGED <<data, size, off, got>>
      /\ call'[p].i = call[p].i /\ ~ tot'[p] > 0
  <2>1. /\ at[p] \in {"begin", "wlock", "rlock"} => tot[p] = 0
        /\ call \in [Procs -> CallSet] /\ tot \in [Procs -> Int]
    BY Before DEF FileInv, CallOf, Types, Inside
  <2>2. CASE BeginOp(p)
    BY <2>1, <2>2 DEF BeginOp, file, moves
  <2>3. CASE LockToWrite(p)
    BY <2>1, <2>3 DEF LockToWrite, file
  <2>4. CASE LockToRead(p)
    BY <2>1, <2>4 DEF LockToRead, file, moves, CallSet
  <2> QED
    BY <2>2, <2>3, <2>4
<1>2. ~ InLoop(p) /\ ~ InLoop(p)' /\ MovedOf(p)' = MovedOf(p)
  BY <1>1 DEF InLoop, MovedOf
<1> QED
  BY <1>1, <1>2, QuietKeeps

LEMMA LoopEndStutters ==
    ASSUME FileInv, NEW p \in Procs, Untouched(p), WriteLoopEnds(p) \/ ReadLoopEnds(p)
    PROVE  UNCHANGED <<Content, Position, Moved, got>>
<1>1. /\ \/ at[p] = "write" /\ at'[p] = "update"
         \/ at[p] = "read" /\ at'[p] = "rend"
      /\ UNCHANGED <<data, size, off, got, call, tot>>
  BY Before DEF FileInv, Types, WriteLoopEnds, ReadLoopEnds, Goes, file, moves
<1>2. (InLoop(p)' <=> InLoop(p)) /\ MovedOf(p)' = MovedOf(p)
  BY <1>1 DEF InLoop, MovedOf
<1> QED
  BY <1>1, <1>2, QuietKeeps

\* What inode_write moved was in the file before the size says so.
LEMMA UpdateStutters ==
    ASSUME FileInv, FileInv', NEW p \in Procs, Untouched(p), Update(p)
    PROVE  UNCHANGED <<Content, Position, Moved, got>>
<1>1. /\ at[p] = "update" /\ at'[p] = "wend" /\ at[p] \in Inside
      /\ UNCHANGED <<data, off, call, tot, got>>
      /\ Here(p)' = Here(p) /\ tot[p] \in Int /\ tot[p] >= 0 /\ OffsetOf(p) \in Int
  BY Before DEF FileInv, Types, CallOf, Update, Goes, OffsetOf, Here, moves, Inside
<1>2. (InLoop(p)' <=> InLoop(p)) /\ MovedOf(p)' = MovedOf(p)
  BY <1>1 DEF InLoop, MovedOf
<1>3. /\ size' \in {size, Here(p)} /\ size' >= size /\ size' >= Here(p)
      /\ Here(p) \in Int /\ size \in Int
  BY SizeAfter DEF FileInv
<1>4. End(p)' = End(p)
  <2>1. CASE InLoop(p)
    BY <1>1, <1>2, <1>3, <2>1 DEF End
  <2>2. CASE ~ InLoop(p)
    <3>1. Here(p) <= size
      <4>1. tot[p] = 0 /\ OffsetOf(p) <= size
        BY <1>1, <2>2 DEF InLoop, FileInv, CallInFile
      <4> QED
        BY <1>1, <4>1 DEF Here
    <3> QED
      BY <1>2, <1>3, <2>2, <3>1 DEF End
  <2> QED
    BY <2>1, <2>2
<1>5. Content' = Content /\ Position' = Position
  <2>1. Bytes(p)' = Bytes(p)
    BY <1>1, <1>4 DEF Bytes
  <2>2. Places(p)' = Places(p)
    BY <1>1, <1>2 DEF Places
  <2> QED
    BY <1>1, <2>1, <2>2, HolderViews
<1>6. Moved' = Moved
  BY <1>2, MovedByOthers
<1> QED
  BY <1>1, <1>5, <1>6

\* The offset takes over what the loop counted.
LEMMA OffsetTakesOver ==
    ASSUME FileInv, FileInv', NEW p \in Procs, Untouched(p), at[p] \in {"wend", "rend"},
           UNCHANGED <<data, size>>, ~ InLoop(p)',
           off' = [off EXCEPT ![call[p].f] = Advanced(p, @, tot[p])]
    PROVE  UNCHANGED <<Content, Position>>
<1>1. /\ at[p] \in Inside /\ off \in [File -> Nat] /\ call[p].f \in File
      /\ Here(p) = off[call[p].f] + tot[p] /\ tot[p] \in Int /\ size \in Int
      /\ InLoop(p) <=> tot[p] > 0
  BY Before DEF FileInv, Types, CallOf, OffsetOf, Here, Inside, InLoop
<1>2. End(p) = size /\ End(p)' = size
  BY <1>1 DEF End, FileInv, CallInFile
<1>3. Content' = Content
  <2>1. Bytes(p)' = Bytes(p)
    BY <1>2 DEF Bytes
  <2> QED
    BY <1>1, <2>1, HolderViews
<1>4. ASSUME NEW f \in File
      PROVE  off'[f] = IF InLoop(p) /\ call[p].f = f THEN Here(p) ELSE off[f]
  BY <1>1 DEF Advanced
<1>5. Position' = Position
  <2>1. Places(p)' = [f \in File |-> off'[f]]
    BY DEF Places
  <2>2. Places(p)' = Places(p)
    BY <1>4, <2>1 DEF Places
  <2> QED
    BY <1>1, <2>2, HolderViews
<1> QED
  BY <1>3, <1>5

LEMMA UnlockWrittenStutters ==
    ASSUME FileInv, FileInv', NEW p \in Procs, Untouched(p), UnlockWritten(p)
    PROVE  UNCHANGED <<Content, Position, Moved, got>>
<1>1. /\ at[p] = "wend" /\ at'[p] = "log_end" /\ UNCHANGED <<data, size, got>>
      /\ off' = [off EXCEPT ![call[p].f] = Advanced(p, @, tot[p])]
      /\ call'[p].i = IF tot[p] > 0 THEN call[p].i + tot[p] ELSE call[p].i
  BY Before DEF FileInv, Types, CallSet, UnlockWritten, Goes, file
<1>2. ~ InLoop(p)' /\ MovedOf(p)' = MovedOf(p)
  BY <1>1 DEF InLoop, MovedOf
<1>3. UNCHANGED <<Content, Position>>
  BY <1>1, <1>2, OffsetTakesOver
<1>4. Moved' = Moved
  BY <1>2, MovedByOthers
<1> QED
  BY <1>1, <1>3, <1>4

\* A call that returns.
LEMMA ReturnEnds ==
    ASSUME FileInv, NEW p \in Procs, Untouched(p), UNCHANGED <<Content, Position>>,
           MovedOf(p)' = 0, got' = [got EXCEPT ![p] = <<>>]
    PROVE  A!End(p)
<1>1. Moved' = [Moved EXCEPT ![p] = 0]
  BY MovedByOthers
<1> QED
  BY <1>1 DEF A!End

LEMMA EndOpEnds ==
    ASSUME FileInv, NEW p \in Procs, Untouched(p), EndOp(p)
    PROVE  A!End(p) \/ UNCHANGED <<Content, Position, Moved, got>>
<1>1. /\ at[p] = "log_end" /\ UNCHANGED <<data, size, off, got>>
      /\ \/ at'[p] = "begin" /\ call'[p].i = call[p].i
         \/ at'[p] = "idle" /\ call'[p] = NoCall
  BY Before DEF FileInv, Types, CallSet, EndOp, Goes, file, moves
<1>2. ~ InLoop(p) /\ ~ InLoop(p)'
  BY <1>1 DEF InLoop
<1>3. CASE at'[p] = "begin" /\ call'[p].i = call[p].i
  <2>1. MovedOf(p)' = MovedOf(p)
    BY <1>1, <1>3 DEF MovedOf
  <2> QED
    BY <1>1, <1>2, <2>1, QuietKeeps
<1>4. CASE at'[p] = "idle" /\ call'[p] = NoCall
  <2>1. MovedOf(p)' = 0
    BY <1>4 DEF MovedOf, NoCall
  <2>2. got' = [got EXCEPT ![p] = <<>>]
    <3>1. got = [q \in Procs |-> got[q]] /\ got[p] = <<>>
      BY <1>1 DEF FileInv, CallInFile
    <3> QED
      BY <1>1, <3>1
  <2>3. UNCHANGED <<Content, Position>>
    BY <1>1, <1>2, QuietView
  <2> QED
    BY <2>1, <2>2, <2>3, ReturnEnds
<1> QED
  BY <1>1, <1>3, <1>4

LEMMA UnlockReadEnds ==
    ASSUME FileInv, FileInv', NEW p \in Procs, Untouched(p), UnlockRead(p) PROVE A!End(p)
<1>1. /\ at[p] = "rend" /\ at'[p] = "idle" /\ UNCHANGED <<data, size>>
      /\ off' = [off EXCEPT ![call[p].f] = Advanced(p, @, tot[p])]
      /\ call'[p] = NoCall /\ got' = [got EXCEPT ![p] = <<>>]
  BY Before DEF FileInv, Types, UnlockRead, Goes, file
<1>2. ~ InLoop(p)' /\ MovedOf(p)' = 0
  BY <1>1 DEF InLoop, MovedOf, NoCall
<1>3. UNCHANGED <<Content, Position>>
  BY <1>1, <1>2, OffsetTakesOver
<1> QED
  BY <1>1, <1>2, <1>3, ReturnEnds

\* A turn of p's loop over n bytes, seen from the file: m bytes from h on, in
\* one of e bytes.
TurnView(p, n, f, h, m, e) ==
    /\ f = call[p].f /\ h = Here(p) /\ m = Turn(p, n) /\ e = End(p) /\ m > 0
    /\ h <= e /\ h + m <= BSIZE * blocks /\ tot[p] + m <= n
    /\ End(p)' = IF h + m > e THEN h + m ELSE e
    /\ Content = Bytes(p) /\ Content' = Bytes(p)'
    /\ Position[f] = h /\ Position' = [Position EXCEPT ![f] = @ + m]

LEMMA TurnViews ==
    ASSUME FileInv, FileInv', NEW p \in Procs, Untouched(p), at[p] \in {"write", "read"},
           UNCHANGED <<size, off, at, call>>, NEW n \in Int, tot[p] < n,
           HasBlock(BlockNo(p)), tot' = [tot EXCEPT ![p] = @ + Turn(p, n)]
    PROVE  \E f \in File, h \in Nat, m \in Nat, e \in Nat :
               TurnView(p, n, f, h, m, e)
<1>1. /\ CallInFile(p) /\ IOInv /\ at[p] \in Inside /\ call[p].f \in File /\ size \in Nat
      /\ tot \in [Procs -> Int]
  BY Before DEF FileInv, Types, CallOf, Inside
<1>2. PICK f \in File, h \in Nat, m \in Nat :
          /\ f = call[p].f /\ h = Here(p) /\ m = Turn(p, n) /\ m > 0
          /\ tot[p] \in Nat /\ OffsetOf(p) \in Nat /\ h = OffsetOf(p) + tot[p]
          /\ h + m <= BSIZE * blocks /\ tot[p] + m <= n
  BY <1>1, TurnReaches, TurnMoves
<1>3. OffsetOf(p) <= size /\ OffsetOf(p) = off[f]
  BY <1>1, <1>2 DEF CallInFile, OffsetOf
<1>4. tot'[p] = tot[p] + m /\ Here(p)' = h + m
  BY <1>1, <1>2 DEF Here, OffsetOf
<1>5. InLoop(p)' /\ (InLoop(p) <=> tot[p] > 0)
  BY <1>1, <1>2, <1>4 DEF InLoop, Inside
<1>6. PICK e \in Nat : e = End(p) /\ h <= e /\ (e = h \/ e = size) /\ size <= e
  <2>1. CASE InLoop(p)
    BY <1>1, <1>2, <2>1 DEF End
  <2>2. CASE ~ InLoop(p)
    BY <1>1, <1>2, <1>3, <1>5, <2>2 DEF End
  <2> QED
    BY <2>1, <2>2
<1>7. End(p)' = IF h + m > e THEN h + m ELSE e
  <2>1. End(p)' = IF h + m > size THEN h + m ELSE size
    BY <1>4, <1>5 DEF End
  <2> QED
    BY <1>1, <1>2, <1>6, <2>1
<1>8. Position = [g \in File |-> IF f = g THEN h ELSE off[g]]
  <2>1. \A g \in File : (IF InLoop(p) /\ call[p].f = g THEN Here(p) ELSE off[g])
                               = IF f = g THEN h ELSE off[g]
    BY <1>2, <1>3, <1>5
  <2>2. Places(p) = [g \in File |-> IF f = g THEN h ELSE off[g]]
    BY <2>1 DEF Places
  <2> QED
    BY <1>1, <2>2, HolderViews
<1>9. Position' = [g \in File |-> IF f = g THEN h + m ELSE off[g]]
  <2>1. Places(p)' = [g \in File |-> IF f = g THEN h + m ELSE off[g]]
    BY <1>2, <1>4, <1>5 DEF Places
  <2> QED
    BY <1>1, <2>1, HolderViews
<1>10. Position[f] = h /\ Position' = [Position EXCEPT ![f] = @ + m]
  BY <1>8, <1>9
<1>11. Content = Bytes(p) /\ Content' = Bytes(p)'
  BY <1>1, HolderViews
<1> QED
  BY <1>2, <1>6, <1>7, <1>10, <1>11 DEF TurnView

\* Up to its last block the file is in the model's data.
LEMMA BlocksInData ==
    ASSUME FileInv, NEW x \in Nat, x < BSIZE * blocks PROVE x \in Pos
<1>1. blocks \in Nat /\ blocks <= MAXFILE /\ MAXFILE \in Nat
  BY FileIOAssumption DEF FileInv, DirectFile, IOInv, Types, MAXFILE
<1>2. BSIZE * blocks <= BSIZE * MAXFILE
  BY <1>1, TimesMonotone
<1>3. /\ BSIZE * MAXFILE = MAXFILE * BSIZE /\ BSIZE * MAXFILE \in Nat /\ BSIZE * blocks \in Nat
  BY <1>1, BlockPositive
<1> QED
  BY <1>2, <1>3 DEF Pos

LEMMA WritePuts ==
    ASSUME FileInv, FileInv', NEW p \in Procs, Untouched(p), WriteBlock(p)
    PROVE  \E f \in File : A!Put(p, f, Position'[f] - Position[f])
<1>1. /\ at[p] = "write" /\ tot[p] < call[p].n1 /\ HasBlock(BlockNo(p))
      /\ tot' = [tot EXCEPT ![p] = @ + Turn(p, call[p].n1)]
      /\ data' = [x \in Pos |->
                     IF Here(p) <= x /\ x < Here(p) + Turn(p, call[p].n1)
                     THEN <<p, call[p].i + tot[p] + x - Here(p) + 1>> ELSE data[x]]
      /\ UNCHANGED <<size, off, at, call, got>>
  BY DEF WriteBlock
<1>2. /\ IOInv /\ call[p].n1 \in Int /\ call[p].i \in Int /\ tot \in [Procs -> Int]
      /\ tot[p] \in Nat /\ size <= BSIZE * blocks /\ size \in Nat
  BY <1>1, Before DEF FileInv, Types, CallSet, CallOf
<1>3. PICK f \in File, h \in Nat, m \in Nat, e \in Nat : TurnView(p, call[p].n1, f, h, m, e)
  BY <1>1, <1>2, TurnViews
<1>4. /\ h = Here(p) /\ m = Turn(p, call[p].n1) /\ e = End(p) /\ m > 0
      /\ h <= e /\ h + m <= BSIZE * blocks
      /\ End(p)' = IF h + m > e THEN h + m ELSE e
  BY <1>3 DEF TurnView
<1>5. /\ Content = [x \in 1 .. e |-> data[x - 1]]
      /\ Content' = [x \in 1 .. End(p)' |-> data'[x - 1]]
  BY <1>3 DEF TurnView, Bytes
<1>6. Position[f] = h /\ Position' = [Position EXCEPT ![f] = @ + m]
  BY <1>3 DEF TurnView
<1>7. PICK i \in Int : i = MovedOf(p) /\ i = call[p].i + tot[p]
  BY <1>1, <1>2 DEF MovedOf
<1>8. Moved[p] = i /\ Moved' = [Moved EXCEPT ![p] = @ + m]
  <2>1. tot'[p] = tot[p] + m
    BY <1>1, <1>2, <1>4
  <2>2. tot'[p] > 0 /\ call[p].i + tot'[p] = i + m
    BY <1>2, <1>4, <1>7, <2>1
  <2>3. MovedOf(p)' = i + m
    BY <1>1, <2>2 DEF MovedOf
  <2>4. Moved = [q \in Procs |-> MovedOf(q)]
    BY MovedByOthers
  <2>5. Moved' = [q \in Procs |-> IF q = p THEN MovedOf(p)' ELSE MovedOf(q)]
    BY MovedByOthers
  <2> QED
    BY <1>7, <2>3, <2>4, <2>5
<1>9. ASSUME NEW x \in 1 .. End(p)'
      PROVE  data'[x - 1] = IF h < x /\ x <= h + m THEN <<p, i + x - h>> ELSE Content[x]
  <2>1. BSIZE * blocks \in Nat
    BY <1>2, BlockPositive, Before DEF Types
  <2>2. End(p)' \in Nat /\ End(p)' <= BSIZE * blocks
    <3>1. e = size \/ e = h
      BY <1>4 DEF End
    <3> QED
      BY <1>2, <1>4, <2>1, <3>1
  <2>3. x \in Nat /\ x - 1 \in Nat /\ x - 1 < BSIZE * blocks
    BY <2>1, <2>2
  <2>4. x - 1 \in Pos
    BY <1>2, <2>3, BlocksInData
  <2>5. data'[x - 1] = IF h <= x - 1 /\ x - 1 < h + m
                       THEN <<p, call[p].i + tot[p] + (x - 1) - h + 1>> ELSE data[x - 1]
    BY <1>1, <1>4, <2>4
  <2>6. (h <= x - 1 /\ x - 1 < h + m) <=> (h < x /\ x <= h + m)
    BY <2>3
  <2>7. call[p].i + tot[p] + (x - 1) - h + 1 = i + x - h
    BY <1>2, <1>7, <2>3
  <2>8. ASSUME ~ (h < x /\ x <= h + m) PROVE Content[x] = data[x - 1]
    <3>1. x \in 1 .. e
      BY <1>4, <2>2, <2>3, <2>8
    <3> QED
      BY <1>5, <3>1
  <2> QED
    BY <2>5, <2>6, <2>7, <2>8
<1>10. Len(Content) = e
  BY <1>5
<1>11. Content' = [x \in 1 .. (IF h + m > e THEN h + m ELSE e) |->
                     IF h < x /\ x <= h + m THEN <<p, i + x - h>> ELSE Content[x]]
  BY <1>4, <1>5, <1>9
<1>12. A!Put(p, f, m)
  <2>1. m > 0 /\ Position[f] <= Len(Content)
    BY <1>4, <1>6, <1>10
  <2>2. Content' = [x \in 1 .. (IF Position[f] + m > Len(Content) THEN Position[f] + m
                                ELSE Len(Content)) |->
                       IF Position[f] < x /\ x <= Position[f] + m
                       THEN A!Byte(p, Moved[p] + x - Position[f]) ELSE Content[x]]
    <3>1. Position[f] = h /\ Moved[p] = i
      BY <1>6, <1>8
    <3>2. Content' = [x \in 1 .. (IF Position[f] + m > Len(Content) THEN Position[f] + m
                                  ELSE Len(Content)) |->
                         IF Position[f] < x /\ x <= Position[f] + m
                         THEN <<p, Moved[p] + x - Position[f]>> ELSE Content[x]]
      BY <1>10, <1>11, <3>1, Zenon
    <3> QED
      BY <3>2, Zenon DEF A!Byte
  <2> QED
    BY <1>1, <1>6, <1>8, <2>1, <2>2 DEF A!Put
<1>13. Position'[f] - Position[f] = m
  <2>1. Position'[f] = h + m
    BY <1>6 DEF Position
  <2> QED
    BY <1>6, <2>1
<1> QED
  BY <1>12, <1>13

LEMMA ReadGets ==
    ASSUME FileInv, FileInv', NEW p \in Procs, Untouched(p), ReadBlock(p)
    PROVE  \E f \in File : A!Get(p, f, Position'[f] - Position[f])
<1>1. /\ at[p] = "read" /\ tot[p] < call[p].n /\ HasBlock(BlockNo(p))
      /\ tot' = [tot EXCEPT ![p] = @ + Turn(p, call[p].n)]
      /\ got' = [got EXCEPT ![p] = @ \o [j \in 1 .. Turn(p, call[p].n) |-> data[Here(p) + j - 1]]]
      /\ UNCHANGED <<data, size, off, at, call>>
  BY DEF ReadBlock, file
<1>2. /\ IOInv /\ CallInFile(p) /\ call[p].n \in Int /\ tot[p] \in Nat /\ size \in Nat
      /\ OffsetOf(p) \in Nat
  BY <1>1, Before DEF FileInv, Types, CallSet, CallOf, OffsetOf
<1>3. PICK f \in File, h \in Nat, m \in Nat, e \in Nat : TurnView(p, call[p].n, f, h, m, e)
  BY <1>1, <1>2, TurnViews
<1>4. /\ h = Here(p) /\ m = Turn(p, call[p].n) /\ e = End(p) /\ m > 0
      /\ h <= e /\ tot[p] + m <= call[p].n
      /\ End(p)' = IF h + m > e THEN h + m ELSE e
  BY <1>3 DEF TurnView
<1>5. /\ Content = [x \in 1 .. e |-> data[x - 1]]
      /\ Content' = [x \in 1 .. End(p)' |-> data'[x - 1]]
  BY <1>3 DEF TurnView, Bytes
<1>6. Position[f] = h /\ Position' = [Position EXCEPT ![f] = @ + m]
  BY <1>3 DEF TurnView
<1>7. h + m <= e
  <2>1. OffsetOf(p) + call[p].n <= size
    BY <1>1, <1>2 DEF CallInFile
  <2>2. h = OffsetOf(p) + tot[p]
    BY <1>4 DEF Here
  <2>3. size <= e
    BY <1>2, <1>4 DEF End
  <2> QED
    BY <1>2, <1>4, <2>1, <2>2, <2>3
<1>8. Content' = Content
  <2>1. End(p)' = e
    BY <1>4, <1>7
  <2> QED
    BY <1>1, <1>5, <2>1
<1>9. SubSeq(Content, h + 1, h + m) = [j \in 1 .. m |-> data[h + j - 1]]
  <2>1. PICK s : s = SubSeq(Content, h + 1, h + m)
    OBVIOUS
  <2>2. PICK S : \A x \in h + 1 .. h + m : Content[x] \in S
    <3>1. \A x \in h + 1 .. h + m : Content[x] \in {Content[y] : y \in h + 1 .. h + m}
      OBVIOUS
    <3> QED
      BY <3>1
  <2>3. PICK a \in Int, b \in Int : a = h + 1 /\ b = h + m
    OBVIOUS
  <2>4. s \in Seq(S) /\ Len(s) = (IF a <= b THEN b - a + 1 ELSE 0)
        /\ \A j \in 1 .. b - a + 1 : s[j] = Content[a + j - 1]
    <3>1. s = SubSeq(Content, a, b) /\ \A x \in a .. b : Content[x] \in S
      BY <2>1, <2>2, <2>3
    <3> QED
      BY <3>1, SubSeqProperties
  <2>5. b - a + 1 = m /\ a <= b
    BY <1>4, <2>3
  <2>6. Len(s) = m
    BY <2>4, <2>5
  <2>7. ASSUME NEW j \in 1 .. m PROVE s[j] = data[h + j - 1]
    <3>1. s[j] = Content[a + j - 1]
      BY <2>4, <2>5
    <3>2. PICK x : x = h + j
      OBVIOUS
    <3>3. x \in 1 .. e /\ a + j - 1 = x /\ x - 1 = h + j - 1
      BY <1>7, <2>3, <3>2
    <3>4. Content[x] = data[x - 1]
      BY <1>5, <3>3
    <3> QED
      BY <3>1, <3>3, <3>4
  <2>8. s = [j \in 1 .. m |-> s[j]]
    BY <2>4, <2>6
  <2> QED
    BY <2>1, <2>7, <2>8
<1>10. Moved' = Moved
  <2>1. MovedOf(p)' = MovedOf(p)
    BY <1>1 DEF MovedOf
  <2>2. Moved = [q \in Procs |-> MovedOf(q)]
    BY MovedByOthers
  <2>3. Moved' = [q \in Procs |-> IF q = p THEN MovedOf(p)' ELSE MovedOf(q)]
    BY MovedByOthers
  <2> QED
    BY <2>1, <2>2, <2>3
<1>11. A!Get(p, f, m)
  <2>1. Position[f] + m <= Len(Content)
    <3>1. Len(Content) = e
      BY <1>5
    <3> QED
      BY <1>6, <1>7, <3>1
  <2>2. got' = [got EXCEPT ![p] = @ \o SubSeq(Content, Position[f] + 1, Position[f] + m)]
    <3>1. got' = [got EXCEPT ![p] = @ \o [j \in 1 .. m |-> data[h + j - 1]]]
      BY <1>1, <1>4
    <3> QED
      BY <1>6, <1>9, <3>1
  <2> QED
    BY <1>4, <1>6, <1>8, <1>10, <2>1, <2>2 DEF A!Get
<1>12. Position'[f] - Position[f] = m
  <2>1. Position'[f] = h + m
    BY <1>6 DEF Position
  <2> QED
    BY <1>6, <2>1
<1> QED
  BY <1>11, <1>12

-----------------------------------------------------------------------------
LEMMA InitImplements == Init /\ DirectFile => A!Init
<1> SUFFICES ASSUME Init, DirectFile PROVE A!Init
  OBVIOUS
<1>1. FileInv /\ \A p \in Procs : ~ InLoop(p)
  BY InitFileInv DEF Init, InLoop
<1>2. \A f \in File : {off[f]} \cup {Here(p) : p \in Movers(f)} = {0}
  BY <1>1 DEF Init, Movers
<1>3. {size} \cup {Here(p) : p \in {q \in Procs : InLoop(q)}} = {size}
  BY <1>1
<1>4. \A n \in Int : Max({n}) = n
  BY DEF Max
<1>5. Position = [f \in File |-> 0]
  BY <1>2, <1>4 DEF Position
<1>6. size \in Nat /\ Max({size}) = size
  BY <1>1, <1>4 DEF FileInv, IOInv, Types
<1>7. Content = [x \in 1 .. size |-> data[x - 1]]
  BY <1>3, <1>6 DEF Content
<1>8. ASSUME NEW x \in 1 .. size PROVE data[x - 1] \in {Nobody} \X Nat
  <2>1. x - 1 \in Nat /\ x \in Nat /\ x - 1 < size
    BY <1>6
  <2>2. blocks \in Nat /\ BSIZE * blocks \in Nat /\ size <= BSIZE * blocks
    BY <1>1, BlockPositive DEF FileInv, IOInv, Types
  <2>3. x - 1 < BSIZE * blocks
    BY <1>6, <2>1, <2>2
  <2>4. x - 1 \in Pos
    BY <1>1, <2>1, <2>3, BlocksInData
  <2>5. data[x - 1] = <<Nobody, (x - 1) + 1>>
    BY <2>4 DEF Init
  <2>6. (x - 1) + 1 \in Nat
    BY <2>1
  <2> QED
    BY <2>5, <2>6
<1>9. Content \in Seq({Nobody} \X Nat)
  BY <1>6, <1>7, <1>8
<1>10. Moved = [p \in Procs |-> 0]
  BY DEF Init, Moved, NoCall
<1>11. got = [p \in Procs |-> <<>>]
  BY DEF Init
<1> QED
  BY <1>5, <1>9, <1>10, <1>11 DEF A!Init

LEMMA StepImplements ==
    ASSUME FileInv, FileInv', [Next]_vars
    PROVE  [A!Next]_<<Content, Position, Moved, got>>
<1>1. CASE UNCHANGED vars
  <2>1. UNCHANGED <<data, size, off, at, call, tot, got>>
    BY <1>1 DEF vars
  <2>2. UNCHANGED <<Content, Position, Moved>>
    BY <2>1 DEF Content, Position, Moved, Movers, InLoop, Here, OffsetOf
  <2> QED
    BY <2>1, <2>2
<1>2. CASE Next
  <2>1. PICK p \in Procs : StepOf(p)
    BY <1>2, NeverBeyond DEF Next, StepOf
  <2>2. Untouched(p)
    BY <2>1, OthersUntouched DEF FileInv, Untouched
  <2>3. CASE \/ \E f \in File, n \in Count : StartWrite(p, f, n) \/ StartRead(p, f, n)
             \/ BeginOp(p) \/ LockToWrite(p) \/ LockToRead(p) \/ WriteLoopEnds(p)
             \/ ReadLoopEnds(p) \/ Update(p) \/ UnlockWritten(p)
    BY <2>2, <2>3, StartStutters, LockStutters, LoopEndStutters, UpdateStutters,
       UnlockWrittenStutters
  <2>4. CASE WriteBlock(p)
    BY <2>2, <2>4, WritePuts DEF A!Next
  <2>5. CASE ReadBlock(p)
    BY <2>2, <2>5, ReadGets DEF A!Next
  <2>6. CASE EndOp(p) \/ UnlockRead(p)
    BY <2>2, <2>6, EndOpEnds, UnlockReadEnds DEF A!Next
  <2> QED
    BY <2>1, <2>3, <2>4, <2>5, <2>6 DEF StepOf
<1> QED
  BY <1>1, <1>2

\* However calls interleave and whatever blocks they cannot have, reading and
\* writing a file of direct blocks implement a sequence of bytes with one position
\* for each open file: no byte is lost, overwritten or read twice, and a call that
\* is cut short leaves the position behind the last byte that moved (file_read,
\* file_write, inode_read, inode_write).
THEOREM FileImplementsByteFile == Spec => IsByteFile
<1>1. Init => (DirectFile => A!Init)
  BY InitImplements
<1>2. FileInv /\ FileInv' /\ [Next]_vars => [DirectFile => A!Next]_<<Content, Position, Moved, got>>
  BY StepImplements
<1>3. ~ DirectFile => [DirectFile => A!Next]_<<Content, Position, Moved, got>>
  OBVIOUS
<1> QED
  BY <1>1, <1>2, <1>3, FileInvariance, StaysIndirect, PTL DEF Spec, IsByteFile

=============================================================================
