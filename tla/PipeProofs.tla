---------------------------- MODULE PipeProofs ----------------------------
(***************************************************************************)
(* A pipe is a bounded queue: Pipe implements Channel, for every size of   *)
(* the buffer and of the calls, every number of readers and writers.  The  *)
(* counters must not wrap, which pipe_read's loop does not allow for:      *)
(* fewer bytes than Width are written.                                     *)
(***************************************************************************)
EXTENDS Pipe, FiniteSetTheorems, SequenceTheorems, TLAPS

-----------------------------------------------------------------------------
(***************************************************************************)
(* Positions in the circular buffer                                        *)
(***************************************************************************)

LEMMA SizePositive == PIPESIZE \in Nat /\ PIPESIZE > 0
BY PipeAssumption

LEMMA ModIsIndex == ASSUME NEW x \in Int PROVE x % PIPESIZE \in Index
BY SizePositive DEF Index

LEMMA ModSmall == ASSUME NEW x \in 0 .. PIPESIZE - 1 PROVE x % PIPESIZE = x
BY SizePositive

LEMMA ModBelow == ASSUME NEW x \in (-PIPESIZE) .. (-1) PROVE x % PIPESIZE = x + PIPESIZE
BY SizePositive

LEMMA ModUnique ==
    ASSUME NEW x \in Int, NEW q \in Int, NEW r \in Index, x = PIPESIZE * q + r
    PROVE  x % PIPESIZE = r
BY SizePositive, Z3 DEF Index

LEMMA ModShift ==
    ASSUME NEW x \in Int, NEW q \in Int
    PROVE  (x + PIPESIZE * q) % PIPESIZE = x % PIPESIZE
<1>1. x = PIPESIZE * (x \div PIPESIZE) + (x % PIPESIZE) /\ x \div PIPESIZE \in Int
  BY SizePositive
<1>2. PICK d \in Int, r \in Index : x = PIPESIZE * d + r /\ r = x % PIPESIZE
  BY <1>1, ModIsIndex
<1>3. x + PIPESIZE * q = PIPESIZE * (d + q) + r
  BY <1>2, SizePositive DEF Index
<1>4. d + q \in Int /\ x + PIPESIZE * q \in Int
  BY SizePositive
<1> QED
  BY <1>2, <1>3, <1>4, ModUnique

LEMMA ModOfDifference ==
    ASSUME NEW x \in Int, NEW y \in Int
    PROVE  ((x % PIPESIZE) - y) % PIPESIZE = (x - y) % PIPESIZE
<1>1. x = PIPESIZE * (x \div PIPESIZE) + (x % PIPESIZE) /\ x \div PIPESIZE \in Int
  BY SizePositive
<1>2. PICK d \in Int, r \in Index : x = PIPESIZE * d + r /\ r = x % PIPESIZE
  BY <1>1, ModIsIndex
<1>3. r - y \in Int /\ x - y = (r - y) + PIPESIZE * d
  BY <1>2, SizePositive DEF Index
<1> QED
  BY <1>2, <1>3, ModShift

LEMMA NoWrap == ASSUME NEW x \in 0 .. Width - 1 PROVE x % Width = x
BY PipeAssumption

-----------------------------------------------------------------------------
(***************************************************************************)
(* Bytes that calls of pipe_write have still to copy                       *)
(***************************************************************************)

PendingOf(t) == {x \in Writers \X (Nat \ {0}) : x[2] <= Len(t[x[1]])}

\* k bytes of w, those behind the first n.
Behind(w, n, k) == {<<w, n + i>> : i \in 1 .. k}

LEMMA TailCounted ==
    ASSUME NEW w, NEW n \in Nat, NEW k \in Nat
    PROVE  IsFiniteSet(Behind(w, n, k)) /\ Cardinality(Behind(w, n, k)) = k
<1> DEFINE tail == Behind(w, n, k)
<1>1. PICK f : f = [i \in 1 .. k |-> <<w, n + i>>]
  OBVIOUS
<1>2. f \in [1 .. k -> tail]
  BY <1>1 DEF Behind
<1>3. IsInjective(f)
  BY <1>1 DEF IsInjective
<1>4. \A t \in tail : \E i \in 1 .. k : f[i] = t
  BY <1>1 DEF Behind
<1>5. ExistsBijection(1 .. k, tail)
  BY <1>2, <1>3, <1>4 DEF ExistsBijection, Bijection, Injection, Surjection
<1>6. IsFiniteSet(1 .. k) /\ Cardinality(1 .. k) = k
  BY FS_Interval
<1> QED
  BY <1>5, <1>6, FS_Bijection

LEMMA PendingShrinks ==
    ASSUME NEW t \in [Writers -> Seq(Byte)], NEW w \in Writers, NEW s \in Seq(Byte),
           NEW k \in Nat, Len(t[w]) = Len(s) + k
    PROVE  LET rest == PendingOf([t EXCEPT ![w] = s])
           IN  /\ IsFiniteSet(PendingOf(t)) <=> IsFiniteSet(rest)
               /\ IsFiniteSet(rest) => Cardinality(PendingOf(t)) = Cardinality(rest) + k
<1> DEFINE rest == PendingOf([t EXCEPT ![w] = s])
           n    == Len(s)
           D    == Behind(w, n, k)
<1>1. n \in Nat /\ Len(t[w]) = n + k
  BY LenProperties
<1>2. \A v \in Writers : Len(t[v]) \in Nat
  BY LenProperties
<1>3. PendingOf(t) = rest \cup D
  <2>1. \A x : x \in PendingOf(t) <=> x \in rest \/ x \in D
    <3> SUFFICES ASSUME NEW x PROVE x \in PendingOf(t) <=> x \in rest \/ x \in D
      OBVIOUS
    <3>1. ASSUME x \in D PROVE x \in PendingOf(t)
      BY <3>1, <1>1 DEF PendingOf, Behind
    <3>2. ASSUME x \in rest PROVE x \in PendingOf(t)
      BY <3>2, <1>1, <1>2 DEF PendingOf
    <3>3. ASSUME x \in PendingOf(t), x \notin rest PROVE x \in D
      <4>1. x \in Writers \X (Nat \ {0}) /\ x[2] <= Len(t[x[1]]) /\ x = <<x[1], x[2]>>
        BY <3>3 DEF PendingOf
      <4>2. x[1] = w /\ ~ x[2] <= n
        BY <3>3, <4>1 DEF PendingOf
      <4>3. x[2] - n \in 1 .. k /\ x = <<w, n + (x[2] - n)>>
        BY <4>1, <4>2, <1>1
      <4> QED
        BY <4>3 DEF Behind
    <3> QED
      BY <3>1, <3>2, <3>3
  <2> QED
    BY <2>1
<1>4. rest \cap D = {}
  BY <1>1 DEF PendingOf, Behind
<1>6. IsFiniteSet(D) /\ Cardinality(D) = k
  BY <1>1, TailCounted
<1> HIDE DEF rest, D
<1>7. IsFiniteSet(PendingOf(t)) => IsFiniteSet(rest)
  <2>1. rest \in SUBSET PendingOf(t)
    BY <1>3
  <2> QED
    BY <2>1, FS_Subset
<1>8. ASSUME IsFiniteSet(rest)
      PROVE  IsFiniteSet(PendingOf(t)) /\ Cardinality(PendingOf(t)) = Cardinality(rest) + k
  <2>1. /\ IsFiniteSet(PendingOf(t))
        /\ Cardinality(PendingOf(t)) = Cardinality(rest) + Cardinality(D) - Cardinality(rest \cap D)
    BY <1>8, <1>3, <1>6, FS_Union
  <2>2. Cardinality(rest \cap D) = 0 /\ Cardinality(rest) \in Nat
    BY <1>8, <1>4, FS_EmptySet, FS_CardinalityType
  <2> QED
    BY <2>1, <2>2, <1>6
<1> QED
  BY <1>7, <1>8 DEF rest

-----------------------------------------------------------------------------
(***************************************************************************)
(* The bytes between two counters                                          *)
(***************************************************************************)

\* n bytes of buffer d from position r on.
Between(d, r, n) == [i \in 1 .. n |-> d[(r + i - 1) % PIPESIZE]]

LEMMA BetweenIs ==
    ASSUME NEW d \in [Index -> Byte], NEW r \in Nat, NEW n \in Nat
    PROVE  /\ Between(d, r, n) \in Seq(Byte) /\ Between(d, r, n) \in [1 .. n -> Byte]
           /\ Len(Between(d, r, n)) = n
           /\ \A i \in 1 .. n : Between(d, r, n)[i] = d[(r + i - 1) % PIPESIZE]
<1>1. \A i \in 1 .. n : d[(r + i - 1) % PIPESIZE] \in Byte
  BY ModIsIndex
<1>2. Between(d, r, n) \in [1 .. n -> Byte]
  BY <1>1 DEF Between
<1>3. Between(d, r, n) \in Seq(Byte)
  BY <1>2, SeqDef
<1>4. Len(Between(d, r, n)) = n
  BY <1>3, LenProperties DEF Between
<1> QED
  BY <1>2, <1>3, <1>4 DEF Between

\* d after k bytes of s were stored from position q on.
PutAt(d, q, s, k) ==
    [j \in Index |-> LET i == (j - q) % PIPESIZE IN IF i < k THEN s[i + 1] ELSE d[j]]

\* What pipe_write's loop stores goes behind what is there.
LEMMA Appended ==
    ASSUME NEW d \in [Index -> Byte], NEW r \in Nat, NEW n \in Nat, NEW s \in Seq(Byte),
           NEW k \in 0 .. Len(s), n + k <= PIPESIZE
    PROVE  /\ PutAt(d, r + n, s, k) \in [Index -> Byte]
           /\ SubSeq(s, 1, k) \in [1 .. k -> Byte]
           /\ Between(PutAt(d, r + n, s, k), r, n + k) = Between(d, r, n) \o SubSeq(s, 1, k)
<1>1. PICK e : e = PutAt(d, r + n, s, k)
  OBVIOUS
<1>2. e = [j \in Index |-> LET i == (j - (r + n)) % PIPESIZE
                           IN  IF i < k THEN s[i + 1] ELSE d[j]]
  BY <1>1 DEF PutAt
<1>3. Len(s) \in Nat /\ \A i \in 1 .. Len(s) : s[i] \in Byte
  BY LenProperties, ElementOfSeq
<1>4. k \in Nat /\ \A i \in 1 .. k : s[i] \in Byte
  BY <1>3
<1>5. \A j \in Index : j \in Int
  BY SizePositive DEF Index
<1>6. e \in [Index -> Byte]
  <2> SUFFICES ASSUME NEW j \in Index PROVE e[j] \in Byte
    BY <1>2
  <2>1. (j - (r + n)) % PIPESIZE \in Nat
    <3>1. j - (r + n) \in Int
      BY <1>5
    <3>2. \A i \in Index : i \in Nat
      BY SizePositive DEF Index
    <3> QED
      BY <3>1, <3>2, ModIsIndex
  <2> QED
    BY <1>2, <1>4, <2>1
<1>7. /\ SubSeq(s, 1, k) \in Seq(Byte) /\ Len(SubSeq(s, 1, k)) = k
      /\ \A i \in 1 .. k : SubSeq(s, 1, k)[i] = s[i]
  BY <1>4, SubSeqProperties
<1>8. SubSeq(s, 1, k) \in [1 .. k -> Byte]
  BY <1>7, LenProperties
<1> DEFINE both == Between(d, r, n) \o SubSeq(s, 1, k)
<1>9. /\ both \in Seq(Byte) /\ Len(both) = n + k
      /\ \A i \in 1 .. n + k : both[i] = IF i <= n THEN Between(d, r, n)[i] ELSE SubSeq(s, 1, k)[i - n]
  <2>1. /\ Between(d, r, n) \in Seq(Byte) /\ Len(Between(d, r, n)) = n
    BY BetweenIs
  <2> QED
    <3> DEFINE a == Between(d, r, n)
               b == SubSeq(s, 1, k)
    <3>1. a \in Seq(Byte) /\ Len(a) = n /\ b \in Seq(Byte) /\ Len(b) = k
      BY <1>7, <2>1
    <3> HIDE DEF a, b
    <3>2. /\ a \o b \in Seq(Byte) /\ Len(a \o b) = Len(a) + Len(b)
          /\ \A i \in 1 .. Len(a) + Len(b) :
                (a \o b)[i] = IF i <= Len(a) THEN a[i] ELSE b[i - Len(a)]
      BY <3>1, ConcatProperties
    <3>3. /\ a \o b \in Seq(Byte) /\ Len(a \o b) = n + k
          /\ \A i \in 1 .. n + k : (a \o b)[i] = IF i <= n THEN a[i] ELSE b[i - n]
      BY <3>1, <3>2
    <3> QED
      BY <3>3 DEF a, b
<1>10. n + k \in Nat
  BY <1>4
<1>11. ASSUME NEW i \in 1 .. n + k PROVE Between(e, r, n + k)[i] = both[i]
  <2> DEFINE j == (r + i - 1) % PIPESIZE
             m == i - 1 - n
  <2>1. j \in Index /\ (j - (r + n)) % PIPESIZE = m % PIPESIZE
    <3>1. PICK x \in Int, y \in Int : x = r + i - 1 /\ y = r + n /\ x - y = m
      BY <1>4
    <3>2. x % PIPESIZE \in Index /\ ((x % PIPESIZE) - y) % PIPESIZE = (x - y) % PIPESIZE
      BY ModOfDifference, ModIsIndex
    <3> QED
      BY <3>1, <3>2
  <2>2. Between(e, r, n + k)[i] = IF m % PIPESIZE < k THEN s[(m % PIPESIZE) + 1] ELSE d[j]
    <3>1. Between(e, r, n + k)[i] = e[j]
      BY <1>10, <1>6, BetweenIs, Zenon
    <3> QED
      BY <1>2, <2>1, <3>1
  <2>3. CASE i <= n
    <3>1. m \in (-PIPESIZE) .. (-1) /\ m + PIPESIZE >= k
      BY <2>3, <1>4, SizePositive
    <3>2. m % PIPESIZE = m + PIPESIZE
      BY <3>1, ModBelow
    <3>3. ~ m % PIPESIZE < k
      BY <3>1, <3>2, <1>4, SizePositive
    <3>4. i \in 1 .. n
      BY <2>3
    <3> QED
      BY <2>2, <2>3, <3>3, <3>4, <1>9, BetweenIs
  <2>4. CASE i > n
    <3>1. m \in 0 .. PIPESIZE - 1 /\ m < k /\ m + 1 = i - n /\ m + 1 \in 1 .. k /\ ~ i <= n
      BY <2>4, <1>4, SizePositive
    <3>2. m % PIPESIZE = m
      BY <3>1, ModSmall
    <3> HIDE DEF m
    <3>3. Between(e, r, n + k)[i] = s[m + 1]
      BY <2>2, <3>1, <3>2
    <3> QED
      BY <3>1, <3>3, <1>7, <1>9
  <2>5. i <= n \/ i > n
    BY <1>4
  <2> QED
    BY <2>3, <2>4, <2>5
<1>12. Between(e, r, n + k) \in Seq(Byte) /\ Len(Between(e, r, n + k)) = n + k
  BY <1>10, <1>6, BetweenIs
<1> HIDE DEF both
<1>13. Between(e, r, n + k) = both
  BY <1>9, <1>11, <1>12, SeqEqual
<1> QED
  BY <1>1, <1>6, <1>8, <1>13 DEF both

\* What pipe_read's loop copies is the front of what is there.
LEMMA Taken ==
    ASSUME NEW d \in [Index -> Byte], NEW r \in Nat, NEW n \in Nat, NEW k \in 0 .. n
    PROVE  /\ Between(d, r, k) = SubSeq(Between(d, r, n), 1, k)
           /\ Between(d, r + k, n - k) = SubSeq(Between(d, r, n), k + 1, n)
<1> DEFINE all == Between(d, r, n)
<1>1. /\ k \in Nat /\ n - k \in Nat /\ r + k \in Nat
      /\ all \in Seq(Byte) /\ Len(all) = n
      /\ \A i \in 1 .. n : all[i] = d[(r + i - 1) % PIPESIZE] /\ all[i] \in Byte
  <2>1. /\ all \in Seq(Byte) /\ all \in [1 .. n -> Byte] /\ Len(all) = n
        /\ \A i \in 1 .. n : all[i] = d[(r + i - 1) % PIPESIZE]
    BY BetweenIs
  <2> HIDE DEF all
  <2> QED
    BY <2>1
<1> HIDE DEF all
<1>2. /\ SubSeq(all, 1, k) \in Seq(Byte) /\ Len(SubSeq(all, 1, k)) = k
      /\ \A i \in 1 .. k : SubSeq(all, 1, k)[i] = all[i]
  <2>1. \A i \in 1 .. k : all[i] \in Byte
    BY <1>1
  <2> QED
    BY <1>1, <2>1, SubSeqProperties
<1>3. /\ SubSeq(all, k + 1, n) \in Seq(Byte) /\ Len(SubSeq(all, k + 1, n)) = n - k
      /\ \A i \in 1 .. n - k : SubSeq(all, k + 1, n)[i] = all[k + i]
  <2>1. \A i \in k + 1 .. n : all[i] \in Byte
    BY <1>1
  <2>2. k + 1 \in Int /\ n - (k + 1) + 1 = n - k /\ \A i \in 1 .. n - k : (k + 1) + i - 1 = k + i
    BY <1>1
  <2>3. /\ SubSeq(all, k + 1, n) \in Seq(Byte)
        /\ Len(SubSeq(all, k + 1, n)) = IF k + 1 <= n THEN n - (k + 1) + 1 ELSE 0
        /\ \A i \in 1 .. n - (k + 1) + 1 : SubSeq(all, k + 1, n)[i] = all[(k + 1) + i - 1]
    BY <2>1, <2>2, SubSeqProperties
  <2> QED
    BY <2>2, <2>3, <1>1
<1>4. Between(d, r, k) = SubSeq(all, 1, k)
  <2>1. /\ Between(d, r, k) \in Seq(Byte) /\ Len(Between(d, r, k)) = k
        /\ \A i \in 1 .. k : Between(d, r, k)[i] = d[(r + i - 1) % PIPESIZE]
    <3>1. k \in Nat
      BY <1>1
    <3> QED
      BY <3>1, BetweenIs, Zenon
  <2>2. \A i \in 1 .. k : Between(d, r, k)[i] = SubSeq(all, 1, k)[i]
    <3> SUFFICES ASSUME NEW i \in 1 .. k PROVE Between(d, r, k)[i] = SubSeq(all, 1, k)[i]
      OBVIOUS
    <3>1. i \in 1 .. n
      OBVIOUS
    <3>2. all[i] = d[(r + i - 1) % PIPESIZE]
      BY <1>1, <3>1
    <3> QED
      BY <1>2, <2>1, <3>2
  <2> QED
    BY <1>2, <2>1, <2>2, SeqEqual
<1>5. Between(d, r + k, n - k) = SubSeq(all, k + 1, n)
  <2>1. /\ Between(d, r + k, n - k) \in Seq(Byte) /\ Len(Between(d, r + k, n - k)) = n - k
        /\ \A i \in 1 .. n - k : Between(d, r + k, n - k)[i] = d[(r + k + i - 1) % PIPESIZE]
    <3>1. n - k \in Nat /\ r + k \in Nat
      BY <1>1
    <3> QED
      BY <3>1, BetweenIs, Zenon
  <2>2. \A i \in 1 .. n - k : Between(d, r + k, n - k)[i] = all[k + i]
    <3> SUFFICES ASSUME NEW i \in 1 .. n - k PROVE Between(d, r + k, n - k)[i] = all[k + i]
      OBVIOUS
    <3>1. (r + k) + i - 1 = r + (k + i) - 1 /\ k + i \in 1 .. n
      BY <1>1
    <3> QED
      BY <1>1, <2>1, <3>1
  <2>3. \A i \in 1 .. n - k : Between(d, r + k, n - k)[i] = SubSeq(all, k + 1, n)[i]
    BY <1>3, <2>2
  <2> QED
    BY <1>3, <2>1, <2>3, SeqEqual
<1> QED
  BY <1>4, <1>5 DEF all

-----------------------------------------------------------------------------
(***************************************************************************)
(* The inductive invariant                                                 *)
(***************************************************************************)

Types ==
    /\ data \in [Index -> Byte]
    /\ writeopen \in BOOLEAN
    /\ pc \in [Procs -> PcSet]
    /\ todo \in [Writers -> Seq(Byte)]
    /\ want \in [Readers -> Nat]

\* The counters have not wrapped, and nread is at most PIPESIZE behind.
Filled ==
    /\ nread \in Nat /\ nwrite \in Nat
    /\ nread <= nwrite /\ nwrite - nread <= PIPESIZE

InCall(p) == pc[p] \notin {"idle", "closed"}

\* Only a writer inside pipe_write has bytes left to copy, a reader inside
\* pipe_read was asked for some, and there is no writer once the end is closed.
Calling ==
    /\ \A w \in Writers : ~ InCall(w) => todo[w] = <<>>
    /\ \A r \in Readers : InCall(r) => want[r] > 0
    /\ ~ writeopen => \A w \in Writers : pc[w] = "closed"

\* Every byte copied or still to be copied has been accepted by a call: this
\* is what keeps nwrite below Width.
Accounted ==
    /\ total \in Nat /\ total <= MaxBytes
    /\ IsFiniteSet(PendingOf(todo))
    /\ nwrite + Cardinality(PendingOf(todo)) <= total

PipeInv == Types /\ Filled /\ Calling /\ Accounted

LEMMA InitPipeInv == Init => PipeInv
<1> SUFFICES ASSUME Init PROVE PipeInv
  OBVIOUS
<1>1. Types
  BY DEF Init, Types, PcSet
<1>2. Filled
  BY SizePositive DEF Init, Filled
<1>3. Calling
  BY DEF Init, Calling, InCall, Procs
<1>4. PendingOf(todo) = {}
  <2> SUFFICES ASSUME NEW x \in PendingOf(todo) PROVE FALSE
    OBVIOUS
  <2>1. x[1] \in Writers /\ x[2] \in Nat \ {0} /\ x[2] <= Len(todo[x[1]])
    BY DEF PendingOf
  <2>2. Len(todo[x[1]]) = 0
    BY <2>1 DEF Init
  <2> QED
    BY <2>1, <2>2
<1>5. Accounted
  <2>1. IsFiniteSet({}) /\ Cardinality({}) = 0 /\ MaxBytes \in Nat
    BY FS_EmptySet, PipeAssumption
  <2> QED
    <3>1. IsFiniteSet(PendingOf(todo)) /\ Cardinality(PendingOf(todo)) = 0
      BY <1>4, <2>1
    <3>2. nwrite = 0 /\ total = 0
      BY DEF Init
    <3> QED
      BY <2>1, <3>1, <3>2 DEF Accounted
<1> QED
  BY <1>1, <1>2, <1>3, <1>5 DEF PipeInv

\* The counters as numbers.
LEMMA Unwrapped ==
    ASSUME MaxBytes < Width, PipeInv
    PROVE  /\ nwrite - nread \in 0 .. PIPESIZE /\ nwrite < Width
           /\ InBuffer = nwrite - nread
           /\ Space = PIPESIZE - (nwrite - nread)
           /\ Contents = Between(data, nread, nwrite - nread)
<1>1. nwrite - nread \in 0 .. PIPESIZE /\ nwrite \in Nat /\ nread \in Nat
  BY SizePositive DEF PipeInv, Filled
<1>2. nwrite < Width
  <2>1. Cardinality(PendingOf(todo)) \in Nat
    BY FS_CardinalityType DEF PipeInv, Accounted
  <2> QED
    BY <1>1, <2>1, PipeAssumption DEF PipeInv, Accounted
<1>3. nwrite - nread \in 0 .. Width - 1
  BY <1>1, <1>2, PipeAssumption
<1>4. InBuffer = nwrite - nread
  BY <1>3, NoWrap DEF InBuffer
<1> QED
  BY <1>1, <1>2, <1>4 DEF Space, Contents, Between

\* A writer whose call has s left, after k bytes or more are copied or dropped.
LEMMA StillAccounted ==
    ASSUME PipeInv, NEW w \in Writers, NEW s \in Seq(Byte), NEW k \in Nat,
           Len(s) + k <= Len(todo[w])
    PROVE  LET rest == PendingOf([todo EXCEPT ![w] = s])
           IN  IsFiniteSet(rest) /\ nwrite + k + Cardinality(rest) <= total
<1> DEFINE rest == PendingOf([todo EXCEPT ![w] = s])
<1>1. todo \in [Writers -> Seq(Byte)] /\ Len(todo[w]) \in Nat /\ Len(s) \in Nat
  BY LenProperties DEF PipeInv, Types
<1>2. PICK m \in Nat : Len(todo[w]) = Len(s) + m /\ k <= m
  <2>1. PICK m : m = Len(todo[w]) - Len(s)
    OBVIOUS
  <2>2. m \in Nat /\ k <= m /\ Len(todo[w]) = Len(s) + m
    BY <1>1, <2>1
  <2> QED
    BY <2>2, Zenon
<1>3. /\ IsFiniteSet(PendingOf(todo)) <=> IsFiniteSet(rest)
      /\ IsFiniteSet(rest) => Cardinality(PendingOf(todo)) = Cardinality(rest) + m
  BY <1>1, <1>2, PendingShrinks
<1> HIDE DEF rest
<1>4. IsFiniteSet(rest) /\ Cardinality(rest) \in Nat
  BY <1>3, FS_CardinalityType DEF PipeInv, Accounted
<1>5. PICK c \in Nat : c = Cardinality(rest)
  BY <1>4, Zenon
<1>6. nwrite \in Nat /\ total \in Nat /\ nwrite + Cardinality(PendingOf(todo)) <= total
  BY DEF PipeInv, Accounted, Filled
<1>7. Cardinality(PendingOf(todo)) = c + m
  BY <1>3, <1>4, <1>5, Zenon
<1>8. nwrite + k + c <= total
  BY <1>2, <1>6, <1>7
<1> QED
  BY <1>4, <1>5, <1>8, Zenon DEF rest

-----------------------------------------------------------------------------
(***************************************************************************)
(* The steps of pipe_write                                                 *)
(***************************************************************************)

\* wakeup() begins and ends no call.
LEMMA WokenKeepsCalls ==
    ASSUME NEW at \in [Procs -> PcSet]
    PROVE  /\ Woken(at) \in [Procs -> PcSet]
           /\ \A p \in Procs : /\ Woken(at)[p] = "idle" <=> at[p] = "idle"
                               /\ Woken(at)[p] = "closed" <=> at[p] = "closed"
BY DEF Woken, PcSet

LEMMA OpenWhileWriting ==
    ASSUME PipeInv, NEW w \in Writers, pc[w] # "closed" PROVE writeopen
BY DEF PipeInv, Types, Calling

\* What pipe_write stores lies behind what is in the buffer.
LEMMA StoredBehind ==
    ASSUME PipeInv, NEW w \in Writers, NEW n \in Nat, nwrite = nread + n,
           NEW k \in 0 .. Len(todo[w]), n + k <= PIPESIZE
    PROVE  /\ Stored(todo[w], k) \in [Index -> Byte]
           /\ SubSeq(todo[w], 1, k) \in [1 .. k -> Byte]
           /\ Between(Stored(todo[w], k), nread, n + k)
                 = Between(data, nread, n) \o SubSeq(todo[w], 1, k)
<1>1. PICK q \in Seq(Byte), d \in [Index -> Byte], r \in Nat : q = todo[w] /\ d = data /\ r = nread
  BY DEF PipeInv, Types, Filled
<1>2. k \in 0 .. Len(q)
  BY <1>1
<1>3. /\ PutAt(d, r + n, q, k) \in [Index -> Byte]
      /\ SubSeq(q, 1, k) \in [1 .. k -> Byte]
      /\ Between(PutAt(d, r + n, q, k), r, n + k) = Between(d, r, n) \o SubSeq(q, 1, k)
  BY <1>2, Appended
<1>4. Stored(todo[w], k) = PutAt(d, r + n, q, k)
  BY <1>1 DEF Stored, PutAt
<1> QED
  BY <1>1, <1>3, <1>4

\* k bytes go in, s is left of the call: the invariant holds again and the
\* queue has grown by those bytes.
LEMMA CopyKeeps ==
    ASSUME MaxBytes < Width, PipeInv, NEW w \in Writers,
           NEW k \in 0 .. Len(todo[w]), k <= Space,
           NEW s \in Seq(Byte), Len(s) + k <= Len(todo[w]),
           data' = Stored(todo[w], k), nwrite' = (nwrite + k) % Width,
           todo' = [todo EXCEPT ![w] = s],
           NEW at \in [Procs -> PcSet], pc' = at,
           pc[w] = "call", at[w] = "idle" => s = <<>>, at[w] # "closed",
           \A p \in Procs \ {w} : /\ at[p] = "idle" <=> pc[p] = "idle"
                                  /\ at[p] = "closed" <=> pc[p] = "closed",
           UNCHANGED <<nread, writeopen, want, total>>
    PROVE  /\ PipeInv'
           /\ Len(Contents) + k <= PIPESIZE
           /\ SubSeq(todo[w], 1, k) \in [1 .. k -> Byte]
           /\ Contents' = Contents \o SubSeq(todo[w], 1, k)
<1> DEFINE n == nwrite - nread
<1>1. /\ n \in 0 .. PIPESIZE /\ nwrite < Width /\ Space = PIPESIZE - n
      /\ Contents = Between(data, nread, n)
  BY Unwrapped
<1>2. nread \in Nat /\ nwrite \in Nat
  BY DEF PipeInv, Filled
<1>3. /\ nread + n = nwrite /\ nwrite = nread + n /\ k \in Nat
      /\ n \in Nat /\ n + k <= PIPESIZE
  BY <1>1, <1>2, SizePositive
<1>4. todo[w] \in Seq(Byte) /\ data \in [Index -> Byte]
  BY DEF PipeInv, Types
<1> HIDE DEF n
<1>5. /\ data' \in [Index -> Byte]
      /\ SubSeq(todo[w], 1, k) \in [1 .. k -> Byte]
      /\ Between(data', nread, n + k) = Between(data, nread, n) \o SubSeq(todo[w], 1, k)
  BY <1>3, StoredBehind
<1>6. IsFiniteSet(PendingOf(todo')) /\ nwrite + k + Cardinality(PendingOf(todo')) <= total
  BY <1>3, StillAccounted
<1>7. nwrite' = nwrite + k
  <2>1. PICK c \in Nat : c = Cardinality(PendingOf(todo'))
    BY <1>6, FS_CardinalityType
  <2>2. MaxBytes \in Nat /\ Width \in Nat
    BY PipeAssumption
  <2>3. nwrite + k \in 0 .. Width - 1
    <3>1. total \in Nat /\ total <= MaxBytes /\ nwrite + k + c <= total
      BY <1>6, <2>1 DEF PipeInv, Accounted
    <3> QED
      BY <1>2, <1>3, <2>2, <3>1
  <2> QED
    BY <2>3, NoWrap
<1>8. PipeInv'
  <2>1. Types'
    BY <1>5 DEF PipeInv, Types
  <2>2. Filled'
    <3>1. nread' = nread
      OBVIOUS
    <3>2. nwrite' \in Nat /\ nread <= nwrite' /\ nwrite' - nread <= PIPESIZE
      BY <1>2, <1>3, <1>7, SizePositive
    <3> QED
      BY <1>2, <3>1, <3>2 DEF Filled
  <2>3. Calling'
    <3>1. writeopen /\ w \in Procs /\ w \notin Readers
      BY OpenWhileWriting, PipeAssumption DEF Procs
    <3>2. \A v \in Writers : (~ InCall(v))' => todo'[v] = <<>>
      BY <3>1 DEF PipeInv, Types, Calling, InCall, Procs
    <3>3. \A r \in Readers : InCall(r)' => want'[r] > 0
      BY <3>1 DEF PipeInv, Calling, InCall, Procs
    <3> QED
      BY <3>1, <3>2, <3>3 DEF Calling
  <2>4. Accounted'
    BY <1>6, <1>7 DEF PipeInv, Accounted
  <2> QED
    BY <2>1, <2>2, <2>3, <2>4 DEF PipeInv
<1>9. Contents' = Between(data', nread', n + k)
  <2>1. nwrite' - nread' = n + k
    BY <1>2, <1>3, <1>7
  <2>2. n + k \in 0 .. Width - 1
    BY <1>3, PipeAssumption
  <2>3. (nwrite' - nread') % Width = n + k
    BY <2>1, <2>2, NoWrap
  <2> QED
    BY <2>3 DEF Contents, InBuffer, Between
<1>10. Len(Contents) = n
  <2>1. Len(Between(data, nread, n)) = n
    BY <1>2, <1>3, <1>4, BetweenIs, Zenon
  <2> QED
    BY <1>1, <2>1
<1>11. Contents' = Contents \o SubSeq(todo[w], 1, k)
  BY <1>1, <1>5, <1>9
<1> QED
  BY <1>3, <1>5, <1>8, <1>10, <1>11

\* Every turn of pipe_write's loop puts bytes into the queue.
LEMMA WriteStepPuts ==
    ASSUME MaxBytes < Width, PipeInv, NEW w \in Writers,
           WriteReturns(w) \/ WriteWaits(w) \/ WriteFails(w)
    PROVE  PipeInv' /\ Queue!Put
<1>1. /\ pc[w] = "call" /\ w \in Procs /\ writeopen /\ pc \in [Procs -> PcSet]
      /\ todo[w] \in Seq(Byte) /\ Len(todo[w]) \in Nat /\ Space \in Nat
  <2>1. pc[w] = "call" /\ w \in Procs
    BY DEF WriteReturns, WriteWaits, WriteFails, Procs
  <2>2. pc \in [Procs -> PcSet] /\ todo[w] \in Seq(Byte)
    BY DEF PipeInv, Types
  <2>3. Space \in Nat
    BY Unwrapped, SizePositive
  <2> QED
    BY <2>1, <2>2, <2>3, OpenWhileWriting, LenProperties
<1>2. \A n \in 1 .. Len(todo[w]) : todo[w][n] \in Byte
  BY <1>1, ElementOfSeq
<1>3. ASSUME NEW k \in 0 .. Len(todo[w])
      PROVE  /\ SubSeq(todo[w], k + 1, Len(todo[w])) \in Seq(Byte)
             /\ Len(SubSeq(todo[w], k + 1, Len(todo[w]))) = Len(todo[w]) - k
  <2>1. k + 1 \in Int /\ \A n \in k + 1 .. Len(todo[w]) : todo[w][n] \in Byte
    BY <1>1, <1>2
  <2>2. /\ SubSeq(todo[w], k + 1, Len(todo[w])) \in Seq(Byte)
        /\ Len(SubSeq(todo[w], k + 1, Len(todo[w])))
              = IF k + 1 <= Len(todo[w]) THEN Len(todo[w]) - (k + 1) + 1 ELSE 0
    BY <1>1, <2>1, SubSeqProperties
  <2> QED
    BY <1>1, <2>2
<1>4. ASSUME NEW k \in 0 .. Len(todo[w]), Len(Contents) + k <= PIPESIZE,
             SubSeq(todo[w], 1, k) \in [1 .. k -> Byte],
             Contents' = Contents \o SubSeq(todo[w], 1, k),
             UNCHANGED <<delivered, writeopen>>
      PROVE  Queue!Put
  <2>1. Len(Contents) \in Nat
    BY Unwrapped, BetweenIs, SizePositive DEF PipeInv, Types, Filled
  <2>2. k \in 0 .. PIPESIZE - Len(Contents)
    BY <1>4, <2>1, SizePositive
  <2> QED
    BY <1>1, <1>4, <2>2 DEF Queue!Put
<1>5. CASE WriteReturns(w)
  <2> DEFINE k  == Len(todo[w])
             s  == SubSeq(todo[w], k + 1, k)
             at == Woken([pc EXCEPT ![w] = "idle"])
  <2>1. k \in 0 .. Len(todo[w]) /\ k <= Space /\ s \in Seq(Byte) /\ Len(s) = 0 /\ s = <<>>
    <3>1. k \in 0 .. Len(todo[w]) /\ k <= Space
      BY <1>1, <1>5 DEF WriteReturns
    <3>2. s \in Seq(Byte) /\ Len(s) = 0
      BY <1>1, <1>3, <3>1
    <3> QED
      BY <3>1, <3>2, EmptySeq
  <2>2. /\ data' = Stored(todo[w], k) /\ nwrite' = (nwrite + k) % Width
        /\ todo' = [todo EXCEPT ![w] = s] /\ pc' = at
        /\ UNCHANGED <<nread, readopen, writeopen, want, delivered, total>>
    BY <1>5 DEF WriteReturns, CopyIn, ends
  <2>3. /\ at \in [Procs -> PcSet] /\ at[w] = "idle"
        /\ \A p \in Procs \ {w} : /\ at[p] = "idle" <=> pc[p] = "idle"
                                  /\ at[p] = "closed" <=> pc[p] = "closed"
    BY <1>1 DEF Woken, PcSet
  <2>4. k \in Nat /\ Len(s) + k <= Len(todo[w])
    BY <1>1, <2>1
  <2> HIDE DEF k, s, at
  <2>5. /\ PipeInv'
        /\ Len(Contents) + k <= PIPESIZE
        /\ SubSeq(todo[w], 1, k) \in [1 .. k -> Byte]
        /\ Contents' = Contents \o SubSeq(todo[w], 1, k)
    BY <1>1, <2>1, <2>2, <2>3, <2>4, CopyKeeps
  <2> QED
    BY <1>4, <2>1, <2>2, <2>5
<1>6. CASE WriteWaits(w)
  <2> DEFINE s  == SubSeq(todo[w], Space + 1, Len(todo[w]))
             at == [Woken(pc) EXCEPT ![w] = "presleep"]
  <2>1. /\ Space \in 0 .. Len(todo[w]) /\ s \in Seq(Byte) /\ Len(s) + Space <= Len(todo[w])
    <3>1. Space \in 0 .. Len(todo[w])
      BY <1>1, <1>6 DEF WriteWaits
    <3> QED
      BY <1>1, <1>3, <3>1
  <2>2. /\ data' = Stored(todo[w], Space) /\ nwrite' = (nwrite + Space) % Width
        /\ todo' = [todo EXCEPT ![w] = s] /\ pc' = at
        /\ UNCHANGED <<nread, readopen, writeopen, want, delivered, total>>
    BY <1>6 DEF WriteWaits, CopyIn, ends
  <2>3. /\ at \in [Procs -> PcSet] /\ at[w] = "presleep"
        /\ \A p \in Procs \ {w} : /\ at[p] = "idle" <=> pc[p] = "idle"
                                  /\ at[p] = "closed" <=> pc[p] = "closed"
    BY <1>1, WokenKeepsCalls DEF PcSet
  <2> HIDE DEF s, at
  <2>4. /\ PipeInv'
        /\ Len(Contents) + Space <= PIPESIZE
        /\ SubSeq(todo[w], 1, Space) \in [1 .. Space -> Byte]
        /\ Contents' = Contents \o SubSeq(todo[w], 1, Space)
    <3>1. PICK k \in 0 .. Len(todo[w]) : k = Space
      BY <2>1
    <3>2. k <= Space /\ Len(s) + k <= Len(todo[w]) /\ at[w] # "closed"
      BY <1>1, <2>1, <2>3, <3>1
    <3>3. data' = Stored(todo[w], k) /\ nwrite' = (nwrite + k) % Width
      BY <2>2, <3>1
    <3>4. /\ PipeInv'
          /\ Len(Contents) + k <= PIPESIZE
          /\ SubSeq(todo[w], 1, k) \in [1 .. k -> Byte]
          /\ Contents' = Contents \o SubSeq(todo[w], 1, k)
      BY <1>1, <2>1, <2>2, <2>3, <3>2, <3>3, CopyKeeps
    <3> QED
      BY <3>1, <3>4
  <2> QED
    BY <1>4, <2>1, <2>2, <2>4
<1>7. CASE WriteFails(w)
  <2> DEFINE at == [pc EXCEPT ![w] = "idle"]
  <2>1. /\ Space \in 0 .. Len(todo[w]) /\ <<>> \in Seq(Byte) /\ Len(<<>>) + Space <= Len(todo[w])
    BY <1>1, <1>7, EmptySeq DEF WriteFails
  <2>2. /\ data' = Stored(todo[w], Space) /\ nwrite' = (nwrite + Space) % Width
        /\ todo' = [todo EXCEPT ![w] = <<>>] /\ pc' = at
        /\ UNCHANGED <<nread, readopen, writeopen, want, delivered, total>>
    BY <1>7 DEF WriteFails, ends
  <2>3. /\ at \in [Procs -> PcSet] /\ at[w] = "idle"
        /\ \A p \in Procs \ {w} : at[p] = pc[p]
    BY <1>1 DEF PcSet
  <2> HIDE DEF at
  <2>4. /\ PipeInv'
        /\ Len(Contents) + Space <= PIPESIZE
        /\ SubSeq(todo[w], 1, Space) \in [1 .. Space -> Byte]
        /\ Contents' = Contents \o SubSeq(todo[w], 1, Space)
    <3>1. PICK k \in 0 .. Len(todo[w]) : k = Space
      BY <2>1
    <3>2. k <= Space /\ Len(<<>>) + k <= Len(todo[w]) /\ at[w] # "closed"
      BY <1>1, <2>1, <2>3, <3>1
    <3>3. data' = Stored(todo[w], k) /\ nwrite' = (nwrite + k) % Width
      BY <2>2, <3>1
    <3>4. /\ PipeInv'
          /\ Len(Contents) + k <= PIPESIZE
          /\ SubSeq(todo[w], 1, k) \in [1 .. k -> Byte]
          /\ Contents' = Contents \o SubSeq(todo[w], 1, k)
      BY <1>1, <2>1, <2>2, <2>3, <3>2, <3>3, CopyKeeps
    <3> QED
      BY <3>1, <3>4
  <2> QED
    BY <1>4, <2>1, <2>2, <2>4
<1> QED
  BY <1>5, <1>6, <1>7

-----------------------------------------------------------------------------
(***************************************************************************)
(* The steps of pipe_read, and those that leave the buffer alone           *)
(***************************************************************************)

\* A pipe_read that returns takes bytes off the queue, or finds its end.
LEMMA ReadReturnGets ==
    ASSUME MaxBytes < Width, PipeInv, NEW r \in Readers, ReadReturns(r)
    PROVE  PipeInv' /\ (Queue!Get \/ Queue!Eof)
<1>1. PICK k : /\ k = Readable(want[r])
               /\ delivered' = [i \in 1 .. k |-> data[(nread + i - 1) % PIPESIZE]]
               /\ nread' = (nread + k) % Width
  BY DEF ReadReturns
<1>2. PICK n : n = nwrite - nread
  OBVIOUS
<1>3. /\ n \in 0 .. PIPESIZE /\ n \in Nat /\ nread \in Nat /\ nwrite \in Nat
      /\ nwrite = nread + n /\ nwrite < Width
      /\ Contents = Between(data, nread, n)
  BY <1>2, Unwrapped, SizePositive DEF PipeInv, Filled
<1>4. /\ want[r] \in Nat /\ want[r] > 0 /\ r \in Procs
      /\ data \in [Index -> Byte] /\ pc \in [Procs -> PcSet]
  <2>1. InCall(r)
    BY DEF ReadReturns, InCall
  <2> QED
    BY <2>1 DEF PipeInv, Types, Calling, Procs
<1>5. \/ k \in 1 .. n
      \/ k = 0 /\ n = 0 /\ ~ writeopen
  <2>1. CASE nread < nwrite
    <3>1. n > 0 /\ k = Smaller(want[r], n)
      BY <1>1, <1>2, <1>3, <2>1 DEF Readable
    <3> QED
      BY <1>3, <1>4, <3>1 DEF Smaller
  <2>2. CASE ~ nread < nwrite
    <3>1. n = 0 /\ nread = nwrite
      BY <1>3, <2>2
    <3> QED
      BY <1>1, <2>2, <3>1 DEF Readable, ReadReturns, MustWait
  <2> QED
    BY <2>1, <2>2
<1>6. k \in 0 .. n /\ k \in Nat /\ n - k \in 0 .. PIPESIZE /\ n - k \in Nat
  BY <1>3, <1>5, SizePositive
<1>7. nread' = nread + k
  <2>1. nread + k \in 0 .. Width - 1
    BY <1>3, <1>6, PipeAssumption
  <2> QED
    BY <1>1, <2>1, NoWrap
<1>8. UNCHANGED <<data, nwrite, readopen, writeopen, todo, want, total>>
  BY DEF ReadReturns, ends, calls
<1>9. PipeInv'
  <2>1. PICK at \in [Procs -> PcSet] : /\ pc' = Woken(at)
                                       /\ at = [pc EXCEPT ![r] = "idle"]
    BY <1>4 DEF ReadReturns, PcSet
  <2>2. /\ pc' \in [Procs -> PcSet] /\ pc'[r] = "idle"
        /\ \A p \in Procs \ {r} : /\ pc'[p] = "idle" <=> pc[p] = "idle"
                                  /\ pc'[p] = "closed" <=> pc[p] = "closed"
    <3>1. /\ Woken(at) \in [Procs -> PcSet]
          /\ \A p \in Procs : /\ Woken(at)[p] = "idle" <=> at[p] = "idle"
                              /\ Woken(at)[p] = "closed" <=> at[p] = "closed"
      BY WokenKeepsCalls
    <3>2. at[r] = "idle" /\ \A p \in Procs \ {r} : at[p] = pc[p]
      BY <1>4, <2>1
    <3> QED
      BY <1>4, <2>1, <3>1, <3>2
  <2>3. Types'
    BY <1>8, <2>2 DEF PipeInv, Types
  <2>4. Filled'
    <3>1. nwrite' = nwrite
      BY <1>8
    <3> QED
      BY <1>3, <1>6, <1>7, <3>1, SizePositive DEF Filled
  <2>5. Calling'
    BY <1>8, <2>2, PipeAssumption DEF PipeInv, Calling, InCall, Procs
  <2>6. Accounted'
    BY <1>8 DEF PipeInv, Accounted, PendingOf
  <2> QED
    BY <2>3, <2>4, <2>5, <2>6 DEF PipeInv
<1>10. delivered' = Between(data, nread, k) /\ Contents' = Between(data, nread + k, n - k)
  <2>1. nwrite' - nread' = n - k /\ n - k \in 0 .. Width - 1
    BY <1>3, <1>6, <1>7, <1>8, PipeAssumption
  <2>2. InBuffer' = n - k
    BY <2>1, NoWrap DEF InBuffer
  <2> QED
    BY <1>1, <1>7, <1>8, <2>2 DEF Contents, Between
<1>11. /\ delivered' = SubSeq(Contents, 1, k)
       /\ Contents' = SubSeq(Contents, k + 1, n) /\ Len(Contents) = n
  <2>1. PICK d \in [Index -> Byte], q \in Nat : d = data /\ q = nread
    BY <1>3, <1>4
  <2>2. /\ Between(d, q, k) = SubSeq(Between(d, q, n), 1, k)
        /\ Between(d, q + k, n - k) = SubSeq(Between(d, q, n), k + 1, n)
        /\ Len(Between(d, q, n)) = n
    <3>1. n \in Nat /\ k \in 0 .. n
      BY <1>3, <1>6
    <3>2. Len(Between(d, q, n)) = n
      BY <3>1, BetweenIs, Zenon
    <3>3. /\ Between(d, q, k) = SubSeq(Between(d, q, n), 1, k)
          /\ Between(d, q + k, n - k) = SubSeq(Between(d, q, n), k + 1, n)
      BY <3>1, Taken, Zenon
    <3> QED
      BY <3>2, <3>3
  <2> QED
    BY <1>3, <1>10, <2>1, <2>2
<1>12. CASE k \in 1 .. n
  BY <1>8, <1>9, <1>11, <1>12 DEF Queue!Get
<1>13. CASE k = 0 /\ n = 0 /\ ~ writeopen
  <2>1. \A d, q : Between(d, q, 0) = <<>>
    BY DEF Between
  <2>2. Contents = <<>> /\ Contents' = <<>> /\ delivered' = <<>>
    BY <1>3, <1>10, <1>13, <2>1
  <2> QED
    BY <1>8, <1>9, <1>13, <2>2 DEF Queue!Eof
<1> QED
  BY <1>5, <1>12, <1>13

\* Whatever else happens to the processes, the queue is what it was.
LEMMA QuietKeeps ==
    ASSUME PipeInv, UNCHANGED <<data, nread, nwrite, todo, total>>,
           pc' \in [Procs -> PcSet], want' \in [Readers -> Nat],
           writeopen' \in BOOLEAN, Calling'
    PROVE  PipeInv' /\ Contents' = Contents
<1>1. Types' /\ Filled' /\ Accounted'
  BY DEF PipeInv, Types, Filled, Accounted, PendingOf
<1> QED
  BY <1>1 DEF PipeInv, Contents, InBuffer

LEMMA ClosedEnd ==
    ASSUME PipeInv, NEW S \in SUBSET Procs, EndIdle(S)
    PROVE  /\ CloseEnd(S) \in [Procs -> PcSet]
           /\ \A p \in S : CloseEnd(S)[p] = "closed"
           /\ \A p \in Procs \ S : /\ CloseEnd(S)[p] = "idle" <=> pc[p] = "idle"
                                   /\ CloseEnd(S)[p] = "closed" <=> pc[p] = "closed"
<1>1. pc \in [Procs -> PcSet]
  BY DEF PipeInv, Types
<1>2. PICK at \in [Procs -> PcSet] : at = [p \in Procs |-> IF p \in S THEN "closed" ELSE pc[p]]
  BY <1>1 DEF PcSet
<1>3. CloseEnd(S) = Woken(at)
  BY <1>2 DEF CloseEnd
<1> QED
  BY <1>2, <1>3, WokenKeepsCalls

\* A call begins, a process falls asleep or is woken: wakeup() and sleep()
\* touch neither the buffer nor the counters.
LEMMA OthersKeep ==
    ASSUME PipeInv,
           \/ \E w \in Writers, s \in Calls(Byte) : WriteCall(w, s)
           \/ \E r \in Readers, n \in 1 .. MaxCall : ReadCall(r, n)
           \/ \E r \in Readers : ReadWaits(r)
           \/ \E p \in Procs : FallAsleep(p)
           \/ OtherWakeup
    PROVE  PipeInv' /\ Contents' = Contents /\ UNCHANGED <<delivered, writeopen>>
<1>1. /\ pc \in [Procs -> PcSet] /\ want \in [Readers -> Nat] /\ writeopen \in BOOLEAN
      /\ todo \in [Writers -> Seq(Byte)] /\ Calling
  BY DEF PipeInv, Types
<1>2. ASSUME NEW w \in Writers, NEW s \in Calls(Byte), WriteCall(w, s)
      PROVE  PipeInv' /\ Contents' = Contents /\ UNCHANGED <<delivered, writeopen>>
  <2>1. /\ pc[w] = "idle" /\ pc' = [pc EXCEPT ![w] = "call"] /\ w \in Procs
        /\ todo' = [todo EXCEPT ![w] = s] /\ total' = total + Len(s)
        /\ total + Len(s) <= MaxBytes
        /\ UNCHANGED <<data, nread, nwrite, readopen, writeopen, want, delivered>>
    BY <1>2 DEF WriteCall, ends, Procs
  <2>2. s \in Seq(Byte) /\ Len(s) \in Nat
    <3>1. PICK n \in 1 .. MaxCall : s \in [1 .. n -> Byte]
      BY <1>2 DEF Calls
    <3>2. n \in Nat
      BY <3>1, PipeAssumption
    <3> QED
      BY <3>1, <3>2, SeqDef, LenProperties
  <2>3. Types'
    BY <1>1, <2>1, <2>2 DEF PipeInv, Types, PcSet
  <2>4. Filled'
    BY <2>1 DEF PipeInv, Filled
  <2>5. Calling'
    BY <1>1, <2>1, PipeAssumption DEF Calling, InCall, Procs
  <2>6. Accounted'
    <3>1. todo[w] = <<>> /\ Len(<<>>) = 0
      BY <1>1, <2>1, EmptySeq DEF Calling, InCall
    <3>2. todo = [todo' EXCEPT ![w] = <<>>] /\ todo' \in [Writers -> Seq(Byte)]
      BY <1>1, <2>1, <2>2, <3>1
    <3>3. PICK t \in [Writers -> Seq(Byte)] : t = todo'
      BY <3>2
    <3>4. <<>> \in Seq(Byte) /\ Len(t[w]) = Len(<<>>) + Len(s) /\ todo = [t EXCEPT ![w] = <<>>]
      BY <1>1, <2>1, <2>2, <3>1, <3>2, <3>3, EmptySeq
    <3>5. /\ IsFiniteSet(PendingOf(t)) <=> IsFiniteSet(PendingOf(todo))
          /\ IsFiniteSet(PendingOf(todo)) =>
                Cardinality(PendingOf(t)) = Cardinality(PendingOf(todo)) + Len(s)
      BY <2>2, <3>4, PendingShrinks
    <3>6. PICK c \in Nat : c = Cardinality(PendingOf(todo))
      BY FS_CardinalityType DEF PipeInv, Accounted
    <3>7. /\ total \in Nat /\ nwrite \in Nat /\ nwrite + c <= total
          /\ IsFiniteSet(PendingOf(todo))
      BY <3>6 DEF PipeInv, Accounted, Filled
    <3>8. /\ total' \in Nat /\ total' <= MaxBytes /\ nwrite' = nwrite
          /\ nwrite + (c + Len(s)) <= total'
      BY <2>1, <2>2, <3>7
    <3>9. IsFiniteSet(PendingOf(todo')) /\ Cardinality(PendingOf(todo')) = c + Len(s)
      BY <3>3, <3>5, <3>6, <3>7
    <3> QED
      BY <3>8, <3>9 DEF Accounted
  <2> QED
    BY <2>1, <2>3, <2>4, <2>5, <2>6 DEF PipeInv, Contents, InBuffer
<1>3. ASSUME NEW r \in Readers, NEW n \in 1 .. MaxCall, ReadCall(r, n)
      PROVE  PipeInv' /\ Contents' = Contents /\ UNCHANGED <<delivered, writeopen>>
  <2>1. /\ pc[r] = "idle" /\ pc' = [pc EXCEPT ![r] = "call"] /\ r \in Procs /\ r \notin Writers
        /\ want' = [want EXCEPT ![r] = n] /\ n \in Nat /\ n > 0
        /\ UNCHANGED <<data, nread, nwrite, readopen, writeopen, todo, delivered, total>>
    BY <1>3, PipeAssumption DEF ReadCall, ends, Procs
  <2>2. pc' \in [Procs -> PcSet] /\ want' \in [Readers -> Nat]
    BY <1>1, <2>1 DEF PcSet
  <2>3. Calling'
    BY <1>1, <2>1 DEF Calling, InCall, Procs
  <2> QED
    BY <1>1, <2>1, <2>2, <2>3, QuietKeeps
<1>4. ASSUME NEW p \in Procs, (ReadWaits(p) /\ p \in Readers) \/ FallAsleep(p)
      PROVE  PipeInv' /\ Contents' = Contents /\ UNCHANGED <<delivered, writeopen>>
  <2>1. /\ pc[p] \notin {"idle", "closed"}
        /\ \E there \in {"presleep", "asleep"} : pc' = [pc EXCEPT ![p] = there]
        /\ UNCHANGED <<data, nread, nwrite, readopen, writeopen, todo, want, delivered, total>>
    BY <1>4 DEF ReadWaits, FallAsleep, ends, calls
  <2>2. pc' \in [Procs -> PcSet]
    BY <1>1, <2>1 DEF PcSet
  <2>3. Calling'
    BY <1>1, <2>1 DEF Calling, InCall, Procs
  <2> QED
    BY <1>1, <2>1, <2>2, <2>3, QuietKeeps
<1>5. ASSUME OtherWakeup
      PROVE  PipeInv' /\ Contents' = Contents /\ UNCHANGED <<delivered, writeopen>>
  <2>1. /\ pc' = Woken(pc)
        /\ UNCHANGED <<data, nread, nwrite, readopen, writeopen, todo, want, delivered, total>>
    BY <1>5 DEF OtherWakeup, ends, calls
  <2>2. /\ pc' \in [Procs -> PcSet]
        /\ \A p \in Procs : /\ pc'[p] = "idle" <=> pc[p] = "idle"
                            /\ pc'[p] = "closed" <=> pc[p] = "closed"
    BY <1>1, <2>1, WokenKeepsCalls
  <2>3. Calling'
    BY <1>1, <2>1, <2>2 DEF Calling, InCall, Procs
  <2> QED
    BY <1>1, <2>1, <2>2, <2>3, QuietKeeps
<1> QED
  BY <1>2, <1>3, <1>4, <1>5 DEF Procs

\* pipe_close, of either end.
LEMMA ClosingKeeps ==
    ASSUME PipeInv, CloseWrite \/ CloseRead
    PROVE  /\ PipeInv' /\ Contents' = Contents
           /\ UNCHANGED delivered /\ (writeopen' = FALSE \/ UNCHANGED writeopen)
<1>1. /\ pc \in [Procs -> PcSet] /\ want \in [Readers -> Nat] /\ writeopen \in BOOLEAN
      /\ Calling
  BY DEF PipeInv, Types
<1>2. CASE CloseWrite
  <2>1. /\ EndIdle(Writers) /\ pc' = CloseEnd(Writers) /\ writeopen' = FALSE
        /\ UNCHANGED <<data, nread, nwrite, todo, want, delivered, total>>
    BY <1>2 DEF CloseWrite, calls
  <2>2. /\ pc' \in [Procs -> PcSet]
        /\ \A p \in Writers : pc'[p] = "closed"
        /\ \A p \in Procs \ Writers : /\ pc'[p] = "idle" <=> pc[p] = "idle"
                                      /\ pc'[p] = "closed" <=> pc[p] = "closed"
    BY <2>1, ClosedEnd DEF Procs
  <2>3. Calling'
    <3>1. \A w \in Writers : todo'[w] = <<>>
      BY <1>1, <2>1 DEF Calling, InCall, EndIdle
    <3>2. \A r \in Readers : r \in Procs \ Writers
      BY PipeAssumption DEF Procs
    <3>3. \A r \in Readers : InCall(r)' => want'[r] > 0
      <4> SUFFICES ASSUME NEW r \in Readers, InCall(r)' PROVE want'[r] > 0
        OBVIOUS
      <4>1. pc'[r] # "idle" /\ pc'[r] # "closed"
        BY DEF InCall
      <4>2. InCall(r) /\ want' = want
        BY <2>1, <2>2, <3>2, <4>1 DEF InCall
      <4> QED
        BY <1>1, <4>2 DEF Calling
    <3> QED
      BY <2>2, <3>1, <3>3 DEF Calling
  <2> QED
    BY <1>1, <2>1, <2>2, <2>3, QuietKeeps
<1>3. CASE CloseRead
  <2>1. /\ EndIdle(Readers) /\ pc' = CloseEnd(Readers)
        /\ UNCHANGED <<data, nread, nwrite, writeopen, todo, want, delivered, total>>
    BY <1>3 DEF CloseRead, calls
  <2>2. /\ pc' \in [Procs -> PcSet]
        /\ \A p \in Readers : pc'[p] = "closed"
        /\ \A p \in Procs \ Readers : /\ pc'[p] = "idle" <=> pc[p] = "idle"
                                      /\ pc'[p] = "closed" <=> pc[p] = "closed"
    BY <2>1, ClosedEnd DEF Procs
  <2>3. Calling'
    <3>1. \A w \in Writers : w \in Procs \ Readers
      BY PipeAssumption DEF Procs
    <3>2. \A w \in Writers : (~ InCall(w))' => todo'[w] = <<>>
      <4> SUFFICES ASSUME NEW w \in Writers, ~ (InCall(w))' PROVE todo'[w] = <<>>
        OBVIOUS
      <4>1. pc'[w] = "idle" \/ pc'[w] = "closed"
        BY DEF InCall
      <4>2. ~ InCall(w) /\ todo' = todo
        BY <2>1, <2>2, <3>1, <4>1 DEF InCall
      <4> QED
        BY <1>1, <4>2 DEF Calling
    <3>3. ~ writeopen' => \A w \in Writers : pc'[w] = "closed"
      BY <1>1, <2>1, <2>2, <3>1 DEF Calling
    <3>4. \A r \in Readers : InCall(r)' => want'[r] > 0
      BY <2>2 DEF InCall
    <3> QED
      BY <3>2, <3>3, <3>4 DEF Calling
  <2> QED
    BY <1>1, <2>1, <2>2, <2>3, QuietKeeps
<1> QED
  BY <1>2, <1>3, Zenon

-----------------------------------------------------------------------------
\* A step of the pipe keeps the invariant and is a step of the queue, or none.
LEMMA StepIsQueueStep ==
    ASSUME MaxBytes < Width, PipeInv, [Next]_vars
    PROVE  PipeInv' /\ [Queue!Next]_(Queue!vars)
<1>1. ASSUME NEW w \in Writers, WriteReturns(w) \/ WriteWaits(w) \/ WriteFails(w)
      PROVE  PipeInv' /\ [Queue!Next]_(Queue!vars)
  BY <1>1, WriteStepPuts DEF Queue!Next
<1>2. ASSUME NEW r \in Readers, ReadReturns(r) PROVE PipeInv' /\ [Queue!Next]_(Queue!vars)
  BY <1>2, ReadReturnGets DEF Queue!Next
<1>3. ASSUME CloseWrite \/ CloseRead PROVE PipeInv' /\ [Queue!Next]_(Queue!vars)
  <2>1. /\ PipeInv' /\ Contents' = Contents
        /\ UNCHANGED delivered /\ (writeopen' = FALSE \/ UNCHANGED writeopen)
    BY <1>3, ClosingKeeps
  <2> QED
    BY <2>1 DEF Queue!Next, Queue!Close, Queue!vars
<1>4. ASSUME PipeInv' /\ Contents' = Contents /\ UNCHANGED <<delivered, writeopen>>
      PROVE  PipeInv' /\ [Queue!Next]_(Queue!vars)
  BY <1>4 DEF Queue!vars
<1>5. CASE UNCHANGED vars
  <2>1. PipeInv' /\ Contents' = Contents /\ UNCHANGED <<delivered, writeopen>>
    BY <1>5 DEF vars, PipeInv, Types, Filled, Calling, InCall, Accounted, PendingOf, Contents, InBuffer
  <2> QED
    BY <1>4, <2>1
<1>6. CASE Next
  BY <1>1, <1>2, <1>3, <1>4, <1>6, OthersKeep DEF Next, WriteStep, ReadStep, Procs
<1> QED
  BY <1>5, <1>6

\* A pipe is a queue of bytes as long as its counters do not wrap, that is,
\* when fewer than Width bytes are written: nothing is lost, repeated or
\* reordered and a read of nothing means end of file, for any number of
\* readers and writers and any size (pipe_write, pipe_read, pipe_close).
THEOREM PipeImplementsQueue == ASSUME MaxBytes < Width PROVE Spec => IsQueue
<1>1. Init => PipeInv /\ Queue!Init
  <2> SUFFICES ASSUME Init PROVE Queue!Init
    BY InitPipeInv
  <2>1. nread = 0 /\ nwrite = 0 /\ delivered = <<>> /\ writeopen = TRUE
    BY DEF Init
  <2>2. Contents = Between(data, nread, 0)
    BY <2>1, InitPipeInv, Unwrapped
  <2>3. Between(data, nread, 0) = <<>>
    BY DEF Between
  <2> QED
    BY <2>1, <2>2, <2>3 DEF Queue!Init
<1>2. PipeInv /\ [Next]_vars => PipeInv' /\ [Queue!Next]_(Queue!vars)
  BY StepIsQueueStep
<1> QED
  BY <1>1, <1>2, PTL DEF Spec, IsQueue, Queue!Spec

=============================================================================
