---------------------------- MODULE VirtioProofs ----------------------------
(***************************************************************************)
(* The descriptors of the VirtIO disk driver are exact and no transfer     *)
(* returns early: for every number of processes, and every ring whose size *)
(* is 2 modulo 3, as that of the code is.  And, from "The serial line" on, *)
(* the other device: what the UART is given arrives, with interrupts at    *)
(* any place, for all texts, counts and numbers of calls.                  *)
(***************************************************************************)
EXTENDS Virtio, Output, FiniteSetTheorems, SequenceTheorems, WellFoundedInduction, TLAPS

Heads(s)     == {s[i] : i \in DOMAIN s}
NoRepeats(s) == \A i, j \in DOMAIN s : s[i] = s[j] => i = j

\* A request in flight without an answer, and the head of its chain.
Awaits(p, h) == pc[p] \in InFlight /\ p \notin valid /\ idx[p][1] = h

\* Two descriptors are left over when requests have taken all they can.
FreeCount == Cardinality(Free) % 3 = 2

\* The heads the device and the handler have are those of chains in flight
\* without an answer, each in one place; a head in the used ring has been served.
HeadsExact ==
    /\ NoRepeats(avail) /\ NoRepeats(used)
    /\ Heads(avail) \cap working = {} /\ Heads(used) \cap working = {}
    /\ Heads(avail) \cap Heads(used) = {}
    /\ \A h \in Heads(avail) \cup working \cup Heads(used) :
          /\ h \in Desc /\ owner[h] \in Procs
          /\ Awaits(owner[h], h)
          /\ h \in Heads(used) => owner[h] \in moved

IInv == TypeOK /\ DescriptorsExact /\ FreeCount /\ HeadsExact /\ NoEarlyAnswer

-----------------------------------------------------------------------------
(***************************************************************************)
(* The descriptors alloc_desc finds                                        *)
(***************************************************************************)

\* A set of natural numbers has a least element.
LEMMA Least ==
    ASSUME NEW S \in SUBSET Nat, S # {}
    PROVE  \E m \in S : \A e \in S : m <= e
<1> DEFINE R == {ss \in Nat \X Nat : ss[1] < ss[2]}
<1>1. R = OpToRel(<, Nat)
  BY Zenon DEF OpToRel
<1>2. \E m \in S : \A e \in S : ~ (<<e, m>> \in R)
  <2> HIDE DEF R
  <2>1. IsWellFoundedOn(R, Nat) /\ S \subseteq Nat
    BY <1>1, NatLessThanWellFounded, Zenon
  <2> QED
    BY <2>1, WFMin, Zenon
<1>3. PICK m \in S : \A e \in S : ~ (<<e, m>> \in R)
  BY <1>2
<1>4. m \in Nat /\ \A e \in S : e \in Nat /\ ~ (e < m)
  BY <1>3
<1> QED
  BY <1>4

\* In a set of at least k <= 3 numbers some element has k - 1 below it.
LEMMA KthLeast ==
    ASSUME NEW F \in SUBSET Nat, IsFiniteSet(F), NEW k \in Part, k <= Cardinality(F)
    PROVE  \E d \in F : Cardinality({e \in F : e < d}) = k - 1
<1> DEFINE Below(d) == {e \in F : e < d}
<1>1. k \in {1, 2, 3} /\ Cardinality(F) \in Nat
  BY FS_CardinalityType DEF Part
<1>2. F # {}
  BY <1>1, FS_EmptySet
<1>0. \A e \in F : e \in Nat
  OBVIOUS
<1>3. PICK a \in F : \A e \in F : a <= e
  BY <1>2, Least
<1>4. Below(a) = {}
  <2>1. \A e \in F : ~ (e < a)
    BY <1>0, <1>3
  <2> QED
    BY <2>1
<1>5. CASE k = 1
  BY <1>4, <1>5, FS_EmptySet
<1>6. CASE k > 1
  <2> DEFINE G == F \ {a}
  <2>1. IsFiniteSet(G) /\ Cardinality(G) = Cardinality(F) - 1
    BY <1>3, FS_RemoveElement
  <2>2. G # {}
    BY <1>1, <1>6, <2>1, FS_EmptySet
  <2>3. PICK b \in G : \A e \in G : b <= e
    BY <2>2, Least
  <2>4. Below(b) = {a} /\ a < b
    <3>1. a < b /\ \A e \in F : e < b => e = a
      BY <1>0, <1>3, <2>3
    <3> QED
      BY <3>1
  <2>5. CASE k = 2
    <3>1. Cardinality(Below(b)) = 1
      BY <2>4, FS_Singleton
    <3> QED
      BY <2>3, <2>5, <3>1
  <2>6. CASE k = 3
    <3> DEFINE H == G \ {b}
    <3>1. Cardinality(H) = Cardinality(G) - 1 /\ IsFiniteSet(H)
      BY <2>1, <2>3, FS_RemoveElement
    <3>2. H # {}
      BY <1>1, <2>1, <2>6, <3>1, FS_EmptySet
    <3>3. PICK c \in H : \A e \in H : c <= e
      BY <3>2, Least
    <3>4. Below(c) = {a} \cup {b} /\ b \notin {a}
      <4>1. a < c /\ b < c /\ a # b /\ \A e \in F : e < c => e = a \/ e = b
        BY <1>0, <1>3, <2>3, <2>4, <3>3
      <4> QED
        BY <4>1, <2>3
    <3>5. Cardinality({a} \cup {b}) = 2
      <4>1. Cardinality({a}) = 1 /\ IsFiniteSet({a})
        BY FS_Singleton
      <4>2. Cardinality({a} \cup {b}) = Cardinality({a}) + 1
        BY <3>4, <4>1, FS_AddElement, Zenon
      <4> QED
        BY <4>1, <4>2
    <3> QED
      BY <2>6, <3>3, <3>4, <3>5
  <2> QED
    BY <1>1, <1>6, <2>5, <2>6
<1> QED
  BY <1>1, <1>5, <1>6

LEMMA FreeFinite ==
    Free \in SUBSET Nat /\ Free \in SUBSET Desc /\ IsFiniteSet(Free) /\ Cardinality(Free) \in Nat
<1>1. IsFiniteSet(Desc)
  BY FS_Interval, RingAssumption DEF Desc
<1>2. Free \in SUBSET Desc /\ Desc \subseteq Nat
  BY DEF Free, Scanned, Desc
<1> QED
  BY <1>1, <1>2, FS_Subset, FS_CardinalityType

\* alloc_desc returns free descriptors, a different one each time.
LEMMA AllocDesc ==
    ASSUME NEW k \in Part, k <= Cardinality(Free)
    PROVE  NthFree(k) \in Free /\ Cardinality({e \in Free : e < NthFree(k)}) = k - 1
BY KthLeast, FreeFinite DEF NthFree

LEMMA AllocDistinct ==
    ASSUME NEW j \in Part, NEW k \in Part, j # k, j <= Cardinality(Free), k <= Cardinality(Free)
    PROVE  NthFree(j) # NthFree(k)
BY AllocDesc DEF Part

\* A shortage of descriptors leaves two free: the ring's size is 2 modulo 3.
LEMMA ShortageIsTwo == ASSUME FreeCount, Shortage PROVE Cardinality(Free) = 2
BY FreeFinite DEF FreeCount, Shortage

LEMMA TriedType ==
    ASSUME TypeOK, NEW p \in Procs
    PROVE  Tried(p) \in [Part -> Desc \cup {None}]
<1>1. \A k \in Part : k <= Cardinality(Free) => NthFree(k) \in Desc
  BY AllocDesc, FreeFinite
<1>2. idx[p] \in [Part -> Desc \cup {None}]
  BY DEF TypeOK
<1> QED
  BY <1>1, <1>2 DEF Tried

\* What an attempt that fails has taken, it gives back: it frees free ones.
LEMMA TriedInVain ==
    ASSUME FreeCount, Shortage, NEW p \in Procs
    PROVE  Freed(Tried(p)) \subseteq Free
<1>1. Cardinality(Free) = 2
  BY ShortageIsTwo
<1>2. NthFree(1) \in Free /\ NthFree(2) \in Free
  BY <1>1, AllocDesc DEF Part
<1>3. Tried(p)[1] = NthFree(1) /\ Tried(p)[2] = NthFree(2) /\ Tried(p)[3] = None
  BY <1>1 DEF Tried, Part
<1>4. \A k \in Part : k = 1 \/ k = 2 \/ k = 3
  BY DEF Part
<1> QED
  BY <1>2, <1>3, <1>4 DEF Freed

\* An attempt that succeeds has three different free descriptors.
LEMMA TriedThree ==
    ASSUME ~ Shortage, NEW p \in Procs
    PROVE  /\ \A k \in Part : Tried(p)[k] \in Free
           /\ \A j, k \in Part : Tried(p)[j] = Tried(p)[k] => j = k
<1>1. \A k \in Part : k <= Cardinality(Free)
  BY FreeFinite DEF Shortage, Part
<1>2. \A k \in Part : Tried(p)[k] = NthFree(k)
  BY <1>1 DEF Tried
<1> QED
  BY <1>1, <1>2, AllocDesc, AllocDistinct

\* A sequence of different heads is no longer than the ring.
LEMMA RingHolds ==
    ASSUME NEW s \in Seq(Desc), NoRepeats(s) PROVE Len(s) <= VIRTIO_RING_SIZE
<1>1. IsFiniteSet(Desc) /\ Cardinality(Desc) = VIRTIO_RING_SIZE
  BY FS_Interval, RingAssumption DEF Desc
<1>2. Len(s) \in Nat /\ DOMAIN s = 1 .. Len(s)
  OBVIOUS
<1>3. IsFiniteSet(1 .. Len(s)) /\ Cardinality(1 .. Len(s)) = Len(s)
  <2>1. PICK n \in Nat : n = Len(s)
    BY <1>2, Zenon
  <2>2. 1 \in Int /\ n \in Int /\ n - 1 + 1 = n /\ (1 > n => n = 0)
    BY <2>1
  <2>3. IsFiniteSet(1 .. n) /\ Cardinality(1 .. n) = IF 1 > n THEN 0 ELSE n - 1 + 1
    BY <2>2, FS_Interval, Zenon
  <2> QED
    BY <2>1, <2>2, <2>3
<1>4. s \in Injection(1 .. Len(s), Desc)
  BY <1>2 DEF NoRepeats, Injection, IsInjective
<1> QED
  BY <1>1, <1>3, <1>4, FS_Injection

\* wakeup() takes nobody into or out of a transfer.
LEMMA WakingStays ==
    ASSUME NEW places \in [Procs -> {"idle"} \cup Starting \cup InFlight]
    PROVE  /\ Woken(places) \in [Procs -> {"idle"} \cup Starting \cup InFlight]
           /\ \A p \in Procs : Woken(places)[p] \in InFlight <=> places[p] \in InFlight
BY DEF Woken, Starting, InFlight

-----------------------------------------------------------------------------
(***************************************************************************)
(* The invariant is inductive                                              *)
(***************************************************************************)

LEMMA InitIInv == ASSUME VIRTIO_RING_SIZE % 3 = 2 PROVE Init => IInv
<1> SUFFICES ASSUME Init PROVE IInv
  OBVIOUS
<1>1. TypeOK
  <2>1. 0 \in Desc
    BY RingAssumption DEF Desc
  <2>2. Empty \in [proc : Procs \cup {Nobody}, part : Part, next : Desc]
    BY <2>1 DEF Empty, Part
  <2>3. avail \in Seq(Desc) /\ Len(avail) = 0 /\ used \in Seq(Desc) /\ Len(used) = 0
    BY DEF Init
  <2> QED
    BY <2>2, <2>3, RingAssumption DEF Init, TypeOK
<1>2. FreeCount
  <2>1. Free = Desc
    BY DEF Init, Free, Scanned
  <2>2. Cardinality(Desc) = VIRTIO_RING_SIZE
    BY FS_Interval, RingAssumption DEF Desc
  <2> QED
    BY <2>1, <2>2 DEF FreeCount
<1>3. DescriptorsExact /\ NoEarlyAnswer
  BY DEF Init, DescriptorsExact, ChainsIntact, NoneLost, NoEarlyAnswer, InFlight
<1>4. HeadsExact
  BY DEF Init, HeadsExact, Heads, NoRepeats
<1> QED
  BY <1>1, <1>2, <1>3, <1>4 DEF IInv

\* Steps that leave chains, requests and answers alone.
LEMMA QuietKeeps ==
    ASSUME IInv, TypeOK', UNCHANGED <<owner, valid, device>>,
           \A d \in Desc : owner[d] # Nobody => desc'[d] = desc[d],
           \A p \in Procs : pc'[p] \in InFlight <=> pc[p] \in InFlight,
           \A p \in Procs : pc[p] \in InFlight => idx'[p] = idx[p]
    PROVE  IInv'
<1> USE DEF device
<1>1. FreeCount'
  BY DEF IInv, FreeCount, Free
<1>2. ChainsIntact'
  <2> SUFFICES ASSUME NEW p \in Procs, pc[p] \in InFlight, NEW k \in Part
               PROVE  /\ idx[p][k] # None /\ owner[idx[p][k]] = p
                      /\ desc'[idx[p][k]].proc = p /\ desc'[idx[p][k]].part = k
                      /\ k < 3 => desc'[idx[p][k]].next = idx[p][k + 1]
    BY DEF ChainsIntact
  <2>1. idx[p][k] \in Desc /\ owner[idx[p][k]] = p
    BY DEF IInv, TypeOK, DescriptorsExact, ChainsIntact
  <2>2. desc'[idx[p][k]] = desc[idx[p][k]]
    BY <2>1, RingAssumption
  <2> QED
    BY <2>2 DEF IInv, DescriptorsExact, ChainsIntact
<1>3. NoneLost'
  BY DEF IInv, TypeOK, DescriptorsExact, NoneLost
<1>4. HeadsExact'
  BY DEF IInv, HeadsExact, Awaits
<1>5. NoEarlyAnswer'
  BY DEF IInv, NoEarlyAnswer
<1> QED
  BY <1>1, <1>2, <1>3, <1>4, <1>5 DEF IInv, DescriptorsExact

\* Calls, waits and wakeups.
LEMMA WaitKeeps ==
    ASSUME IInv, OtherWakeup \/ \E p \in Procs : Call(p) \/ TransferWaits(p) \/ FallAsleep(p)
    PROVE  IInv'
<1> USE DEF ring, device
<1>1. pc \in [Procs -> {"idle"} \cup Starting \cup InFlight] /\ idx \in [Procs -> [Part -> Desc \cup {None}]]
  BY DEF IInv, TypeOK
<1>2. UNCHANGED <<owner, desc, valid, avail, working, moved, used>>
  BY DEF OtherWakeup, Call, TransferWaits, FallAsleep
<1>3. pc' \in [Procs -> {"idle"} \cup Starting \cup InFlight]
      /\ \A p \in Procs : pc'[p] \in InFlight <=> pc[p] \in InFlight
  <2>1. CASE OtherWakeup
    BY <1>1, <2>1, WakingStays DEF OtherWakeup
  <2>2. CASE \E p \in Procs : Call(p) \/ TransferWaits(p) \/ FallAsleep(p)
    BY <1>1, <2>2 DEF Call, TransferWaits, FallAsleep, Starting, InFlight
  <2> QED
    BY <2>1, <2>2
<1>4. idx' \in [Procs -> [Part -> Desc \cup {None}]]
      /\ \A p \in Procs : pc[p] \in InFlight => idx'[p] = idx[p]
  <2>1. ASSUME NEW p \in Procs, Call(p) PROVE <1>4!1 /\ <1>4!2
    <3>1. PICK g \in Desc \cup {None} : idx' = [idx EXCEPT ![p] = [k \in Part |-> g]]
      BY <2>1 DEF Call
    <3>2. pc[p] \notin InFlight
      BY <2>1 DEF Call, InFlight
    <3> QED
      BY <1>1, <3>1, <3>2
  <2>2. ASSUME ~ (\E p \in Procs : Call(p)) PROVE idx' = idx
    BY <2>2 DEF OtherWakeup, TransferWaits, FallAsleep
  <2> QED
    BY <1>1, <2>1, <2>2
<1>5. TypeOK'
  BY <1>2, <1>3, <1>4 DEF IInv, TypeOK
<1> QED
  BY <1>2, <1>3, <1>4, <1>5, QuietKeeps

\* A call short of descriptors.
LEMMA SubmitWaitsKeeps == ASSUME IInv, NEW p \in Procs, SubmitWaits(p) PROVE IInv'
<1> USE DEF ring, device
<1> DEFINE x == Tried(p)
<1>1. Shortage /\ FreeCount /\ TypeOK /\ pc[p] = "start"
  BY DEF SubmitWaits, IInv
<1>2. Freed(x) \subseteq Free
  BY <1>1, TriedInVain
<1>3. x \in [Part -> Desc \cup {None}]
  BY <1>1, TriedType
<1>4. idx' = [idx EXCEPT ![p] = x] /\ Release(x) /\ UNCHANGED <<valid, device>>
      /\ pc' = [(IF Freed(x) = {} THEN pc ELSE Woken(pc)) EXCEPT ![p] = "start_presleep"]
  BY DEF SubmitWaits
<1> HIDE DEF x
<1>5. \A d \in Freed(x) : owner[d] = Nobody
  BY <1>2 DEF Free, Scanned
<1>6. owner' = owner /\ \A d \in Desc : owner[d] # Nobody => desc'[d] = desc[d]
  BY <1>1, <1>4, <1>5 DEF Release, TypeOK
<1>7. pc' \in [Procs -> {"idle"} \cup Starting \cup InFlight]
      /\ \A q \in Procs : pc'[q] \in InFlight <=> pc[q] \in InFlight
  <2> DEFINE places == IF Freed(x) = {} THEN pc ELSE Woken(pc)
  <2>1. places \in [Procs -> {"idle"} \cup Starting \cup InFlight]
        /\ \A q \in Procs : places[q] \in InFlight <=> pc[q] \in InFlight
    BY <1>1, WakingStays DEF TypeOK
  <2>2. pc' = [places EXCEPT ![p] = "start_presleep"]
    BY <1>4
  <2> HIDE DEF places
  <2> QED
    BY <1>1, <2>1, <2>2 DEF Starting, InFlight
<1>8. desc' \in [Desc -> [proc : Procs \cup {Nobody}, part : Part, next : Desc]]
  <2>1. Empty \in [proc : Procs \cup {Nobody}, part : Part, next : Desc]
    BY RingAssumption DEF Empty, Part, Desc
  <2> QED
    BY <1>1, <1>4, <2>1 DEF Release, TypeOK
<1>9. idx' \in [Procs -> [Part -> Desc \cup {None}]] /\ \A q \in Procs : pc[q] \in InFlight => idx'[q] = idx[q]
  BY <1>1, <1>3, <1>4 DEF TypeOK, InFlight
<1>10. TypeOK'
  BY <1>1, <1>4, <1>6, <1>7, <1>8, <1>9 DEF TypeOK
<1> QED
  BY <1>4, <1>6, <1>7, <1>9, <1>10, QuietKeeps

\* The device takes a head: it is in the device's hands instead of the ring.
LEMMA DeviceTakesKeeps == ASSUME IInv, DeviceTakes PROVE IInv'
<1> USE DEF ring
<1>1. avail # <<>> /\ working' = working \cup {Head(avail)} /\ avail' = Tail(avail)
      /\ UNCHANGED <<owner, desc, idx, valid, moved, used, pc>>
  BY DEF DeviceTakes
<1>2. avail \in Seq(Desc) /\ NoRepeats(avail) /\ Len(avail) <= VIRTIO_RING_SIZE /\ working \in SUBSET Desc
  BY DEF IInv, TypeOK, HeadsExact
<1>3. /\ avail' \in Seq(Desc) /\ Len(avail') = Len(avail) - 1
      /\ 1 \in DOMAIN avail /\ Head(avail) = avail[1]
      /\ \A i \in DOMAIN avail' : i + 1 \in DOMAIN avail /\ avail'[i] = avail[i + 1] /\ i + 1 # 1
  BY <1>1, <1>2
<1>4. NoRepeats(avail')
  BY <1>2, <1>3 DEF NoRepeats
<1>5. Heads(avail') \subseteq Heads(avail) /\ Head(avail) \in Heads(avail) /\ Head(avail) \notin Heads(avail')
  BY <1>2, <1>3 DEF Heads, NoRepeats
<1>6. TypeOK'
  <2>1. Head(avail) \in Desc /\ Len(avail') <= VIRTIO_RING_SIZE
    BY <1>2, <1>3, RingAssumption
  <2> QED
    BY <1>1, <1>3, <2>1 DEF IInv, TypeOK
<1>7. HeadsExact'
  <2>1. Heads(used') = Heads(used)
    BY <1>1 DEF Heads
  <2> QED
    BY <1>1, <1>4, <1>5, <2>1 DEF IInv, HeadsExact, Awaits
<1> QED
  BY <1>1, <1>6, <1>7 DEF IInv, DescriptorsExact, ChainsIntact, NoneLost, FreeCount, Free, NoEarlyAnswer

\* The device ends the work on a head: the request it names is served.
LEMMA DeviceDoneKeeps == ASSUME IInv, NEW h \in Desc, DeviceDone(h) PROVE IInv'
<1> USE DEF ring
<1> DEFINE p == owner[h]
<1>1. h \in working /\ working' = working \ {h} /\ used' = Append(used, h)
      /\ moved' = moved \cup ({desc[desc[h].next].proc} \ {Nobody})
      /\ UNCHANGED <<owner, desc, idx, valid, avail, pc>>
  BY DEF DeviceDone
<1>2. p \in Procs /\ pc[p] \in InFlight /\ p \notin valid /\ idx[p][1] = h /\ h \notin Heads(used)
  BY <1>1 DEF IInv, HeadsExact, Awaits
<1>3. desc[desc[h].next].proc = p
  <2>1. 1 \in Part /\ 2 \in Part /\ 1 < 3
    BY DEF Part
  <2> QED
    BY <1>2, <2>1 DEF IInv, DescriptorsExact, ChainsIntact
<1>4. moved' = moved \cup {p}
  BY <1>1, <1>2, <1>3, RingAssumption
<1>5. used \in Seq(Desc) /\ NoRepeats(used)
  BY DEF IInv, TypeOK, HeadsExact
<1>6. /\ used' \in Seq(Desc) /\ DOMAIN used' = DOMAIN used \cup {Len(used) + 1}
      /\ used'[Len(used) + 1] = h /\ \A i \in DOMAIN used : used'[i] = used[i]
  BY <1>1, <1>5
<1>7. Heads(used') = Heads(used) \cup {h}
  BY <1>6 DEF Heads
<1>8. NoRepeats(used')
  BY <1>2, <1>5, <1>6 DEF NoRepeats, Heads
<1>9. TypeOK'
  <2>1. Len(used') <= VIRTIO_RING_SIZE
    BY <1>6, <1>8, RingHolds
  <2>2. moved' \in SUBSET Procs
    BY <1>2, <1>4 DEF IInv, TypeOK
  <2> QED
    BY <1>1, <1>6, <2>1, <2>2 DEF IInv, TypeOK
<1>10. HeadsExact'
  <2>1. Heads(avail') = Heads(avail)
    BY <1>1 DEF Heads
  <2> QED
    BY <1>1, <1>4, <1>7, <1>8, <2>1 DEF IInv, HeadsExact, Awaits
<1>11. NoEarlyAnswer'
  BY <1>1, <1>4 DEF IInv, NoEarlyAnswer
<1> QED
  BY <1>1, <1>9, <1>10, <1>11 DEF IInv, DescriptorsExact, ChainsIntact, NoneLost, FreeCount, Free

\* The handler answers the requests whose heads are in the used ring: they have
\* been served, and their heads are nowhere any more.
LEMMA IntrKeeps == ASSUME IInv, Intr PROVE IInv'
<1> USE DEF ring
<1>1. used' = <<>> /\ valid' = valid \cup ({owner[h] : h \in Completed} \ {Nobody})
      /\ pc' = (IF \A h \in Completed : owner[h] = Nobody THEN pc ELSE Woken(pc))
      /\ UNCHANGED <<owner, desc, idx, avail, working, moved>>
  BY DEF Intr
<1>2. pc \in [Procs -> {"idle"} \cup Starting \cup InFlight]
  BY DEF IInv, TypeOK
<1>3. pc' \in [Procs -> {"idle"} \cup Starting \cup InFlight]
      /\ \A p \in Procs : pc'[p] \in InFlight <=> pc[p] \in InFlight
  BY <1>1, <1>2, WakingStays
<1>4. Completed = Heads(used)
  BY DEF Completed, Heads
<1>5. \A h \in Completed : owner[h] \in Procs /\ owner[h] \in moved /\ Awaits(owner[h], h)
  BY <1>4 DEF IInv, HeadsExact
<1>6. valid' = valid \cup {owner[h] : h \in Completed}
  BY <1>1, <1>5, RingAssumption
<1>7. Heads(used') = {} /\ NoRepeats(used') /\ used' \in Seq(Desc) /\ Len(used') = 0
  BY <1>1 DEF Heads, NoRepeats
<1>8. TypeOK'
  <2>1. valid' \in SUBSET Procs
    BY <1>5, <1>6 DEF IInv, TypeOK
  <2> QED
    BY <1>1, <1>3, <1>7, <2>1, RingAssumption DEF IInv, TypeOK
<1>9. HeadsExact'
  <2>1. Heads(avail') = Heads(avail) /\ NoRepeats(avail')
    BY <1>1 DEF Heads, IInv, HeadsExact
  <2>2. ASSUME NEW h \in Heads(avail) \cup working
        PROVE  h \in Desc /\ owner[h] \in Procs /\ Awaits(owner[h], h)'
    <3>1. h \in Desc /\ owner[h] \in Procs /\ Awaits(owner[h], h) /\ h \notin Completed
      BY <1>4, <2>2 DEF IInv, HeadsExact
    <3>2. owner[h] \notin {owner[g] : g \in Completed}
      BY <1>5, <3>1 DEF Awaits
    <3> QED
      BY <1>1, <1>3, <1>6, <3>1, <3>2 DEF Awaits
  <2> QED
    BY <1>1, <1>7, <2>1, <2>2 DEF IInv, HeadsExact
<1>10. NoEarlyAnswer'
  BY <1>1, <1>3, <1>5, <1>6 DEF IInv, NoEarlyAnswer
<1>11. DescriptorsExact' /\ FreeCount'
  <2>1. ChainsIntact' /\ FreeCount'
    BY <1>1, <1>3 DEF IInv, DescriptorsExact, ChainsIntact, FreeCount, Free
  <2>2. NoneLost'
    BY <1>1, <1>3 DEF IInv, TypeOK, DescriptorsExact, NoneLost
  <2> QED
    BY <2>1, <2>2 DEF DescriptorsExact
<1> QED
  BY <1>8, <1>9, <1>10, <1>11 DEF IInv

\* Three elements more or less.
LEMMA ThreeMore ==
    ASSUME NEW F, IsFiniteSet(F), NEW x \in [Part -> STRING \cup Int],
           \A j, k \in Part : x[j] = x[k] => j = k,
           \A k \in Part : x[k] \notin F
    PROVE  Cardinality(F \cup {x[k] : k \in Part}) = Cardinality(F) + 3
<1>1. {x[k] : k \in Part} = {x[1], x[2], x[3]} /\ 1 \in Part /\ 2 \in Part /\ 3 \in Part
  BY DEF Part
<1>2. IsFiniteSet(F \cup {x[1]}) /\ Cardinality(F \cup {x[1]}) = Cardinality(F) + 1
  BY <1>1, FS_AddElement
<1>3. x[2] \notin F \cup {x[1]}
  BY <1>1
<1>4. IsFiniteSet((F \cup {x[1]}) \cup {x[2]})
      /\ Cardinality((F \cup {x[1]}) \cup {x[2]}) = Cardinality(F \cup {x[1]}) + 1
  BY <1>2, <1>3, FS_AddElement
<1>5. x[3] \notin (F \cup {x[1]}) \cup {x[2]}
  BY <1>1
<1>6. Cardinality(((F \cup {x[1]}) \cup {x[2]}) \cup {x[3]}) = Cardinality((F \cup {x[1]}) \cup {x[2]}) + 1
  BY <1>4, <1>5, FS_AddElement
<1>7. F \cup {x[k] : k \in Part} = ((F \cup {x[1]}) \cup {x[2]}) \cup {x[3]}
  BY <1>1
<1>8. Cardinality(F) \in Nat
  BY FS_CardinalityType
<1>9. Cardinality(((F \cup {x[1]}) \cup {x[2]}) \cup {x[3]}) = Cardinality(F) + 3
  BY <1>2, <1>4, <1>6, <1>8
<1> QED
  BY <1>7, <1>9, Zenon

\* Three descriptors are taken and the head is handed to the device.
LEMMA SubmitKeeps == ASSUME IInv, NEW p \in Procs, Submit(p) PROVE IInv'
<1> DEFINE x == Tried(p)
<1>1. /\ pc[p] = "start" /\ pc[p] \notin InFlight /\ ~ Shortage /\ TypeOK
      /\ idx' = [idx EXCEPT ![p] = x]
      /\ owner' = [d \in Desc |-> IF \E k \in Part : x[k] = d THEN p ELSE owner[d]]
      /\ desc' = [d \in Desc |->
                    IF \E k \in Part : x[k] = d
                    THEN LET k == CHOOSE j \in Part : x[j] = d
                         IN  [proc |-> p, part |-> k, next |-> IF k < 3 THEN x[k + 1] ELSE 0]
                    ELSE desc[d]]
      /\ avail' = Append(avail, x[1])
      /\ valid' = valid \ {p} /\ moved' = moved \ {p}
      /\ pc' = [pc EXCEPT ![p] = "wait"] /\ UNCHANGED <<working, used>>
  BY DEF Submit, Invalidated, InFlight, IInv
<1>2. /\ \A k \in Part : x[k] \in Free /\ x[k] \in Desc /\ owner[x[k]] = Nobody
      /\ \A j, k \in Part : x[j] = x[k] => j = k
  BY <1>1, TriedThree, FreeFinite DEF Free, Scanned
<1>3. x \in [Part -> Desc \cup {None}]
  BY <1>1, TriedType
<1> HIDE DEF x
<1> DEFINE nx == [k \in Part |-> IF k < 3 THEN x[k + 1] ELSE 0]
<1>8. /\ nx \in [Part -> Desc]
      /\ \A k \in Part : k < 3 => nx[k] = x[k + 1]
  <2>1. 0 \in Desc
    BY RingAssumption DEF Desc
  <2> QED
    BY <1>2, <2>1 DEF Part
<1>4. \A k \in Part : owner'[x[k]] = p /\ desc'[x[k]] = [proc |-> p, part |-> k, next |-> nx[k]]
  <2> SUFFICES ASSUME NEW k \in Part
               PROVE  owner'[x[k]] = p /\ desc'[x[k]] = [proc |-> p, part |-> k, next |-> nx[k]]
    OBVIOUS
  <2>1. (CHOOSE j \in Part : x[j] = x[k]) = k
    BY <1>2
  <2> QED
    BY <1>1, <1>2, <2>1
<1> HIDE DEF nx
<1>5. \A d \in Desc : owner[d] # Nobody => owner'[d] = owner[d] /\ desc'[d] = desc[d] /\ owner[d] # p
  BY <1>1, <1>2 DEF IInv, DescriptorsExact, NoneLost
<1>6. \A q \in Procs \ {p} : pc'[q] = pc[q] /\ idx'[q] = idx[q]
  BY <1>1 DEF TypeOK
<1>7. pc'[p] \in InFlight /\ idx'[p] = x
  BY <1>1 DEF TypeOK, InFlight
<1>9. ChainsIntact'
  <2>1. ASSUME NEW k \in Part PROVE /\ x[k] # None /\ owner'[x[k]] = p
                                    /\ desc'[x[k]].proc = p /\ desc'[x[k]].part = k
                                    /\ k < 3 => desc'[x[k]].next = x[k + 1]
    <3>1. x[k] # None
      BY <1>2, RingAssumption DEF None, Desc
    <3>2. owner'[x[k]] = p /\ desc'[x[k]] = [proc |-> p, part |-> k, next |-> nx[k]]
      BY <1>4
    <3>3. desc'[x[k]].proc = p /\ desc'[x[k]].part = k /\ desc'[x[k]].next = nx[k]
      BY <3>2
    <3>4. k < 3 => nx[k] = x[k + 1]
      BY <1>8
    <3> QED
      BY <3>1, <3>2, <3>3, <3>4
  <2>2. ASSUME NEW q \in Procs \ {p}, pc[q] \in InFlight, NEW k \in Part
        PROVE  /\ idx[q][k] # None /\ owner'[idx[q][k]] = q
               /\ desc'[idx[q][k]].proc = q /\ desc'[idx[q][k]].part = k
               /\ k < 3 => desc'[idx[q][k]].next = idx[q][k + 1]
    <3>1. idx[q][k] \in Desc /\ owner[idx[q][k]] = q
      BY <2>2 DEF IInv, TypeOK, DescriptorsExact, ChainsIntact
    <3> QED
      BY <1>5, <2>2, <3>1, RingAssumption DEF IInv, DescriptorsExact, ChainsIntact
  <2> QED
    BY <1>6, <1>7, <2>1, <2>2 DEF ChainsIntact
<1>10. NoneLost'
  <2> SUFFICES ASSUME NEW d \in Desc, owner'[d] # Nobody
               PROVE  pc'[owner'[d]] \in InFlight /\ \E k \in Part : idx'[owner'[d]][k] = d
    BY DEF NoneLost
  <2>1. CASE \E k \in Part : x[k] = d
    BY <1>4, <1>7, <2>1
  <2>2. CASE ~ \E k \in Part : x[k] = d
    <3>1. owner'[d] = owner[d] /\ owner[d] \in Procs \ {p}
      BY <1>1, <1>5, <2>2 DEF TypeOK
    <3> QED
      BY <1>6, <3>1 DEF IInv, DescriptorsExact, NoneLost
  <2> QED
    BY <2>1, <2>2
<1>11. FreeCount'
  <2> DEFINE X == {x[k] : k \in Part}
  <2>1. Free' = Free \ X /\ X \subseteq Free
    BY <1>1, <1>2, RingAssumption DEF Free, Scanned
  <2>2. IsFiniteSet(Free') /\ Cardinality(Free') \in Nat
    BY <2>1, FreeFinite, FS_Subset, FS_CardinalityType
  <2>3. Free = Free' \cup X /\ \A k \in Part : x[k] \notin Free'
    BY <2>1
  <2>4. x \in [Part -> STRING \cup Int]
    BY <1>3 DEF Desc, None
  <2>5. Cardinality(Free) = Cardinality(Free') + 3
    BY <1>2, <2>2, <2>3, <2>4, ThreeMore
  <2> QED
    BY <2>2, <2>5 DEF IInv, FreeCount
<1>12. 1 \in Part
  BY DEF Part
<1>13. HeadsExact'
  <2> DEFINE Old == Heads(avail) \cup working \cup Heads(used)
  <2>1. \A h \in Old : owner[h] # Nobody /\ h \in Desc
    BY RingAssumption DEF IInv, HeadsExact
  <2>2. x[1] \notin Old
    BY <1>2, <1>12, <2>1
  <2>3. avail \in Seq(Desc) /\ NoRepeats(avail) /\ x[1] \in Desc
    BY <1>2, <1>12 DEF IInv, TypeOK, HeadsExact
  <2>4. /\ DOMAIN avail' = DOMAIN avail \cup {Len(avail) + 1}
        /\ avail'[Len(avail) + 1] = x[1] /\ \A i \in DOMAIN avail : avail'[i] = avail[i]
    BY <1>1, <2>3
  <2>5. Heads(avail') = Heads(avail) \cup {x[1]} /\ Heads(used') = Heads(used) /\ working' = working
    BY <1>1, <2>4 DEF Heads
  <2>6. NoRepeats(avail')
    BY <2>2, <2>3, <2>4 DEF NoRepeats, Heads
  <2>7. ASSUME NEW h \in Old
        PROVE  /\ owner'[h] \in Procs /\ Awaits(owner[h], h)'
               /\ h \in Heads(used) => owner'[h] \in moved'
    <3>1. h \in Desc /\ owner[h] \in Procs \ {p} /\ owner'[h] = owner[h] /\ Awaits(owner[h], h)
          /\ (h \in Heads(used) => owner[h] \in moved)
      BY <1>5, <2>1 DEF IInv, HeadsExact
    <3> QED
      BY <1>1, <1>6, <3>1 DEF Awaits
  <2>8. ASSUME NEW h, h = x[1] PROVE owner'[h] = p /\ Awaits(owner[h], h)'
    <3>1. owner'[h] = p
      BY <1>4, <1>12, <2>8
    <3>2. p \notin valid'
      BY <1>1
    <3> QED
      BY <1>7, <2>8, <3>1, <3>2 DEF Awaits
  <2>9. NoRepeats(used')
    BY <1>1 DEF IInv, HeadsExact
  <2> HIDE DEF Old
  <2>10. \A h \in Heads(avail') \cup working' \cup Heads(used') : h \in Old \/ h = x[1]
    BY <2>5 DEF Old
  <2>11. Heads(avail') \cap working' = {} /\ Heads(used') \cap working' = {} /\ Heads(avail') \cap Heads(used') = {}
    BY <2>2, <2>5 DEF Old, IInv, HeadsExact
  <2>12. x[1] \notin Heads(used')
    BY <2>2, <2>5 DEF Old
  <2> QED
    BY <2>1, <2>3, <2>5, <2>6, <2>7, <2>8, <2>9, <2>10, <2>11, <2>12 DEF HeadsExact
<1>14. NoEarlyAnswer'
  BY <1>1, <1>6 DEF IInv, NoEarlyAnswer
<1>15. TypeOK'
  <2>1. owner' \in [Desc -> Procs \cup {Nobody}]
    BY <1>1 DEF TypeOK
  <2>2. desc' \in [Desc -> [proc : Procs \cup {Nobody}, part : Part, next : Desc]]
    <3> SUFFICES ASSUME NEW d \in Desc PROVE desc'[d] \in [proc : Procs \cup {Nobody}, part : Part, next : Desc]
      BY <1>1
    <3>1. CASE \E k \in Part : x[k] = d
      <4>1. PICK k \in Part : x[k] = d
        BY <3>1
      <4>2. nx[k] \in Desc /\ desc'[x[k]] = [proc |-> p, part |-> k, next |-> nx[k]]
        BY <1>4, <1>8
      <4>3. [proc |-> p, part |-> k, next |-> nx[k]] \in [proc : Procs \cup {Nobody}, part : Part, next : Desc]
        BY <4>2
      <4> QED
        BY <4>1, <4>2, <4>3
    <3>2. CASE ~ \E k \in Part : x[k] = d
      BY <1>1, <3>2 DEF TypeOK
    <3> QED
      BY <3>1, <3>2
  <2>3. avail' \in Seq(Desc) /\ Len(avail') <= VIRTIO_RING_SIZE
    <3>1. avail' \in Seq(Desc)
      BY <1>1, <1>2, <1>12 DEF TypeOK
    <3> QED
      BY <1>13, <3>1, RingHolds DEF HeadsExact
  <2>4. idx' \in [Procs -> [Part -> Desc \cup {None}]] /\ pc' \in [Procs -> {"idle"} \cup Starting \cup InFlight]
    BY <1>1, <1>3 DEF TypeOK, InFlight
  <2> QED
    BY <1>1, <2>1, <2>2, <2>3, <2>4 DEF TypeOK
<1> QED
  BY <1>9, <1>10, <1>11, <1>13, <1>14, <1>15 DEF IInv, DescriptorsExact

\* A transfer returns: its three descriptors are free again.
LEMMA ReturnKeeps == ASSUME IInv, NEW p \in Procs, Return(p) PROVE IInv'
<1> USE DEF ring, device
<1>1. /\ pc[p] = "wait" /\ pc[p] \in InFlight /\ p \in valid /\ TypeOK
      /\ Release(idx[p]) /\ idx' = [idx EXCEPT ![p] = [k \in Part |-> None]]
      /\ pc' = Woken([pc EXCEPT ![p] = "idle"])
      /\ UNCHANGED <<valid, avail, working, moved, used>>
  BY DEF Return, InFlight, IInv
<1>2. /\ \A k \in Part : idx[p][k] \in Desc /\ idx[p][k] # None /\ owner[idx[p][k]] = p
      /\ \A j, k \in Part : idx[p][j] = idx[p][k] => j = k
  BY <1>1 DEF TypeOK, IInv, DescriptorsExact, ChainsIntact
<1>3. \A d \in Desc : d \in Freed(idx[p]) <=> owner[d] = p
  <2>1. \A d \in Desc : owner[d] = p => \E k \in Part : idx[p][k] = d
    BY RingAssumption DEF IInv, DescriptorsExact, NoneLost
  <2> QED
    BY <1>2, <2>1 DEF Freed
<1>4. /\ owner' = [d \in Desc |-> IF owner[d] = p THEN Nobody ELSE owner[d]]
      /\ desc' = [d \in Desc |-> IF owner[d] = p THEN Empty ELSE desc[d]]
  BY <1>1, <1>3 DEF Release
<1>5. pc' \in [Procs -> {"idle"} \cup Starting \cup InFlight] /\ pc'[p] \notin InFlight
      /\ \A q \in Procs \ {p} : pc'[q] \in InFlight <=> pc[q] \in InFlight
  <2> DEFINE places == [pc EXCEPT ![p] = "idle"]
  <2>1. places \in [Procs -> {"idle"} \cup Starting \cup InFlight] /\ places[p] = "idle"
        /\ \A q \in Procs \ {p} : places[q] = pc[q]
    BY <1>1 DEF TypeOK
  <2>2. pc' = Woken(places)
    BY <1>1
  <2> HIDE DEF places
  <2>3. "idle" \notin InFlight
    BY DEF InFlight
  <2> QED
    BY <2>1, <2>2, <2>3, WakingStays
<1>6. \A q \in Procs \ {p} : idx'[q] = idx[q]
  BY <1>1 DEF TypeOK
<1>7. \A d \in Desc : owner[d] \in Procs \ {p} => owner'[d] = owner[d] /\ desc'[d] = desc[d]
  BY <1>4
<1>8. ChainsIntact'
  <2> SUFFICES ASSUME NEW q \in Procs \ {p}, pc[q] \in InFlight, NEW k \in Part
               PROVE  /\ idx[q][k] # None /\ owner'[idx[q][k]] = q
                      /\ desc'[idx[q][k]].proc = q /\ desc'[idx[q][k]].part = k
                      /\ k < 3 => desc'[idx[q][k]].next = idx[q][k + 1]
    BY <1>5, <1>6 DEF ChainsIntact
  <2>1. idx[q][k] \in Desc /\ owner[idx[q][k]] = q
    BY <1>1 DEF TypeOK, IInv, DescriptorsExact, ChainsIntact
  <2> QED
    BY <1>7, <2>1 DEF IInv, DescriptorsExact, ChainsIntact
<1>9. NoneLost'
  <2> SUFFICES ASSUME NEW d \in Desc, owner'[d] # Nobody
               PROVE  pc'[owner'[d]] \in InFlight /\ \E k \in Part : idx'[owner'[d]][k] = d
    BY DEF NoneLost
  <2>1. owner'[d] = owner[d] /\ owner[d] \in Procs \ {p}
    BY <1>1, <1>4 DEF TypeOK
  <2> QED
    BY <1>5, <1>6, <2>1 DEF IInv, DescriptorsExact, NoneLost
<1>10. FreeCount'
  <2> DEFINE x == idx[p]
             X == {x[k] : k \in Part}
  <2>1. Free' = Free \cup X /\ \A k \in Part : x[k] \notin Free
    <3>1. Free' = {d \in Desc : owner'[d] = Nobody} /\ Free = {d \in Desc : owner[d] = Nobody}
      BY DEF Free, Scanned
    <3>2. \A d \in Desc : owner'[d] = Nobody <=> owner[d] = Nobody \/ owner[d] = p
      BY <1>1, <1>4, RingAssumption
    <3>3. \A d \in Desc : owner[d] = p <=> d \in X
      BY <1>2, <1>3 DEF Freed
    <3>4. X \subseteq Desc /\ \A k \in Part : owner[x[k]] # Nobody
      BY <1>2, RingAssumption
    <3> QED
      BY <3>1, <3>2, <3>3, <3>4
  <2>2. x \in [Part -> STRING \cup Int]
    BY <1>1 DEF TypeOK, Desc, None
  <2>3. Cardinality(Free') = Cardinality(Free) + 3
    BY <1>2, <2>1, <2>2, FreeFinite, ThreeMore
  <2> QED
    BY <2>3, FreeFinite DEF IInv, FreeCount
<1>11. HeadsExact'
  <2>1. Heads(avail') = Heads(avail) /\ Heads(used') = Heads(used) /\ NoRepeats(avail') /\ NoRepeats(used')
    BY <1>1 DEF Heads, IInv, HeadsExact
  <2>2. ASSUME NEW h \in Heads(avail) \cup working \cup Heads(used)
        PROVE  /\ h \in Desc /\ owner'[h] \in Procs /\ Awaits(owner[h], h)'
               /\ h \in Heads(used) => owner'[h] \in moved
    <3>1. h \in Desc /\ owner[h] \in Procs /\ Awaits(owner[h], h) /\ (h \in Heads(used) => owner[h] \in moved)
      BY <2>2 DEF IInv, HeadsExact
    <3>2. owner[h] # p
      BY <1>1, <3>1 DEF Awaits
    <3> QED
      BY <1>1, <1>5, <1>6, <1>7, <3>1, <3>2 DEF Awaits
  <2> QED
    BY <1>1, <2>1, <2>2 DEF IInv, HeadsExact
<1>12. NoEarlyAnswer'
  BY <1>1, <1>5 DEF IInv, NoEarlyAnswer
<1>13. TypeOK'
  <2>1. Empty \in [proc : Procs \cup {Nobody}, part : Part, next : Desc]
    BY RingAssumption DEF Empty, Part, Desc
  <2>2. owner' \in [Desc -> Procs \cup {Nobody}]
    BY <1>1, <1>4 DEF TypeOK
  <2>3. desc' \in [Desc -> [proc : Procs \cup {Nobody}, part : Part, next : Desc]]
    BY <1>1, <1>4, <2>1 DEF TypeOK
  <2>4. idx' \in [Procs -> [Part -> Desc \cup {None}]]
    BY <1>1 DEF TypeOK
  <2> QED
    BY <1>1, <1>5, <2>2, <2>3, <2>4 DEF TypeOK
<1> QED
  BY <1>8, <1>9, <1>10, <1>11, <1>12, <1>13 DEF IInv, DescriptorsExact

LEMMA StepIInv == IInv /\ [Next]_vars => IInv'
<1> SUFFICES ASSUME IInv, [Next]_vars PROVE IInv'
  OBVIOUS
<1>1. CASE UNCHANGED vars
  <2>1. UNCHANGED <<owner, desc, idx, valid, avail, working, moved, used, pc>>
    BY <1>1 DEF vars
  <2>2. TypeOK'
    BY <2>1 DEF IInv, TypeOK
  <2> QED
    BY <2>1, <2>2, QuietKeeps DEF device
<1>2. CASE Next
  BY <1>2, WaitKeeps, SubmitKeeps, SubmitWaitsKeeps, ReturnKeeps, DeviceTakesKeeps,
     DeviceDoneKeeps, IntrKeeps DEF Next, Device
<1> QED
  BY <1>1, <1>2

LEMMA Invariance == ASSUME VIRTIO_RING_SIZE % 3 = 2 PROVE Spec => []IInv
<1>1. Init => IInv
  BY InitIInv
<1> QED
  BY <1>1, StepIInv, PTL DEF Spec

\* A descriptor is in a chain in flight, in its place, or free: whatever calls,
\* shortages, completions and wakeups interleave, and whatever the local idx
\* holds when a call starts (alloc_desc, free_desc, virtio_disk_rw).
THEOREM DescriptorsAreExact ==
    ASSUME VIRTIO_RING_SIZE % 3 = 2 PROVE Spec => []DescriptorsExact
<1>1. IInv => DescriptorsExact
  BY DEF IInv
<1> QED
  BY <1>1, Invariance, PTL

\* A transfer returns only when the device has carried out its own request,
\* however often heads have been used before (virtio_disk_intr).
THEOREM AnswersAreOwn ==
    ASSUME VIRTIO_RING_SIZE % 3 = 2 PROVE Spec => []NoEarlyAnswer
<1>1. IInv => NoEarlyAnswer
  BY DEF IInv
<1> QED
  BY <1>1, Invariance, PTL

-----------------------------------------------------------------------------
(***************************************************************************)
(* The serial line                                                         *)
(*                                                                         *)
(* uart_putchar, under the calls that print and the interrupts whose       *)
(* handler prints too.  CallInv is about the thread alone: how much of its *)
(* text the call has stored.  LineInv adds the handler and the register.   *)
(***************************************************************************)

\* sys_write has stored h of the n characters of buf, and t is left.
Copying(buf, n, h, t) ==
    \E k \in Nat : k < n /\ h = SubSeq(buf, 1, k) /\ t = SubSeq(buf, k + 1, n)

LEMMA CopyStarts ==
    ASSUME NEW buf \in Seq(STRING), NEW n \in Nat, 0 < n, n <= Len(buf)
    PROVE  Copying(buf, n, <<>>, SubSeq(buf, 1, n))
<1>1. SubSeq(buf, 1, 0) = <<>>
  OBVIOUS
<1> QED
  BY <1>1 DEF Copying

LEMMA CopyGoesOn ==
    ASSUME NEW buf \in Seq(STRING), NEW n \in Nat, n <= Len(buf), NEW h, NEW t, Copying(buf, n, h, t)
    PROVE  /\ Len(t) > 1 => Copying(buf, n, Append(h, Head(t)), Tail(t))
           /\ ~ Len(t) > 1 => Append(h, Head(t)) = SubSeq(buf, 1, n)
<1>1. PICK k \in Nat : k < n /\ h = SubSeq(buf, 1, k) /\ t = SubSeq(buf, k + 1, n)
  BY DEF Copying
<1>2. /\ t \in Seq(STRING) /\ Len(t) = n - k /\ \A i \in 1 .. n - k : t[i] = buf[k + i]
      /\ h \in Seq(STRING) /\ Len(h) = k /\ \A i \in 1 .. k : h[i] = buf[i]
  <2>1. \A i \in 1 .. n : buf[i] \in STRING
    BY ElementOfSeq
  <2>2. PICK j \in Int : j = k + 1
    OBVIOUS
  <2>3. (\A i \in j .. n : buf[i] \in STRING) /\ (\A i \in 1 .. k : buf[i] \in STRING)
    BY <1>1, <2>1, <2>2
  <2>4. t = SubSeq(buf, j, n) /\ n - j + 1 = n - k /\ j <= n /\ 1 \in Int /\ k \in Int /\ n \in Int
    BY <1>1, <2>2
  <2>5. /\ t \in Seq(STRING) /\ Len(t) = n - j + 1 /\ \A i \in 1 .. n - j + 1 : t[i] = buf[j + i - 1]
    BY <2>3, <2>4, SubSeqProperties
  <2>6. h \in Seq(STRING) /\ Len(h) = (IF 1 <= k THEN k - 1 + 1 ELSE 0) /\ \A i \in 1 .. k - 1 + 1 : h[i] = buf[1 + i - 1]
    BY <1>1, <2>3, <2>4, SubSeqProperties
  <2>7. t \in Seq(STRING) /\ Len(t) = n - k /\ \A i \in 1 .. n - k : t[i] = buf[k + i]
    <3>1. n - j + 1 = n - k /\ \A i \in 1 .. n - k : j + i - 1 = k + i
      BY <2>2
    <3> QED
      BY <2>5, <3>1
  <2>8. Len(h) = k /\ \A i \in 1 .. k : h[i] = buf[i]
    <3>1. k - 1 + 1 = k /\ \A i \in 1 .. k : 1 + i - 1 = i
      OBVIOUS
    <3> QED
      BY <2>6, <3>1
  <2> QED
    BY <2>6, <2>7, <2>8
<1>3. Head(t) = buf[k + 1] /\ Tail(t) = SubSeq(buf, (k + 1) + 1, n)
  BY <1>1, HeadTailOfSubSeq
<1>4. Append(h, Head(t)) = SubSeq(buf, 1, k + 1)
  <2>1. /\ Append(h, Head(t)) \in Seq(STRING) /\ Len(Append(h, Head(t))) = k + 1
        /\ \A i \in 1 .. k + 1 : Append(h, Head(t))[i] = buf[i]
    BY <1>1, <1>2, <1>3
  <2>2. /\ SubSeq(buf, 1, k + 1) \in Seq(STRING) /\ Len(SubSeq(buf, 1, k + 1)) = k + 1
        /\ \A i \in 1 .. k + 1 : SubSeq(buf, 1, k + 1)[i] = buf[i]
    BY <1>1
  <2> QED
    BY <2>1, <2>2, SeqEqual
<1>5. CASE Len(t) > 1
  <2>1. k + 1 < n
    BY <1>2, <1>5
  <2>2. PICK l \in Nat : l = k + 1
    OBVIOUS
  <2>3. l < n /\ Append(h, Head(t)) = SubSeq(buf, 1, l) /\ Tail(t) = SubSeq(buf, l + 1, n)
    BY <1>3, <1>4, <2>1, <2>2
  <2>4. Copying(buf, n, Append(h, Head(t)), Tail(t))
    BY <2>3 DEF Copying
  <2> QED
    BY <1>5, <2>4
<1>6. CASE ~ Len(t) > 1
  BY <1>1, <1>2, <1>4, <1>6
<1> QED
  BY <1>5, <1>6

\* What is known of the thread's call while it runs: of a write its arguments,
\* and how far it has got; of a number that no handler takes it.
WriteCall  == call.buf \in Bufs /\ call.n \in Counts
NumberCall == call.v \in CallNumbers
HalfDone   == MayWrite(call.fd, call.buf, call.n) /\ ret = call.n /\ Copying(call.buf, call.n, handed, todo)

CallInv ==
    /\ at \in {"idle", "user", "test", "store", "halted"}
    /\ call.kind # "u_printf" => rest = <<>>
    /\ at = "user" => call.kind \in {"u_printf", "write", "number"}
    /\ call.kind = "write" => WriteCall
    /\ call.kind = "number" => NumberCall
    /\ at = "user" /\ call.kind = "write" => handed = <<>>
    /\ at \in {"test", "store"} /\ call.kind = "write" => HalfDone
    /\ at \in {"test", "store"} /\ call.kind = "number" => ret = -1 /\ call.v # 6
    /\ ResultOfCall

\* A call begins.
LEMMA CallBegins ==
    ASSUME NEW c, call' = c, handed' = <<>>, at' \in {"idle", "user", "test"},
           c.kind # "u_printf" => rest' = <<>>,
           at' = "user" => c.kind \in {"u_printf", "write", "number"},
           c.kind \in {"write", "number"} => at' = "user",
           c.kind = "write" => c.buf \in Bufs /\ c.n \in Counts,
           c.kind = "number" => c.v \in CallNumbers
    PROVE  CallInv'
BY DEF CallInv, WriteCall, NumberCall, HalfDone, ResultOfCall

\* And it goes on without changing what is known of it.
LEMMA CallWaits ==
    ASSUME CallInv, call' = call, rest' = rest, todo' = todo, handed' = handed, ret' = ret, at' = at
    PROVE  CallInv'
BY DEF CallInv, WriteCall, NumberCall, HalfDone, ResultOfCall, MayWrite

LEMMA CallTests ==
    ASSUME CallInv, call' = call, rest' = rest, todo' = todo, handed' = handed, ret' = ret,
           at = "test", at' = "store"
    PROVE  CallInv'
BY DEF CallInv, WriteCall, NumberCall, HalfDone, ResultOfCall, MayWrite

\* The arguments sys_write copies from.
LEMMA WriteArguments ==
    ASSUME NEW fd, NEW buf \in Bufs, NEW n \in Counts, MayWrite(fd, buf, n)
    PROVE  buf \in Seq(STRING) /\ n \in Nat /\ 0 < n /\ n <= Len(buf)
<1>1. n \in Int /\ n > 0 /\ buf # NULL
  BY OutputAssumption DEF MayWrite
<1>2. n <= Len(buf) /\ buf \in Seq(STRING)
  BY <1>1, OutputAssumption
<1> QED
  BY <1>1, <1>2

LEMMA EcallKeeps ==
    ASSUME CallInv, Ecall
    PROVE  CallInv' /\ at' \in {"test", "idle"}
<1>1. at = "user" /\ UNCHANGED <<call, handed>>
  BY DEF Ecall
<1>2. call.kind \in {"u_printf", "write", "number"}
  BY <1>1 DEF CallInv
<1>3. CASE call.kind = "u_printf"
  <2>1. at' \in {"test", "idle"}
    BY <1>3 DEF Ecall, Write
  <2> QED
    BY <1>1, <1>3, <2>1 DEF CallInv, ResultOfCall
<1>4. CASE call.kind = "write"
  <2>1. WriteCall /\ handed = <<>> /\ rest = <<>> /\ rest' = rest
    BY <1>1, <1>4 DEF CallInv, Ecall
  <2>2. Write(call.fd, call.buf, call.n)
    BY <1>4 DEF Ecall
  <2>3. CASE MayWrite(call.fd, call.buf, call.n)
    <3>1. todo' = SubSeq(call.buf, 1, call.n) /\ at' = "test" /\ ret' = call.n
      BY <2>2, <2>3 DEF Write
    <3>2. /\ call.buf \in Seq(STRING) /\ call.n \in Nat /\ 0 < call.n /\ call.n <= Len(call.buf)
      BY <2>1, <2>3, WriteArguments DEF WriteCall
    <3>3. Copying(call.buf, call.n, <<>>, SubSeq(call.buf, 1, call.n))
      BY <3>2, CopyStarts
    <3>4. HalfDone'
      BY <1>1, <2>1, <2>3, <3>1, <3>3 DEF HalfDone, MayWrite
    <3> QED
      BY <1>1, <1>4, <2>1, <3>1, <3>4 DEF CallInv, WriteCall, ResultOfCall
  <2>4. CASE ~ MayWrite(call.fd, call.buf, call.n)
    <3>1. ret' = -1 /\ at' = "idle"
      BY <2>2, <2>4 DEF Write
    <3>2. call.n \in Int
      BY <2>1, OutputAssumption DEF WriteCall
    <3>3. call.fd \notin {1, 2} \/ call.n <= 0 \/ call.buf = NULL
      BY <2>4, <3>2 DEF MayWrite
    <3> QED
      BY <1>1, <1>4, <2>1, <3>1, <3>3 DEF CallInv, WriteCall, ResultOfCall
  <2> QED
    BY <2>3, <2>4
<1>5. CASE call.kind = "number"
  <2>1. NumberCall /\ rest = <<>> /\ rest' = rest /\ Dispatch(call.v)
    BY <1>1, <1>5 DEF CallInv, Ecall
  <2>2. /\ call.v \in Int /\ call.v \notin {1, 2, 3, 5, 7, 8}
        /\ SYS_read = 4 /\ SYS_getpid = 6 /\ NSYSCALLS = 9
    BY <2>1, OutputAssumption DEF NumberCall, ProcCalls, SYS_read, SYS_write, SYS_getpid, NSYSCALLS
  <2>3. \/ at' = "idle" /\ ret' = -1 /\ call.v # 6
        \/ at' = "idle" /\ ret' = Pid /\ call.v = 6
        \/ at' = "test" /\ ret' = -1 /\ call.v # 6
    <3>1. CASE call.v = 4
      BY <2>1, <2>2, <3>1 DEF Dispatch
    <3>2. CASE call.v = 6
      BY <2>1, <2>2, <3>2 DEF Dispatch
    <3>3. CASE call.v <= 0 \/ call.v >= 9
      <4>1. /\ call.v # SYS_read /\ call.v # SYS_getpid /\ call.v # 6
            /\ call.v <= 0 \/ call.v >= NSYSCALLS
        BY <2>2, <3>3
      <4>2. Dispatch(call.v)
        BY <2>1
      <4>3. at' = "test" /\ ret' = -1
        BY <4>1, <4>2 DEF Dispatch
      <4> QED
        BY <4>1, <4>3
    <3> QED
      BY <2>2, <3>1, <3>2, <3>3
  <2> QED
    BY <1>1, <1>5, <2>1, <2>2, <2>3 DEF CallInv, NumberCall, ResultOfCall
<1> QED
  BY <1>2, <1>3, <1>4, <1>5

LEMMA StoreKeeps ==
    ASSUME CallInv, PutStore PROVE CallInv'
<1>1. /\ at = "store" /\ UNCHANGED <<call, rest, ret>>
      /\ handed' = Append(handed, Head(todo)) /\ todo' = Tail(todo)
      /\ at' = IF Len(todo) > 1 THEN "test" ELSE After
  BY DEF PutStore
<1>2. /\ call.kind # "u_printf" => rest = <<>>
      /\ After \in {"idle", "halted", "user"}
      /\ After = "user" => call.kind = "u_printf"
  BY DEF CallInv, After
<1>3. CASE call.kind = "write"
  <2>1. WriteCall /\ HalfDone
    BY <1>1, <1>3 DEF CallInv
  <2>2. call.buf \in Seq(STRING) /\ call.n \in Nat /\ call.n <= Len(call.buf)
    BY <2>1, WriteArguments DEF WriteCall, HalfDone
  <2>3. Copying(call.buf, call.n, handed, todo)
    BY <2>1 DEF HalfDone
  <2>4. /\ Len(todo) > 1 => Copying(call.buf, call.n, Append(handed, Head(todo)), Tail(todo))
        /\ ~ Len(todo) > 1 => Append(handed, Head(todo)) = SubSeq(call.buf, 1, call.n)
    BY <2>2, <2>3, CopyGoesOn
  <2>5. CASE Len(todo) > 1
    <3>1. at' = "test" /\ HalfDone'
      BY <1>1, <2>1, <2>4, <2>5 DEF HalfDone, MayWrite
    <3> QED
      BY <1>1, <1>2, <1>3, <2>1, <3>1 DEF CallInv, WriteCall, ResultOfCall
  <2>6. CASE ~ Len(todo) > 1
    <3>1. at' = "idle"
      BY <1>1, <1>2, <1>3, <2>6 DEF After
    <3>2. ret' = call'.n /\ handed' = SubSeq(call'.buf, 1, call'.n) /\ call'.fd \in {1, 2}
      BY <1>1, <2>1, <2>4, <2>6 DEF HalfDone, MayWrite
    <3> QED
      BY <1>1, <1>2, <1>3, <2>1, <3>1, <3>2 DEF CallInv, WriteCall, ResultOfCall
  <2> QED
    BY <2>5, <2>6
<1>4. CASE call.kind # "write"
  <2>1. at' \in {"test", "idle", "halted", "user"} /\ (at' = "user" => call.kind = "u_printf")
    BY <1>1, <1>2
  <2>2. call.kind = "number" => NumberCall /\ ret = -1 /\ call.v # 6
    BY <1>1 DEF CallInv
  <2> QED
    BY <1>1, <1>2, <1>4, <2>1, <2>2 DEF CallInv, NumberCall, ResultOfCall, SYS_getpid
<1> QED
  BY <1>3, <1>4

LEMMA CallStep ==
    ASSUME CallInv, [OutputNext]_outputVars
    PROVE  CallInv'
<1>1. ASSUME NEW kind \in {"printf", "printk"}, NEW op, NEW v, KernelPrint(kind, op, v) PROVE CallInv'
  <2>1. PICK c : c = [NoCall EXCEPT !.kind = kind, !.op = op, !.v = v, !.read = v]
    OBVIOUS
  <2>2. c.kind = kind
    BY <2>1 DEF NoCall
  <2>3. call' = c /\ handed' = <<>> /\ rest' = <<>> /\ at' \in {"idle", "test"}
    BY <1>1, <2>1 DEF KernelPrint, Begins, Puts
  <2> QED
    BY <2>2, <2>3, CallBegins
<1>2. ASSUME NEW v, Panic(v) PROVE CallInv'
  <2>1. PICK c : c = [NoCall EXCEPT !.kind = "panic", !.v = v, !.read = v]
    OBVIOUS
  <2>2. c.kind = "panic"
    BY <2>1 DEF NoCall
  <2>3. call' = c /\ handed' = <<>> /\ rest' = <<>> /\ at' \in {"idle", "test"}
    BY <1>2, <2>1 DEF Panic, Begins, Puts
  <2> QED
    BY <2>2, <2>3, CallBegins
<1>3. ASSUME NEW v, NEW found, UserPrint(v, found) PROVE CallInv'
  <2>1. PICK c : c = [NoCall EXCEPT !.kind = "u_printf", !.op = "d", !.v = v, !.read = found]
    OBVIOUS
  <2>2. c.kind = "u_printf"
    BY <2>1 DEF NoCall
  <2>3. call' = c /\ handed' = <<>> /\ at' = "user"
    BY <1>3, <2>1 DEF UserPrint, Begins
  <2> QED
    BY <2>2, <2>3, CallBegins
<1>4. ASSUME NEW fd \in Fds, NEW buf \in Bufs, NEW n \in Counts, UserWrite(fd, buf, n) PROVE CallInv'
  <2>1. PICK c : c = [NoCall EXCEPT !.kind = "write", !.fd = fd, !.buf = buf, !.n = n]
    OBVIOUS
  <2>2. c.kind = "write" /\ c.buf = buf /\ c.n = n
    BY <2>1 DEF NoCall
  <2>3. call' = c /\ handed' = <<>> /\ rest' = <<>> /\ at' = "user"
    BY <1>4, <2>1 DEF UserWrite, Begins
  <2> QED
    BY <2>2, <2>3, CallBegins
<1>5. ASSUME NEW num \in CallNumbers, UserCall(num) PROVE CallInv'
  <2>1. PICK c : c = [NoCall EXCEPT !.kind = "number", !.v = num]
    OBVIOUS
  <2>2. c.kind = "number" /\ c.v = num
    BY <2>1 DEF NoCall
  <2>3. call' = c /\ handed' = <<>> /\ rest' = <<>> /\ at' = "user"
    BY <1>5, <2>1 DEF UserCall, Begins
  <2> QED
    BY <2>2, <2>3, CallBegins
<1>6. CASE ThreadStep
  <2>1. CASE Ecall
    BY <2>1, EcallKeeps
  <2>2. CASE PutTest
    BY <2>2, CallTests DEF PutTest
  <2>3. CASE PutStore
    BY <2>3, StoreKeeps
  <2> QED
    BY <1>6, <2>1, <2>2, <2>3 DEF ThreadStep
<1>7. CASE HandlerStep \/ Send \/ Tick \/ OtherStep \/ \E src \in Sources : Raise(src)
  <2>1. at' = at /\ call' = call /\ rest' = rest /\ todo' = todo /\ handed' = handed /\ ret' = ret
    BY <1>7 DEF HandlerStep, Take, Claim, HandlerTest, HandlerStore, Complete, Send, Raise,
            Tick, OtherStep, OtherBegins, OtherTest, OtherStore, thread
  <2> QED
    BY <2>1, CallWaits
<1>8. CASE UNCHANGED outputVars
  <2>1. at' = at /\ call' = call /\ rest' = rest /\ todo' = todo /\ handed' = handed /\ ret' = ret
    BY <1>8 DEF outputVars, thread
  <2> QED
    BY <2>1, CallWaits
<1> QED
  BY <1>1, <1>2, <1>3, <1>4, <1>5, <1>6, <1>7, <1>8 DEF OutputNext

-----------------------------------------------------------------------------
\* A tick came between a test and its store, and the store may follow.
Mixed == SchedulerReturns /\ parted

\* The transmit register between a test and its store: the handler's store finds
\* it empty; that of the process that runs, unless it was cut, too, and else
\* nothing but a character of the handler.  One that does not run is not about to
\* store, or never runs again.
Transmitter ==
    /\ hat = "store" => thr = <<>>
    /\ Running = "store" /\ hat # "none" => cut
    /\ Running = "store" /\ thr # <<>> => cut /\ thr[1] = 0
    /\ ~ away => oat # "store"
    /\ away /\ SchedulerReturns => at # "store"

\* Who has stored what is in it, and that there is no interrupt before a call.
Callers ==
    /\ calls \in Nat
    /\ thr # <<>> => thr[1] \in -1 .. calls
    /\ calls = 0 => at = "idle" /\ ~ sie /\ hat = "none" /\ thr = <<>> /\ ~ away

LineInv == Transmitter /\ Callers /\ OnlyHandlers /\ Delivered

\* A call that begins has stored nothing; what the register holds is not its own.
LEMMA BeginsKeeps ==
    ASSUME LineInv, NEW c, Begins(c), at' \in {"idle", "test", "user"}
    PROVE  LineInv'
<1>1. /\ hat = "none" /\ hat' = "none" /\ thr' = thr /\ cut' = cut /\ lost' = lost
      /\ ~ away /\ ~ away' /\ oat' = oat
      /\ calls' = calls + 1 /\ handed' = <<>> /\ line' = <<>>
  BY DEF Begins, ThreadRuns, handler, other, history
<1>2. Transmitter'
  BY <1>1 DEF LineInv, Transmitter, Running
<1>3. calls \in Nat /\ calls' \in Nat /\ calls' # 0 /\ (thr # <<>> => thr[1] \in -1 .. calls)
  BY <1>1 DEF LineInv, Callers
<1>4. Callers'
  BY <1>1, <1>3 DEF Callers
<1>5. OnlyHandlers'
  BY <1>1 DEF LineInv, OnlyHandlers
<1>6. Delivered'
  BY <1>1, <1>3 DEF Delivered, NoChar
<1> QED
  BY <1>2, <1>4, <1>5, <1>6 DEF LineInv

LEMMA ThreadKeeps ==
    ASSUME CallInv, LineInv, ThreadStep PROVE LineInv'
<1>1. CASE Ecall
  <2>1. /\ at = "user" /\ hat = "none" /\ at' \in {"test", "idle"} /\ hat' = hat
        /\ ~ away /\ UNCHANGED <<thr, line, cut, lost, calls, handed, away, oat>>
    BY <1>1, EcallKeeps DEF Ecall, ThreadRuns, handler, other, uart, history
  <2>2. calls # 0 /\ calls' # 0
    BY <2>1 DEF LineInv, Callers
  <2>3. Transmitter'
    BY <2>1 DEF LineInv, Transmitter, Running
  <2>4. Callers' /\ OnlyHandlers' /\ Delivered'
    BY <2>1, <2>2 DEF LineInv, Callers, OnlyHandlers, Delivered
  <2> QED
    BY <2>3, <2>4 DEF LineInv
<1>2. CASE PutTest
  <2>1. /\ hat = "none" /\ at = "test" /\ at' = "store" /\ thr = <<>> /\ hat' = hat
        /\ ~ away /\ UNCHANGED <<thr, line, cut, lost, calls, handed, sie, away, oat>>
    BY <1>2 DEF PutTest, ThreadRuns, SeesRoom, NoChar, handler, other, uart, history
  <2>2. Transmitter'
    BY <2>1 DEF LineInv, Transmitter, Running
  <2>3. Callers' /\ OnlyHandlers' /\ Delivered'
    BY <2>1 DEF LineInv, Callers, OnlyHandlers, Delivered
  <2> QED
    BY <2>2, <2>3 DEF LineInv
<1>3. CASE PutStore
  <2>1. PICK c : c = Head(todo)
    OBVIOUS
  <2>2. /\ hat = "none" /\ at = "store" /\ hat' = hat /\ at' \in {"test", "halted", "user", "idle"}
        /\ thr' = <<calls, c>> /\ lost' = (IF thr = <<>> THEN lost ELSE lost \cup {thr[1]})
        /\ handed' = Append(handed, c) /\ ~ away /\ UNCHANGED <<line, cut, calls, away, oat>>
    BY <1>3, <2>1 DEF PutStore, ThreadRuns, Store, After, NoChar, handler, other
  <2>3. /\ calls \in Nat /\ calls # 0 /\ (thr # <<>> => cut /\ thr[1] = 0)
    BY <2>2 DEF LineInv, Transmitter, Running, Callers
  <2>4. Transmitter'
    BY <2>2 DEF LineInv, Transmitter, Running
  <2>5. Callers'
    BY <2>2, <2>3 DEF Callers
  <2>6. OnlyHandlers'
    BY <2>2, <2>3 DEF LineInv, OnlyHandlers, Handler
  <2>7. handed = line
    BY <2>2, <2>3 DEF LineInv, Delivered, NoChar
  <2>8. Delivered'
    BY <2>2, <2>7 DEF Delivered, NoChar
  <2> QED
    BY <2>4, <2>5, <2>6, <2>8 DEF LineInv
<1> QED
  BY <1>1, <1>2, <1>3 DEF ThreadStep

LEMMA SendKeeps ==
    ASSUME LineInv, Send PROVE LineInv'
<1>1. /\ thr # <<>> /\ thr' = <<>> /\ line' = IF thr[1] = calls THEN Append(line, thr[2]) ELSE line
      /\ UNCHANGED <<at, handed, sie, hat, cut, lost, calls, away, oat>>
  BY DEF Send, NoChar, thread, handler, other, history
<1>2. Transmitter' /\ Callers' /\ OnlyHandlers'
  BY <1>1 DEF LineInv, Transmitter, Running, Callers, OnlyHandlers
<1>3. Delivered'
  BY <1>1 DEF LineInv, Delivered, NoChar
<1> QED
  BY <1>2, <1>3 DEF LineInv

\* The handler runs where there was a call, and stores into an empty register.
LEMMA HandlerKeeps ==
    ASSUME LineInv, HandlerStep PROVE LineInv'
<1>1. CASE Take
  <2>1. (sie \/ away) /\ hat' = "claim" /\ cut' = (cut \/ Running = "store")
    BY <1>1 DEF Take
  <2>2. UNCHANGED <<at, handed, sie, thr, line, lost, calls, away, oat>>
    BY <1>1 DEF Take, thread, other, uart
  <2>3. Transmitter'
    BY <2>1, <2>2 DEF LineInv, Transmitter, Running
  <2>4. Callers'
    BY <2>1, <2>2 DEF LineInv, Callers
  <2>5. OnlyHandlers' /\ Delivered'
    BY <2>1, <2>2 DEF LineInv, OnlyHandlers, Delivered
  <2> QED
    BY <2>3, <2>4, <2>5 DEF LineInv
<1>2. CASE Claim \/ Complete
  <2>1. /\ hat \in {"claim", "complete"} /\ hat' \in {"test", "none"}
        /\ UNCHANGED <<at, handed, sie, thr, line, cut, lost, calls, away, oat>>
    BY <1>2 DEF Claim, Complete, thread, other, uart, history
  <2>2. Transmitter' /\ Callers'
    BY <2>1 DEF LineInv, Transmitter, Running, Callers
  <2>3. OnlyHandlers' /\ Delivered'
    BY <2>1 DEF LineInv, OnlyHandlers, Delivered
  <2> QED
    BY <2>2, <2>3 DEF LineInv
<1>3. CASE HandlerTest
  <2>1. /\ hat = "test" /\ hat' = "store" /\ thr = <<>>
        /\ UNCHANGED <<at, handed, sie, thr, line, cut, lost, calls, away, oat>>
    BY <1>3 DEF HandlerTest, SeesRoom, NoChar, thread, other, uart, history
  <2>2. Transmitter' /\ Callers'
    BY <2>1 DEF LineInv, Transmitter, Running, Callers
  <2>3. OnlyHandlers' /\ Delivered'
    BY <2>1 DEF LineInv, OnlyHandlers, Delivered
  <2> QED
    BY <2>2, <2>3 DEF LineInv
<1>4. CASE HandlerStore
  <2>1. PICK c : c = Head(htodo)
    OBVIOUS
  <2>2. hat = "store" /\ thr = <<>>
    BY <1>4 DEF HandlerStore, LineInv, Transmitter
  <2>3. /\ hat' \in {"test", "complete"} /\ thr' = <<0, c>> /\ lost' = lost
        /\ UNCHANGED <<at, handed, sie, line, cut, calls, away, oat>>
    BY <1>4, <2>1, <2>2 DEF HandlerStore, Store, Handler, NoChar, thread, other
  <2>4. calls \in Nat /\ calls # 0 /\ (Running = "store" => cut)
    BY <2>2 DEF LineInv, Transmitter, Callers
  <2>5. Transmitter' /\ Callers'
    BY <2>2, <2>3, <2>4 DEF LineInv, Transmitter, Running, Callers
  <2>6. OnlyHandlers'
    BY <2>3 DEF LineInv, OnlyHandlers
  <2>7. Delivered'
    BY <2>2, <2>3, <2>4 DEF LineInv, Delivered, NoChar
  <2> QED
    BY <2>5, <2>6, <2>7 DEF LineInv
<1> QED
  BY <1>1, <1>2, <1>3, <1>4 DEF HandlerStep

\* A tick parts a test from its store, or leaves nobody about to store.
LEMMA TickKeeps ==
    ASSUME LineInv, Tick PROVE Callers' /\ (Mixed' \/ LineInv')
<1>1. /\ away' = ~ away /\ parted' = (parted \/ Running = "store")
      /\ (away => hat = "none" /\ SchedulerReturns) /\ (~ away => sie /\ hat = "none")
      /\ UNCHANGED <<at, handed, sie, hat, thr, line, cut, lost, calls, oat>>
  BY DEF Tick, ThreadRuns, thread, handler, uart
<1>2. Callers'
  BY <1>1 DEF LineInv, Callers
<1>3. OnlyHandlers' /\ Delivered'
  BY <1>1 DEF LineInv, OnlyHandlers, Delivered
<1>4. CASE SchedulerReturns /\ Running = "store"
  <2>1. parted'
    BY <1>1, <1>4, Zenon
  <2> QED
    BY <1>2, <1>4, <2>1, Zenon DEF Mixed
<1>5. CASE ~ (SchedulerReturns /\ Running = "store")
  <2>1. Running' # "store"
    BY <1>1 DEF LineInv, Transmitter, Running
  <2>2. Transmitter'
    BY <1>1, <1>5, <2>1 DEF LineInv, Transmitter, Running
  <2> QED
    BY <1>2, <1>3, <2>2 DEF LineInv
<1> QED
  BY <1>4, <1>5

LEMMA OtherKeeps ==
    ASSUME LineInv, OtherStep PROVE LineInv'
<1>1. /\ away /\ away' /\ hat = "none" /\ UNCHANGED <<at, handed, sie, hat, line, cut, calls>>
  BY DEF OtherStep, OtherBegins, OtherTest, OtherStore, OtherRuns, thread, handler, uart, history
<1>2. calls # 0 /\ calls \in Nat
  BY <1>1 DEF LineInv, Callers
<1>3. CASE OtherBegins \/ OtherTest
  <2>1. oat' \in {"test", "store"} /\ (oat' = "store" => thr = <<>>) /\ UNCHANGED <<thr, lost>>
    BY <1>3 DEF OtherBegins, OtherTest, SeesRoom, NoChar, uart, history
  <2>2. Transmitter'
    BY <1>1, <2>1 DEF LineInv, Transmitter, Running
  <2>3. Callers' /\ OnlyHandlers' /\ Delivered'
    BY <1>1, <2>1 DEF LineInv, Callers, OnlyHandlers, Delivered
  <2> QED
    BY <2>2, <2>3 DEF LineInv
<1>4. CASE OtherStore
  <2>1. /\ oat = "store" /\ oat' = "idle" /\ thr' = <<-1, "o">>
        /\ lost' = IF thr = <<>> THEN lost ELSE lost \cup {thr[1]}
    BY <1>4 DEF OtherStore, Store, Other, NoChar
  <2>2. thr # <<>> => cut /\ thr[1] = 0
    BY <1>1, <2>1 DEF LineInv, Transmitter, Running
  <2>3. Transmitter' /\ Callers'
    BY <1>1, <1>2, <2>1 DEF LineInv, Transmitter, Running, Callers
  <2>4. OnlyHandlers'
    BY <1>1, <2>1, <2>2 DEF LineInv, OnlyHandlers, Handler
  <2>5. handed = line
    BY <1>2, <2>2 DEF LineInv, Delivered, NoChar
  <2>6. Delivered'
    BY <1>1, <1>2, <2>1, <2>5 DEF Delivered, NoChar
  <2> QED
    BY <2>3, <2>4, <2>6 DEF LineInv
<1> QED
  BY <1>3, <1>4 DEF OtherStep

\* What is mixed stays so, and the register's owners are known even then.
LEMMA MixedStays ==
    ASSUME CallInv, Mixed, Callers, [OutputNext]_outputVars PROVE Mixed' /\ Callers'
<1>1. ASSUME NEW c, Begins(c), at' \in {"idle", "test", "user"} PROVE Mixed' /\ Callers'
  <2>1. calls' = calls + 1 /\ calls' \in Nat /\ calls' # 0 /\ UNCHANGED <<thr, parted>>
    BY <1>1 DEF Begins, history, Callers
  <2> QED
    BY <2>1 DEF Mixed, Callers
<1>2. ASSUME NEW kind, NEW op, NEW v, KernelPrint(kind, op, v) PROVE Mixed' /\ Callers'
  <2>1. at' \in {"idle", "test", "user"}
    BY <1>2 DEF KernelPrint, Puts
  <2> QED
    BY <1>1, <1>2, <2>1 DEF KernelPrint
<1>3. ASSUME NEW v, Panic(v) PROVE Mixed' /\ Callers'
  <2>1. at' \in {"idle", "test", "user"}
    BY <1>3 DEF Panic, Puts
  <2> QED
    BY <1>1, <1>3, <2>1 DEF Panic
<1>4. ASSUME NEW v, NEW found, UserPrint(v, found) PROVE Mixed' /\ Callers'
  BY <1>1, <1>4 DEF UserPrint
<1>5. ASSUME NEW fd, NEW buf, NEW n, UserWrite(fd, buf, n) PROVE Mixed' /\ Callers'
  BY <1>1, <1>5 DEF UserWrite
<1>6. ASSUME NEW num, UserCall(num) PROVE Mixed' /\ Callers'
  BY <1>1, <1>6 DEF UserCall
<1>7. CASE ThreadStep
  <2>1. /\ at \in {"user", "test", "store"} /\ UNCHANGED <<calls, parted>>
        /\ \/ thr' = thr
           \/ \E c : thr' = <<calls, c>>
    BY <1>7 DEF ThreadStep, Ecall, PutTest, PutStore, Store, uart, history
  <2> QED
    BY <2>1 DEF Mixed, Callers
<1>8. CASE HandlerStep
  <2>1. /\ (hat # "none" \/ sie \/ away) /\ UNCHANGED <<calls, parted, at, sie, away>>
        /\ \/ thr' = thr
           \/ \E c : thr' = <<0, c>>
    BY <1>8 DEF HandlerStep, Take, Claim, HandlerTest, HandlerStore, Complete, Store, Handler,
                uart, history, thread, other
  <2> QED
    BY <2>1 DEF Mixed, Callers
<1>9. CASE Tick \/ OtherStep
  <2>1. /\ (sie \/ away) /\ UNCHANGED calls
        /\ \/ thr' = thr
           \/ \E c : thr' = <<-1, c>>
    BY <1>9 DEF Tick, OtherStep, OtherBegins, OtherTest, OtherStore, OtherRuns, Store, Other,
                uart, history
  <2>2. parted'
    <3>1. CASE Tick
      BY <3>1, Zenon DEF Tick, Mixed
    <3>2. CASE OtherStep
      <4>1. parted' = parted
        BY <3>2 DEF OtherStep, OtherBegins, OtherTest, OtherStore, history
      <4> QED
        BY <4>1, Zenon DEF Mixed
    <3> QED
      BY <1>9, <3>1, <3>2
  <2>3. calls # 0 /\ calls \in Nat
    BY <2>1 DEF Callers
  <2>4. Callers'
    BY <2>1, <2>3 DEF Callers
  <2> QED
    BY <2>2, <2>4 DEF Mixed
<1>10. CASE Send
  <2>1. thr' = <<>> /\ UNCHANGED <<calls, parted, at, sie, away, hat>>
    BY <1>10 DEF Send, NoChar, thread, handler, other, history
  <2> QED
    BY <2>1 DEF Mixed, Callers
<1>11. CASE UNCHANGED outputVars \/ \E src \in Sources : Raise(src)
  <2>1. UNCHANGED <<calls, parted, at, sie, away, hat, thr>>
    BY <1>11 DEF outputVars, Raise, thread, handler, other, uart, history
  <2> QED
    BY <2>1 DEF Mixed, Callers
<1> QED
  BY <1>2, <1>3, <1>4, <1>5, <1>6, <1>7, <1>8, <1>9, <1>10, <1>11 DEF OutputNext

SerialInv == Callers /\ (Mixed \/ LineInv)

LEMMA LineStep ==
    ASSUME CallInv, SerialInv, [OutputNext]_outputVars
    PROVE  SerialInv'
<1>0. CASE Mixed
  BY <1>0, MixedStays DEF SerialInv
<1> SUFFICES ASSUME LineInv PROVE Callers' /\ (Mixed' \/ LineInv')
  BY <1>0 DEF SerialInv
<1>12. CASE LineInv'
  BY <1>12 DEF LineInv
<1>1. ASSUME NEW kind, NEW op, NEW v, KernelPrint(kind, op, v) PROVE LineInv'
  <2>1. at' \in {"idle", "test", "user"}
    BY <1>1 DEF KernelPrint, Puts
  <2> QED
    BY <1>1, <2>1, BeginsKeeps DEF KernelPrint
<1>2. ASSUME NEW v, Panic(v) PROVE LineInv'
  <2>1. at' \in {"idle", "test", "user"}
    BY <1>2 DEF Panic, Puts
  <2> QED
    BY <1>2, <2>1, BeginsKeeps DEF Panic
<1>3. ASSUME NEW v, NEW found, UserPrint(v, found) PROVE LineInv'
  BY <1>3, BeginsKeeps DEF UserPrint
<1>4. ASSUME NEW fd, NEW buf, NEW n, UserWrite(fd, buf, n) PROVE LineInv'
  BY <1>4, BeginsKeeps DEF UserWrite
<1>5. ASSUME NEW num, UserCall(num) PROVE LineInv'
  BY <1>5, BeginsKeeps DEF UserCall
<1>6. CASE ThreadStep
  BY <1>6, <1>12, ThreadKeeps
<1>7. CASE HandlerStep
  BY <1>7, <1>12, HandlerKeeps
<1>8. CASE Send
  BY <1>8, <1>12, SendKeeps
<1>9. CASE UNCHANGED outputVars \/ \E src \in Sources : Raise(src)
  <2>1. UNCHANGED <<at, handed, sie, hat, thr, line, cut, lost, calls, away, oat>>
    BY <1>9 DEF outputVars, Raise, thread, handler, other, uart, history
  <2> QED
    BY <1>12, <2>1 DEF LineInv, Transmitter, Running, Callers, OnlyHandlers, Delivered
<1>10. CASE OtherStep
  BY <1>10, <1>12, OtherKeeps
<1>11. CASE Tick
  BY <1>11, TickKeeps
<1> QED
  BY <1>1, <1>2, <1>3, <1>4, <1>5, <1>6, <1>7, <1>8, <1>9, <1>10, <1>11, <1>12 DEF OutputNext

LEMMA OutputBegins == ASSUME OutputInit PROVE CallInv /\ SerialInv
<1>1. at = "idle" /\ call.kind = "none" /\ rest = <<>>
  BY DEF OutputInit, NoCall
<1>2. CallInv
  BY <1>1 DEF CallInv, ResultOfCall
<1>3. /\ hat = "none" /\ thr = <<>> /\ handed = <<>> /\ line = <<>> /\ ~ sie
      /\ lost = {} /\ calls = 0 /\ ~ away /\ oat = "idle"
  BY DEF OutputInit, NoChar
<1>4. Transmitter /\ Callers
  BY <1>1, <1>3 DEF Transmitter, Running, Callers
<1>5. OnlyHandlers /\ Delivered
  BY <1>3 DEF OnlyHandlers, Delivered, NoChar
<1> QED
  BY <1>2, <1>4, <1>5 DEF LineInv, SerialInv

LEMMA OutputInvariance == OutputSpec => [](CallInv /\ SerialInv)
<1>1. OutputInit => CallInv /\ SerialInv
  BY OutputBegins
<1>2. CallInv /\ SerialInv /\ [OutputNext]_outputVars => (CallInv /\ SerialInv)'
  BY CallStep, LineStep
<1> QED
  BY <1>1, <1>2, PTL DEF OutputSpec

\* A write that returned n has given the UART the n characters it was given, in
\* order, one that returned -1 none, and only for a wrong descriptor, a null
\* pointer or a count that is not positive; every other number has its own
\* result (syscall, sys_write).
THEOREM ResultsTell == OutputSpec => []ResultOfCall
<1>1. CallInv => ResultOfCall
  BY DEF CallInv
<1> QED
  BY <1>1, OutputInvariance, PTL

\* Only a text that was interrupted between uart_putchar's test and its store
\* costs a character.  As long as scheduler() returns to nobody, or no tick came
\* in that place, the characters lost are those of the handler's message, and what
\* a call has stored leaves the UART complete and in order (uart_putchar,
\* kerneltrap, scheduler).
THEOREM LossNeedsACut == OutputSpec => []LostOnlyIfCut
<1>1. SerialInv => LostOnlyIfCut
  BY DEF SerialInv, Mixed, LineInv, LostOnlyIfCut
<1> QED
  BY <1>1, OutputInvariance, PTL

=============================================================================
