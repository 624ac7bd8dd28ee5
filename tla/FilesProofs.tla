---------------------------- MODULE FilesProofs -----------------------------
(***************************************************************************)
(* The table of open files: the count of a file is exact, and the page of  *)
(* a pipe has one owner until it is free again.  The inode cache: an inode *)
(* never has two entries, its counts are exact, the inode of an open file  *)
(* is allocated, and a copy that may be used is what the disk holds.  For  *)
(* every finite number of processes, any number of files, pages, inodes    *)
(* and entries.                                                            *)
(***************************************************************************)
EXTENDS Files, FiniteSetTheorems, TLAPS

Building == {"alloc0", "alloc1"}

\* TypeOK, but for the inode cache.
TableTypes ==
    /\ file \in [File -> StructFile]
    /\ held \in [Procs -> [File -> Nat]]
    /\ free \in SUBSET Page
    /\ open \in [Page -> SUBSET End]
    /\ pc \in [Procs -> PcSet]
    /\ page \in [Procs -> Page \cup {NoPage}]
    /\ first \in [Procs -> File \cup {NoFile}]
    /\ side \in [Procs -> End]
    /\ ent \in [Procs -> Entry \cup {NoEntry}]

\* Between its two files, pipe_alloc has one without a type that nobody else
\* has a reference to.
FirstFile ==
    \A p \in Procs :
        IF pc[p] = "alloc1"
        THEN first[p] \in File /\ file[first[p]].type = "none" /\ file[first[p]].ref = 1
        ELSE first[p] = NoFile

\* A page is pipe_alloc's alone until it has both files.
OwnPage ==
    \A p \in Procs :
        /\ pc[p] = "idle" <=> page[p] = NoPage
        /\ pc[p] \in Building => open[page[p]] = {} /\ \A q \in Procs : page[q] = page[p] => q = p

IsEnd(f, g, end)     == file[f].type = "pipe" /\ file[f].page = g /\ file[f].end = end
IsClosing(p, g, end) == pc[p] = "close" /\ page[p] = g /\ side[p] = end

\* An end that is open has one file, or one process that closes it; a file or
\* such a process has an end that is open.
OneForEachEnd ==
    /\ \A f \in File : file[f].type = "pipe" =>
          file[f].page \in Page /\ file[f].end \in open[file[f].page]
    /\ \A p \in Procs : pc[p] = "close" => side[p] \in open[page[p]]
    /\ \A g \in Page, end \in End :
          /\ \A f, h \in File : IsEnd(f, g, end) /\ IsEnd(h, g, end) => f = h
          /\ \A p, q \in Procs : IsClosing(p, g, end) /\ IsClosing(q, g, end) => p = q
          /\ \A f \in File, p \in Procs : ~ (IsEnd(f, g, end) /\ IsClosing(p, g, end))
          /\ end \in open[g] => \/ \E f \in File : IsEnd(f, g, end)
                                \/ \E p \in Procs : IsClosing(p, g, end)

FreePage == \A g \in Page : g \in free <=> open[g] = {} /\ UsersOf(g) = {}

\* So that a cardinality is a number.
CountsFinite == \A f \in File : IsFiniteSet(Descriptors(f))

Refs  == CountsFinite /\ FileRefsCounted /\ FirstFile
Pages == OwnPage /\ OneForEachEnd /\ FreePage

TableInv == TableTypes /\ Refs /\ Pages

-----------------------------------------------------------------------------
(***************************************************************************)
(* Counts                                                                  *)
(***************************************************************************)

LEMMA InDescriptors ==
    ASSUME NEW f \in File, NEW x
    PROVE  x \in Descriptors(f) <=> \E p \in Procs : \E n \in 1 .. held[p][f] : x = <<p, n>>
BY DEF Descriptors

\* The places of a process among the references to f are distinct numbers.
LEMMA PairIn ==
    ASSUME TableTypes, NEW f \in File, NEW p \in Procs, NEW n \in Nat
    PROVE  <<p, n>> \in Descriptors(f) <=> n \in 1 .. held[p][f]
BY InDescriptors

LEMMA Intervals ==
    ASSUME NEW k \in Nat
    PROVE  /\ k + 1 \in Nat /\ k + 1 \notin 1 .. k /\ 1 .. k + 1 = (1 .. k) \cup {k + 1}
           /\ k > 0 => k \in 1 .. k /\ 1 .. k - 1 = (1 .. k) \ {k}
OBVIOUS

LEMMA HeldMore ==
    ASSUME TableTypes, TableTypes', CountsFinite, NEW f \in File, NEW p \in Procs,
           held'[p][f] = held[p][f] + 1, \A q \in Procs \ {p} : held'[q][f] = held[q][f]
    PROVE  IsFiniteSet(Descriptors(f)') /\ HeldTimes(f)' = HeldTimes(f) + 1
<1> DEFINE n == held[p][f] + 1
           D == Descriptors(f)
<1>1. n \in Nat /\ n \notin 1 .. held[p][f] /\ 1 .. n = (1 .. held[p][f]) \cup {n}
  BY Intervals DEF TableTypes
<1>2. Descriptors(f)' = D \cup {<<p, n>>}
  <2>1. \A q \in Procs : {q} \X (1 .. held'[q][f])
                         = IF q = p THEN ({q} \X (1 .. held[q][f])) \cup {<<p, n>>}
                                    ELSE {q} \X (1 .. held[q][f])
    BY <1>1
  <2> QED
    BY <2>1 DEF Descriptors
<1>3. <<p, n>> \notin D
  BY <1>1, PairIn
<1>4. IsFiniteSet(D)
  BY DEF CountsFinite
<1> HIDE DEF D, n
<1>5. IsFiniteSet(D \cup {<<p, n>>}) /\ Cardinality(D \cup {<<p, n>>}) = Cardinality(D) + 1
  BY <1>3, <1>4, FS_AddElement, Zenon
<1> QED
  BY <1>2, <1>5 DEF HeldTimes, D

LEMMA HeldLess ==
    ASSUME TableTypes, TableTypes', CountsFinite, NEW f \in File, NEW p \in Procs, held[p][f] > 0,
           held'[p][f] = held[p][f] - 1, \A q \in Procs \ {p} : held'[q][f] = held[q][f]
    PROVE  IsFiniteSet(Descriptors(f)') /\ HeldTimes(f)' = HeldTimes(f) - 1
<1> DEFINE n == held[p][f]
           D == Descriptors(f)
<1>1. n \in Nat /\ n \in 1 .. n /\ 1 .. held'[p][f] = (1 .. n) \ {n}
  BY Intervals DEF TableTypes
<1>2. Descriptors(f)' = D \ {<<p, n>>}
  <2>1. \A q \in Procs : {q} \X (1 .. held'[q][f])
                         = IF q = p THEN ({q} \X (1 .. held[q][f])) \ {<<p, n>>}
                                    ELSE {q} \X (1 .. held[q][f])
    BY <1>1
  <2> QED
    BY <2>1 DEF Descriptors
<1>3. <<p, n>> \in D
  BY <1>1, PairIn
<1>4. IsFiniteSet(D)
  BY DEF CountsFinite
<1> HIDE DEF D, n
<1>5. IsFiniteSet(D \ {<<p, n>>}) /\ Cardinality(D \ {<<p, n>>}) = Cardinality(D) - 1
  BY <1>3, <1>4, FS_RemoveElement, Zenon
<1> QED
  BY <1>2, <1>5 DEF HeldTimes, D

LEMMA HeldSame ==
    ASSUME CountsFinite, NEW f \in File, \A q \in Procs : held'[q][f] = held[q][f]
    PROVE  IsFiniteSet(Descriptors(f)') /\ HeldTimes(f)' = HeldTimes(f)
<1>1. Descriptors(f)' = Descriptors(f)
  BY DEF Descriptors
<1> QED
  BY <1>1 DEF HeldTimes, CountsFinite

\* A holder counts, and two holders count twice.
LEMMA HoldersCount ==
    ASSUME TableTypes, CountsFinite, NEW f \in File
    PROVE  /\ HeldTimes(f) \in Nat
           /\ \A p \in Procs : held[p][f] > 0 => HeldTimes(f) >= 1
           /\ \A p, q \in Procs : p # q /\ held[p][f] > 0 /\ held[q][f] > 0 => HeldTimes(f) >= 2
<1> DEFINE D == Descriptors(f)
<1>1. IsFiniteSet(D) /\ Cardinality(D) \in Nat
  BY FS_CardinalityType DEF CountsFinite
<1>2. \A p \in Procs : held[p][f] > 0 => <<p, 1>> \in D
  <2> SUFFICES ASSUME NEW p \in Procs, held[p][f] > 0 PROVE <<p, 1>> \in D
    OBVIOUS
  <2>1. 1 \in Nat /\ 1 \in 1 .. held[p][f]
    BY DEF TableTypes
  <2> QED
    BY <2>1, PairIn
<1>3. \A x \in D : Cardinality(D) >= 1 /\ Cardinality(D \ {x}) = Cardinality(D) - 1 /\ IsFiniteSet(D \ {x})
  <2> SUFFICES ASSUME NEW x \in D
               PROVE  Cardinality(D) >= 1 /\ Cardinality(D \ {x}) = Cardinality(D) - 1 /\ IsFiniteSet(D \ {x})
    OBVIOUS
  <2>1. Cardinality(D \ {x}) = Cardinality(D) - 1 /\ IsFiniteSet(D \ {x})
    BY <1>1, FS_RemoveElement, Zenon
  <2>2. Cardinality(D) # 0
    BY <1>1, FS_EmptySet
  <2> QED
    BY <1>1, <2>1, <2>2
<1>4. ASSUME NEW x \in D, NEW y \in D \ {x} PROVE Cardinality(D) >= 2
  <2>1. IsFiniteSet(D \ {x}) /\ Cardinality(D \ {x}) = Cardinality(D) - 1
    BY <1>3
  <2>2. Cardinality(D \ {x}) # 0
    BY <2>1, FS_EmptySet
  <2> QED
    BY <1>1, <1>3, <2>1, <2>2
<1>5. \A p, q \in Procs : p # q => <<p, 1>> # <<q, 1>>
  OBVIOUS
<1> HIDE DEF D
<1>6. HeldTimes(f) = Cardinality(D)
  BY DEF HeldTimes, D
<1> QED
  BY <1>1, <1>2, <1>3, <1>4, <1>5, <1>6

LEMMA BuildersFinite ==
    ASSUME IsFiniteSet(Procs), NEW f
    PROVE  IsFiniteSet(Builders(f)) /\ Cardinality(Builders(f)) \in Nat
BY FS_Subset, FS_CardinalityType DEF Builders

LEMMA BuildersMore ==
    ASSUME IsFiniteSet(Procs), NEW f, NEW p \in Procs, p \notin Builders(f),
           Builders(f)' = Builders(f) \cup {p}
    PROVE  Cardinality(Builders(f)') = Cardinality(Builders(f)) + 1
BY BuildersFinite, FS_AddElement

LEMMA BuildersLess ==
    ASSUME IsFiniteSet(Procs), NEW f, NEW p \in Procs, p \in Builders(f),
           Builders(f)' = Builders(f) \ {p}
    PROVE  Cardinality(Builders(f)') = Cardinality(Builders(f)) - 1
BY BuildersFinite, FS_RemoveElement

LEMMA BuildersSame ==
    ASSUME NEW f, \A q \in Procs : (pc'[q] = "alloc1" /\ first'[q] = f) <=> (pc[q] = "alloc1" /\ first[q] = f)
    PROVE  Builders(f)' = Builders(f)
BY DEF Builders

\* What the counts say of a file without references, and of one that is held.
LEMMA CountsSay ==
    ASSUME IsFiniteSet(Procs), TableInv, NEW f \in File
    PROVE  /\ file[f].ref = HeldTimes(f) + Cardinality(Builders(f))
           /\ HeldTimes(f) \in Nat /\ Cardinality(Builders(f)) \in Nat
           /\ \A p \in Builders(f) : Cardinality(Builders(f)) >= 1
<1>1. HeldTimes(f) \in Nat /\ IsFiniteSet(Builders(f)) /\ Cardinality(Builders(f)) \in Nat
  BY HoldersCount, BuildersFinite DEF TableInv, Refs
<1>2. \A p \in Builders(f) : Cardinality(Builders(f)) # 0
  BY <1>1, FS_EmptySet
<1> QED
  BY <1>1, <1>2 DEF TableInv, Refs, FileRefsCounted

LEMMA UnusedFile ==
    ASSUME IsFiniteSet(Procs), TableInv, NEW f \in File, IsUnused(f)
    PROVE  /\ file[f].type = "none" /\ HeldTimes(f) = 0 /\ Builders(f) = {} /\ Cardinality(Builders(f)) = 0
           /\ \A p \in Procs : held[p][f] = 0 /\ ~ (pc[p] = "alloc1" /\ first[p] = f)
<1>1. HeldTimes(f) = 0 /\ Cardinality(Builders(f)) = 0
  BY CountsSay DEF IsUnused
<1>2. Builders(f) = {}
  BY <1>1, CountsSay
<1>3. \A p \in Procs : held[p][f] = 0
  <2>1. \A p \in Procs : held[p][f] > 0 => HeldTimes(f) >= 1
    BY HoldersCount DEF TableInv, Refs
  <2>2. \A p \in Procs : held[p][f] \in Nat
    BY DEF TableInv, TableTypes
  <2> QED
    BY <1>1, <2>1, <2>2
<1>4. file[f].type = "none"
  BY DEF IsUnused, TableInv, Refs, FileRefsCounted
<1> QED
  BY <1>1, <1>2, <1>3, <1>4 DEF Builders

LEMMA HeldFile ==
    ASSUME IsFiniteSet(Procs), TableInv, NEW f \in File, NEW p \in Procs, held[p][f] > 0
    PROVE  /\ file[f].ref >= 1 /\ HeldTimes(f) >= 1
           /\ \A q \in Procs : ~ (pc[q] = "alloc1" /\ first[q] = f)
           /\ \A q \in Procs : q # p /\ held[q][f] > 0 => file[f].ref >= 2
<1>1. HeldTimes(f) >= 1 /\ \A q \in Procs : q # p /\ held[q][f] > 0 => HeldTimes(f) >= 2
  BY HoldersCount DEF TableInv, Refs
<1>2. ASSUME NEW q \in Procs, pc[q] = "alloc1", first[q] = f PROVE FALSE
  <2>1. file[f].ref = 1
    BY <1>2 DEF TableInv, Refs, FirstFile
  <2>2. q \in Builders(f)
    BY <1>2 DEF Builders
  <2> QED
    BY <1>1, <2>1, <2>2, CountsSay
<1> QED
  BY <1>1, <1>2, CountsSay

LEMMA BuiltFile ==
    ASSUME IsFiniteSet(Procs), TableInv, NEW p \in Procs, pc[p] = "alloc1"
    PROVE  /\ first[p] \in File /\ file[first[p]].type = "none" /\ file[first[p]].ref = 1
           /\ HeldTimes(first[p]) = 0 /\ Builders(first[p]) = {p}
           /\ \A q \in Procs : held[q][first[p]] = 0
<1> DEFINE f == first[p]
<1>1. f \in File /\ file[f].type = "none" /\ file[f].ref = 1 /\ p \in Builders(f)
  BY DEF TableInv, Refs, FirstFile, Builders
<1>2. \A q \in Procs : ~ (held[q][f] > 0)
  BY <1>1, HeldFile
<1>3. Cardinality(Builders(f)) = 1 /\ HeldTimes(f) = 0
  BY <1>1, CountsSay
<1>4. Builders(f) = {p}
  BY <1>1, <1>3, BuildersFinite, FS_Singleton
<1> QED
  BY <1>1, <1>2, <1>3, <1>4 DEF TableInv, TableTypes

-----------------------------------------------------------------------------
(***************************************************************************)
(* The invariant is inductive                                              *)
(***************************************************************************)

\* A step that leaves the pipes and their pages alone.
LEMMA PagesStay ==
    ASSUME Pages, UNCHANGED <<free, open, pc, page, side>>,
           \A f \in File : /\ file'[f].type = "pipe" <=> file[f].type = "pipe"
                           /\ file[f].type = "pipe" => /\ file'[f].page = file[f].page
                                                       /\ file'[f].end = file[f].end
    PROVE  Pages'
<1>1. OwnPage' /\ FreePage'
  BY DEF Pages, OwnPage, FreePage, UsersOf
<1>2. \A f \in File, g \in Page, end \in End : IsEnd(f, g, end)' <=> IsEnd(f, g, end)
  BY DEF IsEnd
<1>3. \A p \in Procs, g \in Page, end \in End : IsClosing(p, g, end)' <=> IsClosing(p, g, end)
  BY DEF IsClosing
<1>4. OneForEachEnd'
  BY <1>2, <1>3 DEF Pages, OneForEachEnd
<1> QED
  BY <1>1, <1>4 DEF Pages

\* A step that leaves the table alone.
LEMMA TableStays ==
    ASSUME TableInv, UNCHANGED fileVars, ent' \in [Procs -> Entry \cup {NoEntry}]
    PROVE  TableInv'
<1>1. UNCHANGED <<file, held, free, open, pc, page, first, side>>
  BY DEF fileVars
<1>2. Refs'
  BY <1>1 DEF TableInv, Refs, CountsFinite, FileRefsCounted, FirstFile, Descriptors, HeldTimes, Builders
<1> QED
  BY <1>1, <1>2, PagesStay DEF TableInv, TableTypes

\* One file changes, and who holds it; nobody begins or ends a pipe.
LEMMA CountChanges ==
    ASSUME IsFiniteSet(Procs), TableInv, TableTypes', NEW f \in File, UNCHANGED <<pc, first>>,
           \A h \in File \ {f} : file'[h] = file[h] /\ \A q \in Procs : held'[q][h] = held[q][h],
           \A q \in Procs : ~ (pc[q] = "alloc1" /\ first[q] = f),
           IsFiniteSet(Descriptors(f)'), file'[f].ref = HeldTimes(f)',
           file'[f].type # "none" => file'[f].ref > 0
    PROVE  Refs'
<1>1. \A h \in File : Builders(h)' = Builders(h)
  BY BuildersSame
<1>2. Builders(f) = {} /\ Cardinality({}) = 0
  BY FS_EmptySet, Zenon DEF Builders
<1>3. CountsFinite'
  BY HeldSame DEF TableInv, Refs, CountsFinite
<1>4. FileRefsCounted'
  <2>1. HeldTimes(f)' \in Nat
    BY FS_CardinalityType DEF HeldTimes
  <2>2. file'[f].ref = HeldTimes(f)' + Cardinality(Builders(f)')
    BY <1>1, <1>2, <2>1
  <2>3. \A h \in File \ {f} : HeldTimes(h)' = HeldTimes(h)
    BY HeldSame DEF TableInv, Refs
  <2> QED
    BY <1>1, <2>2, <2>3 DEF TableInv, Refs, FileRefsCounted
<1>5. FirstFile'
  BY DEF TableInv, Refs, FirstFile
<1> QED
  BY <1>3, <1>4, <1>5 DEF Refs

LEMMA CountedFields ==
    ASSUME NEW x \in StructFile, NEW n \in Nat, NEW y, y = [x EXCEPT !.ref = n]
    PROVE  /\ y \in StructFile /\ y.ref = n /\ y.type = x.type
           /\ y.page = x.page /\ y.end = x.end /\ y.ip = x.ip
BY DEF StructFile

Opened(x, i) == [x EXCEPT !.ref = 1, !.type = "inode", !.ip = i]

LEMMA OpenedFields ==
    ASSUME NEW x \in StructFile, NEW i \in Entry \cup {NoEntry}
    PROVE  /\ Opened(x, i) \in StructFile /\ Opened(x, i).ref = 1
           /\ Opened(x, i).type = "inode" /\ Opened(x, i).ip = i
BY DEF StructFile, Opened

Forgotten(x) == [x EXCEPT !.ref = 0, !.type = "none"]

LEMMA ForgottenFields ==
    ASSUME NEW x \in StructFile
    PROVE  /\ Forgotten(x) \in StructFile /\ Forgotten(x).ref = 0 /\ Forgotten(x).type = "none"
           /\ Forgotten(x).page = x.page /\ Forgotten(x).end = x.end /\ Forgotten(x).ip = x.ip
BY DEF StructFile, Forgotten

\* The struct file that file_close leaves.
LEMMA ClosedFields ==
    ASSUME NEW x \in StructFile, x.ref >= 1, NEW y, y = Closed(x)
    PROVE  /\ y \in StructFile /\ y.ref = x.ref - 1 /\ y.page = x.page /\ y.end = x.end /\ y.ip = x.ip
           /\ x.ref = 1 => y.type = "none"
           /\ x.ref # 1 => y.type = x.type
<1>1. x.ref \in Nat
  BY DEF StructFile
<1>2. CASE x.ref = 1
  <2>1. y = Forgotten(x)
    BY <1>2 DEF Closed, Forgotten
  <2> QED
    BY <1>2, <2>1, ForgottenFields
<1>3. CASE x.ref # 1
  <2>1. y = [x EXCEPT !.ref = x.ref - 1] /\ x.ref - 1 \in Nat
    BY <1>1, <1>3 DEF Closed
  <2> QED
    BY <1>3, <2>1, CountedFields
<1> QED
  BY <1>2, <1>3

LEMMA DupKeeps ==
    ASSUME IsFiniteSet(Procs), TableInv, NEW p \in Procs, NEW q \in Procs, NEW f \in File, Dup(p, q, f)
    PROVE  TableInv'
<1>1. /\ held[p][f] > 0 /\ file' = [file EXCEPT ![f].ref = @ + 1]
      /\ held' = [held EXCEPT ![q][f] = @ + 1] /\ TableTypes
      /\ UNCHANGED <<free, open, pc, page, first, side, ent>>
  BY DEF Dup, inodeVars, TableInv
<1>2. file[f] \in StructFile /\ file[f].ref \in Nat
  BY <1>1 DEF TableTypes, StructFile
<1>3. /\ file'[f] \in StructFile /\ file'[f].ref = file[f].ref + 1 /\ file'[f].type = file[f].type
      /\ file'[f].page = file[f].page /\ file'[f].end = file[f].end
      /\ \A h \in File \ {f} : file'[h] = file[h]
  <2>1. file'[f] = [file[f] EXCEPT !.ref = file[f].ref + 1] /\ \A h \in File \ {f} : file'[h] = file[h]
    BY <1>1 DEF TableTypes
  <2>2. file[f].ref + 1 \in Nat
    BY <1>2
  <2> QED
    BY <1>2, <2>1, <2>2, CountedFields
<1>4. /\ held' \in [Procs -> [File -> Nat]] /\ held'[q][f] = held[q][f] + 1
      /\ \A r \in Procs, h \in File : r # q \/ h # f => held'[r][h] = held[r][h]
  BY <1>1 DEF TableTypes
<1>5. TableTypes'
  <2>1. file' \in [File -> StructFile]
    BY <1>1, <1>3 DEF TableTypes
  <2> QED
    BY <1>1, <1>4, <2>1 DEF TableTypes
<1>6. Refs'
  <2>1. IsFiniteSet(Descriptors(f)') /\ HeldTimes(f)' = HeldTimes(f) + 1
    BY <1>1, <1>4, <1>5, HeldMore DEF TableInv, Refs
  <2>2. \A r \in Procs : ~ (pc[r] = "alloc1" /\ first[r] = f)
    BY <1>1, HeldFile
  <2>3. Cardinality(Builders(f)) = 0
    <3>1. Builders(f) = {}
      BY <2>2 DEF Builders
    <3> QED
      BY <3>1, FS_EmptySet, Zenon
  <2>4. file'[f].ref = HeldTimes(f)'
    BY <1>3, <2>1, <2>3, CountsSay
  <2>5. file'[f].ref > 0
    BY <1>2, <1>3
  <2>6. UNCHANGED <<pc, first>> /\ \A h \in File \ {f} : file'[h] = file[h] /\ \A r \in Procs : held'[r][h] = held[r][h]
    BY <1>1, <1>3, <1>4
  <2> QED
    BY <1>5, <2>1, <2>2, <2>4, <2>5, <2>6, CountChanges
<1>7. Pages'
  <2>1. \A h \in File : file'[h].type = file[h].type /\ file'[h].page = file[h].page /\ file'[h].end = file[h].end
    BY <1>3
  <2> QED
    BY <1>1, <2>1, PagesStay DEF TableInv
<1> QED
  BY <1>5, <1>6, <1>7 DEF TableInv

LEMMA NewFileKeeps ==
    ASSUME IsFiniteSet(Procs), TableInv, NEW p \in Procs, NEW f \in File, OpenEnds(p, f)
    PROVE  TableInv'
<1>1. /\ IsUnused(f) /\ file' = [file EXCEPT ![f] = [@ EXCEPT !.ref = 1, !.type = "inode", !.ip = ent[p]]]
      /\ held' = [held EXCEPT ![p][f] = @ + 1] /\ TableTypes /\ ent' = [ent EXCEPT ![p] = NoEntry]
      /\ UNCHANGED <<free, open, pc, page, first, side>>
  BY DEF OpenEnds, IsFirstUnused, Ends, TableInv
<1>2. file[f] \in StructFile /\ ent[p] \in Entry \cup {NoEntry}
  BY <1>1 DEF TableTypes
<1>3. /\ file'[f] \in StructFile /\ file'[f].ref = 1 /\ file'[f].type = "inode"
      /\ \A h \in File \ {f} : file'[h] = file[h]
  <2>1. file'[f] = Opened(file[f], ent[p]) /\ \A h \in File \ {f} : file'[h] = file[h]
    BY <1>1 DEF TableTypes, Opened
  <2>2. file'[f] \in StructFile /\ file'[f].ref = 1 /\ file'[f].type = "inode"
    BY <1>2, <2>1, OpenedFields
  <2> QED
    BY <2>1, <2>2
<1>4. /\ held' \in [Procs -> [File -> Nat]] /\ held'[p][f] = held[p][f] + 1
      /\ \A r \in Procs, h \in File : r # p \/ h # f => held'[r][h] = held[r][h]
  BY <1>1 DEF TableTypes
<1>5. TableTypes'
  <2>1. file' \in [File -> StructFile]
    BY <1>1, <1>3 DEF TableTypes
  <2> QED
    BY <1>1, <1>4, <2>1 DEF TableTypes
<1>6. Refs'
  <2>1. IsFiniteSet(Descriptors(f)') /\ HeldTimes(f)' = HeldTimes(f) + 1
    BY <1>4, <1>5, HeldMore DEF TableInv, Refs
  <2>2. HeldTimes(f) = 0 /\ \A r \in Procs : ~ (pc[r] = "alloc1" /\ first[r] = f)
    BY <1>1, UnusedFile
  <2>3. file'[f].ref = HeldTimes(f)' /\ file'[f].ref > 0
    BY <1>3, <2>1, <2>2
  <2>4. UNCHANGED <<pc, first>> /\ \A h \in File \ {f} : file'[h] = file[h] /\ \A r \in Procs : held'[r][h] = held[r][h]
    BY <1>1, <1>3, <1>4
  <2> QED
    BY <1>5, <2>1, <2>2, <2>3, <2>4, CountChanges
<1>7. Pages'
  <2>1. file[f].type = "none"
    BY <1>1, UnusedFile
  <2> QED
    BY <1>1, <1>3, <2>1, PagesStay DEF TableInv
<1> QED
  BY <1>5, <1>6, <1>7 DEF TableInv

\* The last reference to an end of a pipe goes to the process that closes it.
LEMMA EndPassesOn ==
    ASSUME Pages, TableTypes, NEW p \in Procs, NEW f \in File, pc[p] = "idle", file[f].type = "pipe",
           file'[f].type = "none", \A h \in File \ {f} : file'[h] = file[h],
           pc' = [pc EXCEPT ![p] = "close"], page' = [page EXCEPT ![p] = file[f].page],
           side' = [side EXCEPT ![p] = file[f].end], UNCHANGED <<free, open>>
    PROVE  Pages'
<1> DEFINE g == file[f].page
           end == file[f].end
<1>1. g \in Page /\ end \in open[g] /\ IsEnd(f, g, end) /\ page[p] = NoPage /\ NoPage \notin Page
  BY DEF Pages, OneForEachEnd, OwnPage, IsEnd, NoPage, Page
<1>2. end \in End
  BY DEF TableTypes, StructFile
<1>3. /\ pc'[p] = "close" /\ page'[p] = g /\ side'[p] = end
      /\ \A q \in Procs \ {p} : pc'[q] = pc[q] /\ page'[q] = page[q] /\ side'[q] = side[q]
  BY DEF TableTypes
<1>4. g \notin free /\ open[g] # {}
  BY <1>1 DEF Pages, FreePage
<1>5. \A q \in Procs \ {p} : pc[q] \in Building => page[q] # g
  BY <1>4 DEF Pages, OwnPage
<1> HIDE DEF g, end
<1>6. OwnPage'
  BY <1>1, <1>3, <1>5 DEF Pages, OwnPage, Building
<1>7. FreePage'
  <2>1. \A h \in Page : h # g => UsersOf(h)' = UsersOf(h)
    BY <1>1, <1>3 DEF UsersOf
  <2> QED
    BY <1>4, <2>1 DEF Pages, FreePage
<1>8. \A h \in File, k \in Page, e \in End : IsEnd(h, k, e)' <=> IsEnd(h, k, e) /\ h # f
  BY DEF IsEnd
<1>9. \A q \in Procs, k \in Page, e \in End :
        IsClosing(q, k, e)' <=> IF q = p THEN k = g /\ e = end ELSE IsClosing(q, k, e)
  BY <1>3 DEF IsClosing
<1>10. ~ \E q \in Procs : IsClosing(q, g, end)
  BY <1>1, <1>2 DEF Pages, OneForEachEnd
<1>11. \A k \in Page, e \in End : IsEnd(f, k, e) => k = g /\ e = end
  BY DEF IsEnd, g, end
<1>12. OneForEachEnd'
  <2>1. \A h \in File : file'[h].type = "pipe" => h # f
    OBVIOUS
  <2>2. \A h \in File : file'[h].type = "pipe" => file'[h].page \in Page /\ file'[h].end \in open'[file'[h].page]
    BY <2>1 DEF Pages, OneForEachEnd
  <2>3. \A q \in Procs : pc'[q] = "close" => side'[q] \in open'[page'[q]]
    BY <1>1, <1>3 DEF Pages, OneForEachEnd
  <2>4. ASSUME NEW k \in Page, NEW e \in End
        PROVE  /\ \A h, i \in File : IsEnd(h, k, e)' /\ IsEnd(i, k, e)' => h = i
               /\ \A q, r \in Procs : IsClosing(q, k, e)' /\ IsClosing(r, k, e)' => q = r
               /\ \A h \in File, q \in Procs : ~ (IsEnd(h, k, e)' /\ IsClosing(q, k, e)')
               /\ e \in open'[k] => \/ \E h \in File : IsEnd(h, k, e)'
                                    \/ \E q \in Procs : IsClosing(q, k, e)'
    <3>1. \A h, i \in File : IsEnd(h, k, e)' /\ IsEnd(i, k, e)' => h = i
      BY <1>8 DEF Pages, OneForEachEnd
    <3>2. CASE k = g /\ e = end
      <4>1. \A q \in Procs : IsClosing(q, k, e)' <=> q = p
        BY <1>9, <1>10, <3>2
      <4>2. \A h \in File : ~ IsEnd(h, k, e)'
        BY <1>1, <1>2, <1>8, <3>2 DEF Pages, OneForEachEnd
      <4> QED
        BY <3>1, <4>1, <4>2
    <3>3. CASE ~ (k = g /\ e = end)
      <4>1. \A q \in Procs : IsClosing(q, k, e)' => IsClosing(q, k, e)
        BY <1>9, <3>3
      <4>2. \A h \in File : IsEnd(h, k, e)' <=> IsEnd(h, k, e)
        BY <1>8, <1>11, <3>3
      <4>3. ~ IsClosing(p, k, e)
        BY DEF IsClosing
      <4>4. \A q \in Procs : IsClosing(q, k, e) => IsClosing(q, k, e)'
        BY <1>9, <4>3
      <4> QED
        BY <3>1, <4>1, <4>2, <4>4 DEF Pages, OneForEachEnd
    <3> QED
      BY <3>2, <3>3
  <2> QED
    BY <2>2, <2>3, <2>4 DEF OneForEachEnd
<1> QED
  BY <1>6, <1>7, <1>12 DEF Pages

LEMMA CloseKeeps ==
    ASSUME IsFiniteSet(Procs), TableInv, NEW p \in Procs, NEW f \in File, Close(p, f)
    PROVE  TableInv'
<1>1. /\ pc[p] = "idle" /\ held[p][f] > 0 /\ file' = [file EXCEPT ![f] = Closed(@)]
      /\ held' = [held EXCEPT ![p][f] = @ - 1] /\ TableTypes
      /\ IF file[f].ref = 1 /\ file[f].type = "pipe"
         THEN Moves(p, "close", file[f].page, NoFile, file[f].end)
         ELSE UNCHANGED <<pc, page, first, side>>
      /\ UNCHANGED <<free, open>>
      /\ ent' = [ent EXCEPT ![p] = file[f].ip] \/ ent' = ent
  BY DEF Close, Idle, TableInv
<1>2. file[f] \in StructFile /\ file[f].ref \in Nat /\ file[f].ref >= 1
  BY <1>1, HeldFile DEF TableTypes, StructFile
<1>3. /\ file'[f] = Closed(file[f]) /\ \A h \in File \ {f} : file'[h] = file[h]
  BY <1>1 DEF TableTypes
<1>4. /\ file'[f] \in StructFile /\ file'[f].ref = file[f].ref - 1
      /\ file[f].ref = 1 => file'[f].type = "none"
      /\ file[f].ref # 1 => file'[f].type = file[f].type
      /\ file'[f].page = file[f].page /\ file'[f].end = file[f].end
  BY <1>2, <1>3, ClosedFields
<1>5. /\ held' \in [Procs -> [File -> Nat]] /\ held'[p][f] = held[p][f] - 1
      /\ \A r \in Procs, h \in File : r # p \/ h # f => held'[r][h] = held[r][h]
  BY <1>1 DEF TableTypes
<1>6. first[p] = NoFile
  BY <1>1 DEF TableInv, Refs, FirstFile
<1>7. /\ first' = first /\ \A q \in Procs : pc'[q] = "alloc1" <=> pc[q] = "alloc1"
      /\ pc' \in [Procs -> PcSet] /\ page' \in [Procs -> Page \cup {NoPage}] /\ side' \in [Procs -> End]
  <2>1. CASE UNCHANGED <<pc, page, first, side>>
    BY <1>1, <2>1 DEF TableTypes
  <2>2. CASE Moves(p, "close", file[f].page, NoFile, file[f].end)
    BY <1>1, <1>2, <1>6, <2>2 DEF TableTypes, Moves, PcSet, StructFile
  <2> QED
    BY <1>1, <2>1, <2>2
<1>8. TableTypes'
  <2>1. file' \in [File -> StructFile]
    BY <1>1, <1>3, <1>4 DEF TableTypes
  <2>2. ent' \in [Procs -> Entry \cup {NoEntry}]
    BY <1>1, <1>2 DEF TableTypes, StructFile
  <2> QED
    BY <1>1, <1>5, <1>7, <2>1, <2>2 DEF TableTypes
<1>9. Refs'
  <2>1. IsFiniteSet(Descriptors(f)') /\ HeldTimes(f)' = HeldTimes(f) - 1
    BY <1>1, <1>5, <1>8, HeldLess DEF TableInv, Refs
  <2>2. \A r \in Procs : ~ (pc[r] = "alloc1" /\ first[r] = f)
    BY <1>1, HeldFile
  <2>3. Builders(f) = {} /\ Cardinality({}) = 0
    BY <2>2, FS_EmptySet, Zenon DEF Builders
  <2>4. \A h \in File : Builders(h)' = Builders(h)
    BY <1>7, BuildersSame
  <2>5. CountsFinite'
    BY <1>5, <2>1, HeldSame DEF TableInv, Refs, CountsFinite
  <2>6. \A h \in File : file'[h].ref = HeldTimes(h)' + Cardinality(Builders(h)')
    <3>1. file[f].ref = HeldTimes(f) + Cardinality(Builders(f)) /\ HeldTimes(f) \in Nat
      BY CountsSay
    <3>2. file'[f].ref = HeldTimes(f)' + Cardinality(Builders(f)')
      <4>1. Cardinality(Builders(f)) = 0 /\ Cardinality(Builders(f)') = 0
        BY <2>3, <2>4
      <4> QED
        BY <1>4, <2>1, <3>1, <4>1
    <3>3. \A h \in File \ {f} : HeldTimes(h)' = HeldTimes(h)
      BY <1>5, HeldSame DEF TableInv, Refs
    <3> QED
      BY <1>3, <2>4, <3>2, <3>3 DEF TableInv, Refs, FileRefsCounted
  <2>7. \A h \in File : file'[h].type # "none" => file'[h].ref > 0
    BY <1>2, <1>3, <1>4 DEF TableInv, Refs, FileRefsCounted
  <2>8. FirstFile'
    BY <1>3, <1>7, <2>2 DEF TableInv, Refs, FirstFile
  <2> QED
    BY <2>5, <2>6, <2>7, <2>8 DEF Refs, FileRefsCounted
<1>10. Pages'
  <2>1. CASE file[f].ref = 1 /\ file[f].type = "pipe"
    BY <1>1, <1>3, <1>4, <2>1, EndPassesOn DEF TableInv, Moves
  <2>2. CASE ~ (file[f].ref = 1 /\ file[f].type = "pipe")
    <3>1. UNCHANGED <<free, open, pc, page, side>>
      BY <1>1, <2>2
    <3>2. \A h \in File : /\ file'[h].type = "pipe" <=> file[h].type = "pipe"
                          /\ file'[h].page = file[h].page /\ file'[h].end = file[h].end
      BY <1>3, <1>4, <2>2
    <3> QED
      BY <3>1, <3>2, PagesStay DEF TableInv
  <2> QED
    BY <2>1, <2>2
<1> QED
  BY <1>8, <1>9, <1>10 DEF TableInv

-----------------------------------------------------------------------------
(***************************************************************************)
(* pipe_alloc and pipe_close keep the invariant                            *)
(***************************************************************************)

\* Where p is after its step.
LEMMA MovesTo ==
    ASSUME TableTypes, NEW p \in Procs, NEW to \in PcSet, NEW g \in Page \cup {NoPage},
           NEW f \in File \cup {NoFile}, NEW end \in End, Moves(p, to, g, f, end)
    PROVE  /\ pc' \in [Procs -> PcSet] /\ page' \in [Procs -> Page \cup {NoPage}]
           /\ first' \in [Procs -> File \cup {NoFile}] /\ side' \in [Procs -> End]
           /\ pc'[p] = to /\ page'[p] = g /\ first'[p] = f /\ side'[p] = end
           /\ \A q \in Procs \ {p} : /\ pc'[q] = pc[q] /\ page'[q] = page[q]
                                     /\ first'[q] = first[q] /\ side'[q] = side[q]
BY DEF TableTypes, Moves

LEMMA Constants ==
    /\ {"idle", "alloc0", "alloc1", "close"} = PcSet /\ NoPage \notin Page /\ NoFile \notin File
    /\ End = {"read", "write"}
BY DEF PcSet, NoPage, Page, NoFile, File, End

LEMMA FirstFreeIsFree ==
    ASSUME NEW S \in SUBSET Page
    PROVE  AllocPage(S) \in S \cup {NoPage}
BY DEF AllocPage, IsFirstFree

LEMMA TakesPageKeeps ==
    ASSUME TableInv, NEW p \in Procs, PipeTakesPage(p)
    PROVE  TableInv'
<1>0. PICK g : g = AllocPage(free)
  OBVIOUS
<1>1. /\ pc[p] = "idle" /\ g # NoPage /\ free' = free \ {g} /\ Moves(p, "alloc0", g, NoFile, "read")
      /\ UNCHANGED <<file, held, open, ent>> /\ TableTypes
  BY <1>0 DEF PipeTakesPage, Idle, inodeVars, TableInv
<1>2. g \in free /\ g \in Page
  BY <1>0, <1>1, FirstFreeIsFree DEF TableTypes
<1>3. /\ pc' \in [Procs -> PcSet] /\ page' \in [Procs -> Page \cup {NoPage}]
      /\ first' \in [Procs -> File \cup {NoFile}] /\ side' \in [Procs -> End]
      /\ pc'[p] = "alloc0" /\ page'[p] = g /\ first'[p] = NoFile
      /\ \A q \in Procs \ {p} : /\ pc'[q] = pc[q] /\ page'[q] = page[q]
                                /\ first'[q] = first[q] /\ side'[q] = side[q]
  BY <1>1, <1>2, MovesTo, Constants
<1>4. TableTypes'
  BY <1>1, <1>3 DEF TableTypes
<1>5. Refs'
  <2>1. \A h \in File : Builders(h)' = Builders(h)
    BY <1>1, <1>3, BuildersSame
  <2>2. \A h \in File : Descriptors(h)' = Descriptors(h) /\ HeldTimes(h)' = HeldTimes(h)
    BY <1>1 DEF Descriptors, HeldTimes
  <2>3. FirstFile'
    BY <1>1, <1>3 DEF TableInv, Refs, FirstFile
  <2> QED
    BY <1>1, <2>1, <2>2, <2>3 DEF TableInv, Refs, CountsFinite, FileRefsCounted
<1>6. open[g] = {} /\ \A q \in Procs : page[q] # g
  BY <1>2 DEF TableInv, Pages, FreePage, UsersOf
<1>7. page[p] = NoPage
  BY <1>1 DEF TableInv, Pages, OwnPage
<1>8. OwnPage'
  BY <1>1, <1>2, <1>3, <1>6, Constants DEF TableInv, Pages, OwnPage, Building
<1>9. FreePage'
  <2>1. \A h \in Page \ {g} : UsersOf(h)' = UsersOf(h)
    BY <1>3, <1>7, Constants DEF UsersOf
  <2>2. UsersOf(g)' # {}
    BY <1>3 DEF UsersOf
  <2> QED
    BY <1>1, <2>1, <2>2 DEF TableInv, Pages, FreePage
<1>10. OneForEachEnd'
  <2>1. \A q \in Procs, h \in Page, end \in End : IsClosing(q, h, end)' <=> IsClosing(q, h, end)
    BY <1>1, <1>3 DEF IsClosing
  <2>2. \A f \in File, h \in Page, end \in End : IsEnd(f, h, end)' <=> IsEnd(f, h, end)
    BY <1>1 DEF IsEnd
  <2>3. \A q \in Procs : pc'[q] = "close" => side'[q] \in open'[page'[q]]
    BY <1>1, <1>3 DEF TableInv, Pages, OneForEachEnd
  <2> QED
    BY <1>1, <2>1, <2>2, <2>3 DEF TableInv, Pages, OneForEachEnd
<1> QED
  BY <1>4, <1>5, <1>8, <1>9, <1>10 DEF TableInv, Pages

LEMMA TakesFirstKeeps ==
    ASSUME IsFiniteSet(Procs), TableInv, NEW p \in Procs, NEW f \in File, PipeTakesFirst(p, f)
    PROVE  TableInv'
<1>1. /\ pc[p] = "alloc0" /\ IsUnused(f) /\ file' = [file EXCEPT ![f].ref = 1]
      /\ Moves(p, "alloc1", page[p], f, "read")
      /\ UNCHANGED <<held, free, open, ent>> /\ TableTypes
  BY DEF PipeTakesFirst, IsFirstUnused, inodeVars, TableInv
<1>2. page[p] \in Page
  BY <1>1 DEF TableTypes, TableInv, Pages, OwnPage
<1>3. /\ pc' \in [Procs -> PcSet] /\ page' \in [Procs -> Page \cup {NoPage}]
      /\ first' \in [Procs -> File \cup {NoFile}] /\ side' \in [Procs -> End]
      /\ pc'[p] = "alloc1" /\ page'[p] = page[p] /\ first'[p] = f
      /\ \A q \in Procs \ {p} : /\ pc'[q] = pc[q] /\ page'[q] = page[q]
                                /\ first'[q] = first[q] /\ side'[q] = side[q]
  <2>1. /\ "alloc1" \in PcSet /\ page[p] \in Page \cup {NoPage} /\ f \in File \cup {NoFile}
        /\ "read" \in End
    BY <1>2, Constants
  <2>2. /\ pc' = [pc EXCEPT ![p] = "alloc1"] /\ page' = [page EXCEPT ![p] = page[p]]
        /\ first' = [first EXCEPT ![p] = f] /\ side' = [side EXCEPT ![p] = "read"]
    BY <1>1, Zenon DEF Moves
  <2>3. /\ pc \in [Procs -> PcSet] /\ page \in [Procs -> Page \cup {NoPage}]
        /\ first \in [Procs -> File \cup {NoFile}] /\ side \in [Procs -> End]
    BY <1>1, Zenon DEF TableTypes
  <2>4. /\ pc' \in [Procs -> PcSet] /\ pc'[p] = "alloc1"
        /\ \A q \in Procs \ {p} : pc'[q] = pc[q]
    BY <2>1, <2>2, <2>3
  <2>5. page' = page
    BY <2>2, <2>3
  <2>6. /\ first' \in [Procs -> File \cup {NoFile}] /\ first'[p] = f
        /\ \A q \in Procs \ {p} : first'[q] = first[q]
    BY <2>1, <2>2, <2>3
  <2>7. side' \in [Procs -> End] /\ \A q \in Procs \ {p} : side'[q] = side[q]
    BY <2>1, <2>2, <2>3
  <2> QED
    BY <2>3, <2>4, <2>5, <2>6, <2>7, Zenon
<1>4. /\ file'[f] \in StructFile /\ file'[f].ref = 1 /\ file'[f].type = file[f].type
      /\ \A h \in File \ {f} : file'[h] = file[h]
  <2>1. file'[f] = [file[f] EXCEPT !.ref = 1] /\ \A h \in File \ {f} : file'[h] = file[h]
    BY <1>1 DEF TableTypes
  <2>2. file[f] \in StructFile
    BY <1>1 DEF TableTypes
  <2> QED
    BY <2>1, <2>2, CountedFields
<1>5. TableTypes'
  <2>1. file' \in [File -> StructFile]
    BY <1>1, <1>4 DEF TableTypes
  <2> QED
    BY <1>1, <1>3, <2>1 DEF TableTypes
<1>6. /\ file[f].type = "none" /\ HeldTimes(f) = 0 /\ Builders(f) = {} /\ Cardinality(Builders(f)) = 0
      /\ \A q \in Procs : ~ (pc[q] = "alloc1" /\ first[q] = f)
  BY <1>1, UnusedFile
<1>7. Refs'
  <2>1. \A h \in File \ {f} : Builders(h)' = Builders(h)
    BY <1>1, <1>3, BuildersSame
  <2>2. Builders(f)' = Builders(f) \cup {p} /\ p \notin Builders(f)
    BY <1>1, <1>3, <1>6 DEF Builders
  <2>3. Cardinality(Builders(f)') = 1
    BY <1>6, <2>2, BuildersMore
  <2>4. \A h \in File : Descriptors(h)' = Descriptors(h) /\ HeldTimes(h)' = HeldTimes(h)
    BY <1>1 DEF Descriptors, HeldTimes
  <2>5. FirstFile'
    BY <1>3, <1>4, <1>6 DEF TableInv, Refs, FirstFile
  <2>6. FileRefsCounted'
    <3>1. file'[f].ref = HeldTimes(f)' + Cardinality(Builders(f)')
      BY <1>4, <1>6, <2>3, <2>4
    <3> QED
      BY <1>4, <2>1, <2>4, <3>1 DEF TableInv, Refs, FileRefsCounted
  <2> QED
    BY <2>4, <2>5, <2>6 DEF TableInv, Refs, CountsFinite
<1>8. OwnPage'
  <2>1. /\ \A q \in Procs : page'[q] = page[q]
        /\ \A q \in Procs : pc'[q] = "idle" <=> pc[q] = "idle"
        /\ \A q \in Procs : pc'[q] \in Building <=> pc[q] \in Building
    BY <1>1, <1>3 DEF Building
  <2> QED
    BY <1>1, <2>1 DEF TableInv, Pages, OwnPage
<1>9. FreePage'
  <2>1. \A q \in Procs : page'[q] = page[q]
    BY <1>3
  <2>2. \A h \in Page : UsersOf(h)' = UsersOf(h)
    BY <2>1, Zenon DEF UsersOf
  <2> QED
    BY <1>1, <2>2 DEF TableInv, Pages, FreePage
<1>10. OneForEachEnd'
  <2>1. \A q \in Procs, h \in Page, end \in End : IsClosing(q, h, end)' <=> IsClosing(q, h, end)
    BY <1>1, <1>3 DEF IsClosing
  <2>2. \A h \in File, g \in Page, end \in End : IsEnd(h, g, end)' <=> IsEnd(h, g, end)
    BY <1>4, <1>6 DEF IsEnd
  <2>3. \A q \in Procs : pc'[q] = "close" => side'[q] \in open'[page'[q]]
    BY <1>1, <1>3 DEF TableInv, Pages, OneForEachEnd
  <2>4. \A h \in File : file'[h].type = "pipe" => h # f
    BY <1>4, <1>6
  <2> QED
    BY <1>1, <1>4, <2>1, <2>2, <2>3, <2>4 DEF TableInv, Pages, OneForEachEnd
<1> QED
  BY <1>5, <1>7, <1>8, <1>9, <1>10 DEF TableInv, Pages

\* The struct files of a pipe.
FirstEnd(x, g)  == PipeEnd(x, g, "read")
SecondEnd(x, g) == [PipeEnd(x, g, "write") EXCEPT !.ref = 1]

LEMMA EndFields ==
    ASSUME NEW x \in StructFile, NEW g \in Page
    PROVE  /\ FirstEnd(x, g) \in StructFile /\ FirstEnd(x, g).type = "pipe" /\ FirstEnd(x, g).ref = x.ref
           /\ FirstEnd(x, g).page = g /\ FirstEnd(x, g).end = "read"
           /\ SecondEnd(x, g) \in StructFile /\ SecondEnd(x, g).type = "pipe" /\ SecondEnd(x, g).ref = 1
           /\ SecondEnd(x, g).page = g /\ SecondEnd(x, g).end = "write"
<1>1. g \in Page \cup {NoPage}
  OBVIOUS
<1> QED
  BY <1>1, Constants DEF StructFile, FirstEnd, SecondEnd, PipeEnd

\* What a page that is being built has: nobody else, and no ends.
LEMMA BuiltPage ==
    ASSUME TableInv, NEW p \in Procs, pc[p] \in Building
    PROVE  /\ page[p] \in Page /\ page[p] \notin free /\ open[page[p]] = {}
           /\ \A q \in Procs : page[q] = page[p] => q = p
           /\ \A f \in File : ~ (file[f].type = "pipe" /\ file[f].page = page[p])
           /\ \A q \in Procs : ~ (pc[q] = "close" /\ page[q] = page[p])
<1>1. /\ page[p] \in Page /\ open[page[p]] = {} /\ p \in UsersOf(page[p])
      /\ \A q \in Procs : page[q] = page[p] => q = p
  BY DEF TableInv, TableTypes, Pages, OwnPage, Building, UsersOf
<1> QED
  BY <1>1 DEF TableInv, Pages, FreePage, OneForEachEnd

LEMMA TakesSecondKeeps ==
    ASSUME IsFiniteSet(Procs), TableInv, NEW p \in Procs, NEW f \in File, PipeTakesSecond(p, f)
    PROVE  TableInv'
<1>0. PICK g, h : g = page[p] /\ h = first[p]
  OBVIOUS
<1>1. /\ pc[p] = "alloc1" /\ IsUnused(f) /\ TableTypes
      /\ file' = [file EXCEPT ![f] = SecondEnd(@, g), ![h] = FirstEnd(@, g)]
      /\ open' = [open EXCEPT ![g] = End]
      /\ held' = [held EXCEPT ![p][f] = @ + 1, ![p][h] = @ + 1]
      /\ Moves(p, "idle", NoPage, NoFile, "read") /\ UNCHANGED <<free, ent>>
  BY <1>0 DEF PipeTakesSecond, IsFirstUnused, SecondEnd, FirstEnd, Rests, inodeVars, TableInv
<1>2. /\ h \in File /\ file[h].type = "none" /\ file[h].ref = 1 /\ HeldTimes(h) = 0 /\ Builders(h) = {p}
      /\ \A q \in Procs : held[q][h] = 0
  BY <1>0, <1>1, BuiltFile
<1>3. /\ file[f].type = "none" /\ HeldTimes(f) = 0 /\ Builders(f) = {} /\ Cardinality(Builders(f)) = 0
      /\ \A q \in Procs : held[q][f] = 0
  BY <1>1, UnusedFile
<1>4. f # h
  BY <1>1, <1>2 DEF IsUnused
<1>5. /\ g \in Page /\ g \notin free /\ open[g] = {} /\ \A q \in Procs : page[q] = g => q = p
      /\ \A k \in File : ~ (file[k].type = "pipe" /\ file[k].page = g)
      /\ \A q \in Procs : ~ (pc[q] = "close" /\ page[q] = g)
  BY <1>0, <1>1, BuiltPage DEF Building
<1>6. /\ file'[f] \in StructFile /\ file'[f].ref = 1 /\ file'[f].type = "pipe"
      /\ file'[f].page = g /\ file'[f].end = "write"
      /\ file'[h] \in StructFile /\ file'[h].ref = 1 /\ file'[h].type = "pipe"
      /\ file'[h].page = g /\ file'[h].end = "read"
      /\ \A k \in File \ {f, h} : file'[k] = file[k]
  <2>0. g \in Page
    BY <1>5, Zenon
  <2>1. /\ file'[f] = SecondEnd(file[f], g) /\ file'[h] = FirstEnd(file[h], g)
        /\ \A k \in File \ {f, h} : file'[k] = file[k]
    BY <1>1, <1>2, <1>4 DEF TableTypes
  <2>2. file[f] \in StructFile /\ file[h] \in StructFile
    BY <1>1, <1>2 DEF TableTypes
  <2>3. /\ SecondEnd(file[f], g) \in StructFile /\ SecondEnd(file[f], g).type = "pipe"
        /\ SecondEnd(file[f], g).ref = 1
        /\ SecondEnd(file[f], g).page = g /\ SecondEnd(file[f], g).end = "write"
    BY <2>0, <2>2, EndFields
  <2>4. /\ FirstEnd(file[h], g) \in StructFile /\ FirstEnd(file[h], g).type = "pipe"
        /\ FirstEnd(file[h], g).ref = file[h].ref
        /\ FirstEnd(file[h], g).page = g /\ FirstEnd(file[h], g).end = "read"
    BY <2>0, <2>2, EndFields
  <2> QED
    BY <1>2, <2>1, <2>3, <2>4, Zenon
<1>7. /\ held' \in [Procs -> [File -> Nat]] /\ held'[p][f] = held[p][f] + 1 /\ held'[p][h] = held[p][h] + 1
      /\ \A q \in Procs, k \in File : q # p \/ k \notin {f, h} => held'[q][k] = held[q][k]
  <2>1. \A q \in Procs : held[q] \in [File -> Nat]
    BY <1>1 DEF TableTypes
  <2>2. held' = [held EXCEPT ![p] = [held[p] EXCEPT ![f] = held[p][f] + 1, ![h] = held[p][h] + 1]]
    BY <1>1, <1>2, <1>4 DEF TableTypes
  <2> QED
    BY <1>1, <1>2, <1>4, <2>1, <2>2 DEF TableTypes
<1>8. /\ pc' \in [Procs -> PcSet] /\ page' \in [Procs -> Page \cup {NoPage}]
      /\ first' \in [Procs -> File \cup {NoFile}] /\ side' \in [Procs -> End]
      /\ pc'[p] = "idle" /\ page'[p] = NoPage /\ first'[p] = NoFile
      /\ \A q \in Procs \ {p} : /\ pc'[q] = pc[q] /\ page'[q] = page[q]
                                /\ first'[q] = first[q] /\ side'[q] = side[q]
  <2>1. /\ "idle" \in PcSet /\ NoPage \in Page \cup {NoPage} /\ NoFile \in File \cup {NoFile}
        /\ "read" \in End
    BY Constants
  <2>2. TableTypes /\ Moves(p, "idle", NoPage, NoFile, "read")
    BY <1>1, Zenon
  <2> QED
    BY <2>1, <2>2, MovesTo
<1>9. open'[g] = End /\ \A k \in Page \ {g} : open'[k] = open[k]
  BY <1>1, <1>5 DEF TableTypes
<1>10. TableTypes'
  <2>1. file' \in [File -> StructFile]
    BY <1>1, <1>6 DEF TableTypes
  <2>2. open' \in [Page -> SUBSET End]
    BY <1>1 DEF TableTypes
  <2> QED
    BY <1>1, <1>7, <1>8, <2>1, <2>2 DEF TableTypes
<1>11. Refs'
  <2>1. /\ IsFiniteSet(Descriptors(f)') /\ HeldTimes(f)' = 1
        /\ IsFiniteSet(Descriptors(h)') /\ HeldTimes(h)' = 1
    <3>1. TableTypes /\ CountsFinite
      BY DEF TableInv, Refs
    <3>2. IsFiniteSet(Descriptors(f)') /\ HeldTimes(f)' = HeldTimes(f) + 1
      BY <1>7, <1>10, <3>1, HeldMore
    <3>3. IsFiniteSet(Descriptors(h)') /\ HeldTimes(h)' = HeldTimes(h) + 1
      BY <1>2, <1>7, <1>10, <3>1, HeldMore
    <3> QED
      BY <1>2, <1>3, <3>2, <3>3
  <2>2. \A k \in File \ {f, h} : IsFiniteSet(Descriptors(k)') /\ HeldTimes(k)' = HeldTimes(k)
    BY <1>7, HeldSame DEF TableInv, Refs
  <2>3. \A k \in File \ {h} : Builders(k)' = Builders(k)
    BY <1>0, <1>1, <1>8, BuildersSame
  <2>4. Builders(h)' = {} /\ Cardinality(Builders(h)') = 0
    <3>1. Builders(h)' = {}
      BY <1>2, <1>8 DEF Builders
    <3> QED
      BY <3>1, FS_EmptySet, Zenon
  <2>5. FirstFile'
    <3>1. \A q \in Procs \ {p} : pc[q] = "alloc1" => first[q] # h /\ first[q] # f
      BY <1>2, <1>3 DEF Builders
    <3> QED
      BY <1>6, <1>8, <3>1 DEF TableInv, Refs, FirstFile
  <2>6. FileRefsCounted'
    <3>1. file'[f].ref = HeldTimes(f)' + Cardinality(Builders(f)')
      BY <1>3, <1>4, <1>6, <2>1, <2>3
    <3>2. file'[h].ref = HeldTimes(h)' + Cardinality(Builders(h)')
      BY <1>6, <2>1, <2>4
    <3>3. \A k \in File \ {f, h} : /\ file'[k].ref = HeldTimes(k)' + Cardinality(Builders(k)')
                                   /\ file'[k].type # "none" => file'[k].ref > 0
      BY <1>6, <2>2, <2>3 DEF TableInv, Refs, FileRefsCounted
    <3> QED
      BY <1>6, <3>1, <3>2, <3>3 DEF FileRefsCounted
  <2> QED
    BY <2>1, <2>2, <2>5, <2>6 DEF Refs, CountsFinite
<1>12. OwnPage'
  <2>1. /\ \A q \in Procs \ {p} : pc[q] = "idle" <=> page[q] = NoPage
        /\ \A q \in Procs : pc[q] \in Building =>
              /\ page[q] # NoPage /\ open[page[q]] = {}
              /\ \A r \in Procs : page[r] = page[q] => r = q
    BY DEF TableInv, Pages, OwnPage, Building
  <2>2. \A q \in Procs : pc'[q] = "idle" <=> page'[q] = NoPage
    BY <1>8, <2>1
  <2>3. ASSUME NEW q \in Procs, pc'[q] \in Building
        PROVE  open'[page'[q]] = {} /\ \A r \in Procs : page'[r] = page'[q] => r = q
    <3>1. q # p /\ pc[q] \in Building /\ page'[q] = page[q]
      BY <1>8, <2>3 DEF Building
    <3>2. page[q] \in Page /\ page[q] # g
      BY <1>1, <1>5, <2>1, <3>1 DEF TableTypes
    <3>3. open'[page'[q]] = {}
      BY <1>9, <2>1, <3>1, <3>2
    <3> QED
      BY <1>8, <2>1, <3>1, <3>2, <3>3
  <2> QED
    BY <2>2, <2>3 DEF OwnPage
<1>13. FreePage'
  <2>1. \A k \in Page \ {g} : UsersOf(k)' = UsersOf(k)
    BY <1>0, <1>8, Constants DEF UsersOf
  <2> QED
    BY <1>1, <1>5, <1>9, <2>1, Constants DEF TableInv, Pages, FreePage
<1>14. OneForEachEnd'
  <2>1. \A q \in Procs, k \in Page, e \in End : IsClosing(q, k, e)' <=> IsClosing(q, k, e)
    BY <1>1, <1>8 DEF IsClosing
  <2>2. \A i \in File, k \in Page, e \in End :
           IsEnd(i, k, e)' <=> \/ i = f /\ k = g /\ e = "write"
                               \/ i = h /\ k = g /\ e = "read"
                               \/ IsEnd(i, k, e)
    BY <1>2, <1>3, <1>6 DEF IsEnd
  <2>3. \A i \in File, e \in End : ~ IsEnd(i, g, e)
    BY <1>5 DEF IsEnd
  <2>4. \A q \in Procs, e \in End : ~ IsClosing(q, g, e)
    BY <1>5 DEF IsClosing
  <2>5. \A i \in File : file'[i].type = "pipe" => file'[i].page \in Page /\ file'[i].end \in open'[file'[i].page]
    BY <1>5, <1>6, <1>9, Constants DEF TableInv, Pages, OneForEachEnd
  <2>6. \A q \in Procs : pc'[q] = "close" => side'[q] \in open'[page'[q]]
    <3>1. \A q \in Procs : pc'[q] = "close" => pc[q] = "close" /\ side'[q] = side[q] /\ page'[q] = page[q] /\ page[q] # g
      BY <1>5, <1>8
    <3>2. \A q \in Procs : pc[q] = "close" => page[q] \in Page
      BY <1>1 DEF TableTypes, TableInv, Pages, OwnPage
    <3> QED
      BY <1>9, <3>1, <3>2 DEF TableInv, Pages, OneForEachEnd
  <2>7. ASSUME NEW k \in Page, NEW e \in End
        PROVE  /\ \A i, j \in File : IsEnd(i, k, e)' /\ IsEnd(j, k, e)' => i = j
               /\ \A q, r \in Procs : IsClosing(q, k, e)' /\ IsClosing(r, k, e)' => q = r
               /\ \A i \in File, q \in Procs : ~ (IsEnd(i, k, e)' /\ IsClosing(q, k, e)')
               /\ e \in open'[k] => \/ \E i \in File : IsEnd(i, k, e)'
                                    \/ \E q \in Procs : IsClosing(q, k, e)'
    <3>1. CASE k = g
      BY <1>2, <2>1, <2>2, <2>3, <2>4, <3>1, Constants
    <3>2. CASE k # g
      <4>1. \A i \in File : IsEnd(i, k, e)' <=> IsEnd(i, k, e)
        BY <2>2, <3>2
      <4>2. open'[k] = open[k]
        BY <1>9, <3>2
      <4> QED
        BY <2>1, <4>1, <4>2 DEF TableInv, Pages, OneForEachEnd
    <3> QED
      BY <3>1, <3>2
  <2> QED
    BY <2>5, <2>6, <2>7 DEF OneForEachEnd
<1> QED
  BY <1>10, <1>11, <1>12, <1>13, <1>14 DEF TableInv, Pages

LEMMA FailsKeeps ==
    ASSUME IsFiniteSet(Procs), TableInv, NEW p \in Procs, PipeFails(p)
    PROVE  TableInv'
<1>0. PICK g, h : g = page[p] /\ h = first[p]
  OBVIOUS
<1>1. /\ pc[p] \in Building /\ TableTypes
      /\ free' = free \cup ({g} \cap Page)
      /\ file' = IF h = NoFile THEN file ELSE [file EXCEPT ![h] = Closed(@)]
      /\ Moves(p, "idle", NoPage, NoFile, "read") /\ UNCHANGED <<held, open, ent>>
  BY <1>0 DEF PipeFails, FreePages, Rests, inodeVars, TableInv, Building
<1>2. /\ g \in Page /\ g \notin free /\ open[g] = {} /\ \A q \in Procs : page[q] = g => q = p
      /\ \A k \in File : ~ (file[k].type = "pipe" /\ file[k].page = g)
  BY <1>0, <1>1, BuiltPage
<1>3. /\ pc' \in [Procs -> PcSet] /\ page' \in [Procs -> Page \cup {NoPage}]
      /\ first' \in [Procs -> File \cup {NoFile}] /\ side' \in [Procs -> End]
      /\ pc'[p] = "idle" /\ page'[p] = NoPage /\ first'[p] = NoFile
      /\ \A q \in Procs \ {p} : /\ pc'[q] = pc[q] /\ page'[q] = page[q]
                                /\ first'[q] = first[q] /\ side'[q] = side[q]
  BY <1>1, MovesTo, Constants
<1>4. \A k \in File : Descriptors(k)' = Descriptors(k) /\ HeldTimes(k)' = HeldTimes(k)
  BY <1>1 DEF Descriptors, HeldTimes
<1>5. /\ file' \in [File -> StructFile] /\ Refs'
      /\ \A k \in File : file'[k].type = file[k].type \/ (file'[k].type = "none" /\ file[k].type = "none")
      /\ \A k \in File : file'[k].page = file[k].page /\ file'[k].end = file[k].end
  <2>1. CASE pc[p] = "alloc0"
    <3>1. h = NoFile /\ file' = file
      BY <1>0, <1>1, <2>1 DEF TableInv, Refs, FirstFile
    <3>2. \A k \in File : Builders(k)' = Builders(k)
      BY <1>3, <2>1, BuildersSame
    <3>3. FirstFile'
      BY <1>3, <3>1 DEF TableInv, Refs, FirstFile
    <3> QED
      BY <1>1, <1>4, <3>1, <3>2, <3>3 DEF TableInv, TableTypes, Refs, CountsFinite, FileRefsCounted
  <2>2. CASE pc[p] = "alloc1"
    <3>1. h \in File /\ file[h].type = "none" /\ file[h].ref = 1 /\ HeldTimes(h) = 0 /\ Builders(h) = {p}
      BY <1>0, <2>2, BuiltFile
    <3>2. file[h] \in StructFile /\ file' = [file EXCEPT ![h] = Closed(@)]
      BY <1>1, <3>1, Constants DEF TableTypes
    <3>3. file'[h] = Closed(file[h]) /\ \A k \in File \ {h} : file'[k] = file[k]
      BY <1>1, <3>1, <3>2 DEF TableTypes
    <3>4. /\ file'[h] \in StructFile /\ file'[h].ref = 0 /\ file'[h].type = "none"
          /\ file'[h].page = file[h].page /\ file'[h].end = file[h].end
      BY <3>1, <3>2, <3>3, ClosedFields
    <3>5. file' \in [File -> StructFile]
      BY <1>1, <3>2, <3>3, <3>4 DEF TableTypes
    <3>6. \A k \in File \ {h} : Builders(k)' = Builders(k)
      BY <1>0, <1>3, BuildersSame
    <3>7. Cardinality(Builders(h)') = 0
      <4>1. Builders(h)' = {}
        BY <1>3, <3>1 DEF Builders
      <4> QED
        BY <4>1, FS_EmptySet, Zenon
    <3>8. FirstFile'
      <4>1. \A q \in Procs \ {p} : pc[q] = "alloc1" => first[q] # h
        BY <3>1 DEF Builders
      <4> QED
        BY <1>3, <3>3, <4>1 DEF TableInv, Refs, FirstFile
    <3>9. FileRefsCounted'
      <4>1. file'[h].ref = HeldTimes(h)' + Cardinality(Builders(h)')
        BY <1>4, <3>1, <3>4, <3>7
      <4> QED
        BY <1>4, <3>3, <3>4, <3>6, <4>1 DEF TableInv, Refs, FileRefsCounted
    <3>10. Refs'
      BY <1>4, <3>8, <3>9 DEF TableInv, Refs, CountsFinite
    <3> QED
      BY <3>1, <3>3, <3>4, <3>5, <3>10
  <2> QED
    BY <1>1, <2>1, <2>2 DEF Building
<1>6. TableTypes'
  BY <1>1, <1>3, <1>5 DEF TableTypes
<1>7. OwnPage'
  BY <1>1, <1>3, Constants DEF TableInv, Pages, OwnPage, Building
<1>8. FreePage'
  <2>1. \A k \in Page \ {g} : UsersOf(k)' = UsersOf(k)
    BY <1>0, <1>3, Constants DEF UsersOf
  <2>2. UsersOf(g)' = {}
    BY <1>2, <1>3, Constants DEF UsersOf
  <2> QED
    BY <1>1, <1>2, <2>1, <2>2 DEF TableInv, Pages, FreePage
<1>9. OneForEachEnd'
  <2>1. \A q \in Procs, k \in Page, e \in End : IsClosing(q, k, e)' <=> IsClosing(q, k, e)
    BY <1>1, <1>3 DEF IsClosing, Building
  <2>2. \A i \in File, k \in Page, e \in End : IsEnd(i, k, e)' <=> IsEnd(i, k, e)
    BY <1>5 DEF IsEnd
  <2>3. \A q \in Procs : pc'[q] = "close" => side'[q] \in open'[page'[q]]
    BY <1>1, <1>3 DEF TableInv, Pages, OneForEachEnd
  <2> QED
    BY <1>1, <1>5, <2>1, <2>2, <2>3 DEF TableInv, Pages, OneForEachEnd
<1> QED
  BY <1>5, <1>6, <1>7, <1>8, <1>9 DEF TableInv, Pages

LEMMA PipeCloseKeeps ==
    ASSUME TableInv, NEW p \in Procs, PipeClose(p)
    PROVE  TableInv'
<1>0. PICK g, e : g = page[p] /\ e = side[p]
  OBVIOUS
<1>1. PICK left : left = open[g] \ {e}
  OBVIOUS
<1>2. /\ pc[p] = "close" /\ TableTypes /\ open' = [open EXCEPT ![g] = left]
      /\ free' = free \cup ((IF left = {} THEN {g} ELSE {}) \cap Page)
      /\ Moves(p, "idle", NoPage, NoFile, "read") /\ UNCHANGED <<file, held, ent>>
  BY <1>0, <1>1 DEF PipeClose, FreePages, GivenBack, Rests, inodeVars, TableInv
<1>3. /\ g \in Page /\ e \in End /\ e \in open[g] /\ IsClosing(p, g, e) /\ first[p] = NoFile
      /\ left \in SUBSET End
  BY <1>0, <1>1, <1>2 DEF TableTypes, TableInv, Pages, OwnPage, OneForEachEnd, Refs, FirstFile, IsClosing
<1>4. /\ pc' \in [Procs -> PcSet] /\ page' \in [Procs -> Page \cup {NoPage}]
      /\ first' \in [Procs -> File \cup {NoFile}] /\ side' \in [Procs -> End]
      /\ pc'[p] = "idle" /\ page'[p] = NoPage /\ first'[p] = NoFile
      /\ \A q \in Procs \ {p} : /\ pc'[q] = pc[q] /\ page'[q] = page[q]
                                /\ first'[q] = first[q] /\ side'[q] = side[q]
  BY <1>2, MovesTo, Constants
<1>5. open'[g] = left /\ \A k \in Page \ {g} : open'[k] = open[k]
  BY <1>2, <1>3 DEF TableTypes
<1>6. TableTypes'
  BY <1>2, <1>3, <1>4 DEF TableTypes
<1>7. Refs'
  <2>1. \A k \in File : Builders(k)' = Builders(k)
    BY <1>2, <1>4, BuildersSame
  <2>2. \A k \in File : Descriptors(k)' = Descriptors(k) /\ HeldTimes(k)' = HeldTimes(k)
    BY <1>2 DEF Descriptors, HeldTimes
  <2>3. FirstFile'
    BY <1>2, <1>4 DEF TableInv, Refs, FirstFile
  <2> QED
    BY <1>2, <2>1, <2>2, <2>3 DEF TableInv, Refs, CountsFinite, FileRefsCounted
<1>8. \A q \in Procs \ {p} : page[q] = g => pc[q] = "close" /\ side[q] \in left
  <2> SUFFICES ASSUME NEW q \in Procs \ {p}, page[q] = g PROVE pc[q] = "close" /\ side[q] \in left
    OBVIOUS
  <2>1. pc[q] = "close"
    <3>1. pc[q] # "idle" /\ pc[q] \notin Building
      BY <1>3, Constants DEF TableInv, Pages, OwnPage
    <3> QED
      BY <1>2, <3>1, Constants DEF TableTypes, Building
  <2>2. side[q] \in open[g] /\ side[q] \in End /\ IsClosing(q, g, side[q])
    BY <1>2, <2>1 DEF TableInv, Pages, OneForEachEnd, TableTypes, IsClosing
  <2>3. side[q] # e
    BY <1>3, <2>2 DEF TableInv, Pages, OneForEachEnd
  <2> QED
    BY <1>1, <2>1, <2>2, <2>3
<1>9. OwnPage'
  <2>1. \A q \in Procs \ {p} : pc[q] \in Building => page[q] # g
    BY <1>8 DEF Building
  <2>2. \A q \in Procs : pc[q] \in Building => page[q] \in Page
    BY <1>2 DEF TableTypes, TableInv, Pages, OwnPage, Building
  <2> QED
    BY <1>4, <1>5, <2>1, <2>2, Constants DEF TableInv, Pages, OwnPage, Building
<1>10. FreePage'
  <2>1. \A k \in Page \ {g} : UsersOf(k)' = UsersOf(k)
    BY <1>0, <1>4, Constants DEF UsersOf
  <2>2. g \in free' <=> left = {}
    BY <1>2, <1>3 DEF TableInv, Pages, FreePage
  <2>3. left = {} => UsersOf(g)' = {}
    BY <1>3, <1>4, <1>8, Constants DEF UsersOf
  <2>4. \A k \in Page \ {g} : k \in free' <=> k \in free
    BY <1>2
  <2> QED
    BY <1>5, <2>1, <2>2, <2>3, <2>4 DEF TableInv, Pages, FreePage
<1>11. OneForEachEnd'
  <2>1. \A q \in Procs, k \in Page, d \in End : IsClosing(q, k, d)' <=> IsClosing(q, k, d) /\ q # p
    BY <1>4 DEF IsClosing
  <2>2. \A i \in File, k \in Page, d \in End : IsEnd(i, k, d)' <=> IsEnd(i, k, d)
    BY <1>2 DEF IsEnd
  <2>3. \A i \in File : file'[i].type = "pipe" => file'[i].page \in Page /\ file'[i].end \in open'[file'[i].page]
    <3> SUFFICES ASSUME NEW i \in File, file[i].type = "pipe"
                 PROVE  file[i].page \in Page /\ file[i].end \in open'[file[i].page]
      BY <1>2
    <3>1. file[i].page \in Page /\ file[i].end \in open[file[i].page]
      BY DEF TableInv, Pages, OneForEachEnd
    <3>2. ~ IsEnd(i, g, e)
      BY <1>3 DEF TableInv, Pages, OneForEachEnd
    <3>3. file[i].page = g => file[i].end # e
      BY <3>2 DEF IsEnd
    <3> QED
      BY <1>1, <1>5, <3>1, <3>3
  <2>4. \A q \in Procs : pc'[q] = "close" => side'[q] \in open'[page'[q]]
    <3> SUFFICES ASSUME NEW q \in Procs \ {p}, pc[q] = "close" PROVE side[q] \in open'[page[q]]
      BY <1>4
    <3>1. side[q] \in open[page[q]] /\ page[q] \in Page
      BY <1>2 DEF TableInv, Pages, OneForEachEnd, OwnPage, TableTypes
    <3> QED
      BY <1>5, <1>8, <3>1
  <2>5. ASSUME NEW k \in Page, NEW d \in End, d \in open'[k]
        PROVE  (\E i \in File : IsEnd(i, k, d)') \/ (\E q \in Procs : IsClosing(q, k, d)')
    <3>1. d \in open[k] /\ ~ (k = g /\ d = e)
      BY <1>1, <1>5, <2>5
    <3>2. ~ IsClosing(p, k, d)
      BY <1>0, <3>1 DEF IsClosing
    <3> QED
      BY <2>1, <2>2, <3>1, <3>2 DEF TableInv, Pages, OneForEachEnd
  <2> QED
    BY <2>1, <2>2, <2>3, <2>4, <2>5 DEF TableInv, Pages, OneForEachEnd
<1> QED
  BY <1>6, <1>7, <1>9, <1>10, <1>11 DEF TableInv, Pages

-----------------------------------------------------------------------------
LEMMA InitTableInv == ASSUME IsFiniteSet(Procs), Init PROVE TableInv
<1>1. TableTypes
  <2>1. Blank \in StructFile
    BY Constants DEF Blank, StructFile
  <2> QED
    BY <2>1, Constants DEF Init, InodeInit, TableTypes
<1>2. \A f \in File : /\ file[f].ref = 0 /\ file[f].type = "none"
                      /\ Descriptors(f) = {} /\ Builders(f) = {}
  <2>1. \A f \in File, p \in Procs : 1 .. held[p][f] = {}
    BY DEF Init
  <2> QED
    BY <2>1 DEF Init, Blank, Descriptors, Builders
<1>3. Refs
  <2>1. CountsFinite /\ FirstFile
    BY <1>2, FS_EmptySet DEF Init, CountsFinite, FirstFile
  <2>2. \A f \in File : HeldTimes(f) = 0 /\ Cardinality(Builders(f)) = 0
    BY <1>2, FS_EmptySet DEF HeldTimes
  <2>3. FileRefsCounted
    BY <1>2, <2>2 DEF FileRefsCounted
  <2> QED
    BY <2>1, <2>3 DEF Refs
<1>4. OwnPage
  BY Constants DEF Init, OwnPage, Building
<1>5. OneForEachEnd
  BY <1>2 DEF Init, OneForEachEnd, IsEnd, IsClosing
<1>6. FreePage
  BY Constants DEF Init, FreePage, UsersOf
<1> QED
  BY <1>1, <1>3, <1>4, <1>5, <1>6 DEF TableInv, Pages

\* The operations of the inode cache leave the table alone.
LEMMA InodeKeepsTable ==
    ASSUME TableInv, NEW p \in Procs,
           \/ InodeStep(p) /\ UNCHANGED fileVars
           \/ OpenNew(p) \/ OpenFails(p) \/ (\E i \in Inum : OpenByName(p, i))
           \/ \E f \in File : UseInode(p, f)
    PROVE  TableInv'
<1>1. ent \in [Procs -> Entry \cup {NoEntry}] /\ \A f \in File : file[f].ip \in Entry \cup {NoEntry}
  BY DEF TableInv, TableTypes, StructFile
<1>2. UNCHANGED fileVars
  BY DEF OpenNew, OpenFails, OpenByName, UseInode
<1>3. ent' = ent \/ \E e \in Entry \cup {NoEntry} : ent' = [ent EXCEPT ![p] = e]
  <2>1. CASE InodeStep(p)
    BY <2>1 DEF InodeStep, AllocPasses, AllocTakes, GetHit, GetRecycles, GetFull, Load, WriteInode, Unlock,
       Put, PutFrees, PutLocks, PutErases, PutUnlocks, PutDrops, ScanAt, Ends
  <2>2. CASE OpenNew(p) \/ OpenFails(p) \/ (\E i \in Inum : OpenByName(p, i))
    BY <2>2 DEF OpenNew, OpenFails, OpenByName, Alloc, Lookup, ScanAt, Ends
  <2>3. CASE \E f \in File : UseInode(p, f)
    BY <1>1, <2>3 DEF UseInode, Lock
  <2> QED
    BY <2>1, <2>2, <2>3
<1>4. ent' \in [Procs -> Entry \cup {NoEntry}]
  BY <1>1, <1>3
<1> QED
  BY <1>2, <1>4, TableStays

LEMMA StepTableInv == ASSUME IsFiniteSet(Procs), TableInv, [Next]_vars PROVE TableInv'
<1>1. CASE UNCHANGED vars
  BY <1>1, TableStays DEF vars, inodeVars, TableInv, TableTypes
<1>2. ASSUME NEW p \in Procs, NEW f \in File,
             \/ Close(p, f) \/ (\E q \in Procs : Dup(p, q, f))
             \/ PipeTakesFirst(p, f) \/ PipeTakesSecond(p, f) \/ OpenEnds(p, f)
      PROVE  TableInv'
  BY <1>2, CloseKeeps, DupKeeps, TakesFirstKeeps, TakesSecondKeeps, NewFileKeeps
<1>3. ASSUME NEW p \in Procs, PipeTakesPage(p) \/ PipeFails(p) \/ PipeClose(p)
      PROVE  TableInv'
  BY <1>3, TakesPageKeeps, FailsKeeps, PipeCloseKeeps
<1> QED
  BY <1>1, <1>2, <1>3, InodeKeepsTable DEF Next

LEMMA TableInvariance == ASSUME IsFiniteSet(Procs) PROVE Spec => []TableInv
<1>1. TableInv /\ [Next]_vars => TableInv'
  BY StepTableInv
<1>2. Init => TableInv
  BY InitTableInv
<1> QED
  BY <1>1, <1>2, PTL DEF Spec

\* The page of a pipe is its own until both ends are closed, and free again
\* exactly then, by whatever path it goes (pipe_alloc, pipe_close).
THEOREM PipePagesExact == ASSUME IsFiniteSet(Procs) PROVE Spec => []PipePages
<1>1. ASSUME TableInv PROVE PipePages
  <2> SUFFICES ASSUME NEW g \in Page, NEW end \in End
               PROVE  Cardinality(EndFiles(g, end)) + Cardinality(Closers(g, end))
                          = (IF end \in open[g] THEN 1 ELSE 0)
    BY <1>1 DEF TableInv, Pages, FreePage, PipePages
  <2>1. EndFiles(g, end) = {f \in File : IsEnd(f, g, end)} /\ Closers(g, end) = {p \in Procs : IsClosing(p, g, end)}
    BY DEF EndFiles, Closers, UsersOf, IsEnd, IsClosing
  <2>2. Cardinality({}) = 0 /\ \A x : Cardinality({x}) = 1
    BY FS_EmptySet, FS_Singleton
  <2>3. /\ \A f, h \in File : IsEnd(f, g, end) /\ IsEnd(h, g, end) => f = h
        /\ \A p, q \in Procs : IsClosing(p, g, end) /\ IsClosing(q, g, end) => p = q
        /\ \A f \in File, p \in Procs : ~ (IsEnd(f, g, end) /\ IsClosing(p, g, end))
        /\ end \in open[g] <=> \/ \E f \in File : IsEnd(f, g, end)
                               \/ \E p \in Procs : IsClosing(p, g, end)
    BY <1>1 DEF TableInv, Pages, OneForEachEnd, IsEnd, IsClosing
  <2>4. ASSUME NEW f \in File, IsEnd(f, g, end)
        PROVE  Cardinality(EndFiles(g, end)) = 1 /\ Cardinality(Closers(g, end)) = 0 /\ end \in open[g]
    <3>1. EndFiles(g, end) = {f} /\ Closers(g, end) = {} /\ end \in open[g]
      BY <2>1, <2>3, <2>4
    <3> QED
      BY <2>2, <3>1
  <2>5. ASSUME NEW p \in Procs, IsClosing(p, g, end)
        PROVE  Cardinality(EndFiles(g, end)) = 0 /\ Cardinality(Closers(g, end)) = 1 /\ end \in open[g]
    <3>1. EndFiles(g, end) = {} /\ Closers(g, end) = {p} /\ end \in open[g]
      BY <2>1, <2>3, <2>5
    <3> QED
      BY <2>2, <3>1
  <2>6. CASE (\A f \in File : ~ IsEnd(f, g, end)) /\ (\A p \in Procs : ~ IsClosing(p, g, end))
    <3>1. EndFiles(g, end) = {} /\ Closers(g, end) = {} /\ end \notin open[g]
      BY <2>1, <2>3, <2>6
    <3> QED
      BY <2>2, <3>1
  <2> QED
    BY <2>4, <2>5, <2>6
<1> QED
  BY <1>1, TableInvariance, PTL

-----------------------------------------------------------------------------
(***************************************************************************)
(* The inode cache: one entry for an inode, for any processes at all       *)
(***************************************************************************)

\* OneEntry needs only that the fields it reads are numbers of the right
\* functions: whatever happens to the counts, a recycled entry had none, and
\* its new inode was in no entry that has.
EntriesTyped ==
    /\ ref \in [Entry -> Int]
    /\ inum \in [Entry -> Int]
    /\ num \in [Procs -> Int]

IInv == EntriesTyped /\ OneEntry

\* InodeInit empties the cache, so no entry has a reference.
LEMMA InitIInv == Init => IInv
  BY InodeAssumption DEF Init, InodeInit, IInv, EntriesTyped, OneEntry, Entry

\* The stages of an operation change num[p] to a number, or not at all.
LEMMA ScanAtTyped ==
  ASSUME EntriesTyped, NEW p \in Procs, NEW i \in Int, ScanAt(p, i)
  PROVE  num' \in [Procs -> Int]
  <1>1. CASE i \in Inum
    BY <1>1 DEF ScanAt, EntriesTyped, Goes
  <1>2. CASE i \notin Inum
    BY <1>2 DEF ScanAt, EntriesTyped, Ends
  <1> QED BY <1>1, <1>2

\* What leaves the identities of the entries alone and adds no reference to an
\* unreferenced one preserves the invariant (every operation but inode_get's
\* recycling).
LEMMA NoNewEntry ==
  ASSUME IInv, inum' = inum, ref' \in [Entry -> Int], num' \in [Procs -> Int],
         \A e \in Entry : ref'[e] > 0 => ref[e] > 0
  PROVE  IInv'
  BY DEF IInv, EntriesTyped, OneEntry

\* A hit adds a reference to an entry that has one (inode_get).
LEMMA GetHitKeeps ==
  ASSUME IInv, NEW p \in Procs, NEW e \in Entry, GetHit(p, e)
  PROVE  IInv'
  <1>1. ref' \in [Entry -> Int] /\ num' \in [Procs -> Int]
    BY DEF GetHit, IInv, EntriesTyped
  <1>2. \A d \in Entry : ref'[d] > 0 => ref[d] > 0
    BY DEF GetHit, IsHit, IInv, EntriesTyped
  <1> QED BY <1>1, <1>2, NoNewEntry DEF GetHit

\* A recycled entry becomes the only one of its inode (inode_get).
LEMMA GetRecyclesKeeps ==
  ASSUME IInv, NEW p \in Procs, NEW e \in Entry, GetRecycles(p, e)
  PROVE  IInv'
  <1>1. EntriesTyped'
    BY DEF GetRecycles, IInv, EntriesTyped
  <1>2. OneEntry'
    <2> SUFFICES ASSUME NEW c \in Entry, NEW d \in Entry,
                        ref'[c] > 0, ref'[d] > 0, inum'[c] = inum'[d]
                 PROVE  c = d
      BY DEF OneEntry
    <2>1. /\ inum' = [inum EXCEPT ![e] = num[p]]
          /\ ref' = [ref EXCEPT ![e] = 1]
          /\ \A b \in Entry : ~ (ref[b] > 0 /\ inum[b] = num[p])
      BY DEF GetRecycles, IsHit
    <2>2. CASE c = e \/ d = e
      BY <2>1, <2>2 DEF IInv, EntriesTyped
    <2>3. CASE c # e /\ d # e
      BY <2>1, <2>3 DEF IInv, EntriesTyped, OneEntry
    <2> QED BY <2>2, <2>3
  <1> QED BY <1>1, <1>2 DEF IInv

\* Dropping a reference (inode_put).
LEMMA DropKeeps ==
  ASSUME IInv, NEW p \in Procs, Put(p) \/ PutDrops(p)
  PROVE  IInv'
  <1>1. ref' = [ref EXCEPT ![ent[p]] = @ - 1] /\ inum' = inum
    BY DEF Put, PutDrops
  <1>2. num' \in [Procs -> Int]
    BY DEF Put, PutDrops, Ends, IInv, EntriesTyped
  <1>3. ref' \in [Entry -> Int]
    <2>1. CASE ent[p] \in Entry
      BY <1>1, <2>1 DEF IInv, EntriesTyped
    <2>2. CASE ent[p] \notin Entry
      BY <1>1, <2>2 DEF IInv, EntriesTyped
    <2> QED BY <2>1, <2>2
  <1>4. \A e \in Entry : ref'[e] > 0 => ref[e] > 0
    BY <1>1 DEF IInv, EntriesTyped
  <1> QED BY <1>1, <1>2, <1>3, <1>4, NoNewEntry

\* Every step of the inode cache.
LEMMA InodeStepKeeps ==
  ASSUME IInv, NEW p \in Procs, InodeStep(p)
  PROVE  IInv'
  <1>1. CASE AllocPasses(p)
    <2>1. num' \in [Procs -> Int]
      BY <1>1, ScanAtTyped DEF AllocPasses, IInv, EntriesTyped
    <2> QED BY <1>1, <2>1, NoNewEntry DEF AllocPasses, cache, IInv, EntriesTyped
  <1>2. CASE AllocTakes(p)
    BY <1>2, NoNewEntry DEF AllocTakes, cache, IInv, EntriesTyped
  <1>3. ASSUME NEW e \in Entry, GetHit(p, e) PROVE IInv'
    BY <1>3, GetHitKeeps
  <1>4. ASSUME NEW e \in Entry, GetRecycles(p, e) PROVE IInv'
    BY <1>4, GetRecyclesKeeps
  <1>5. CASE GetFull(p)
    BY <1>5, NoNewEntry DEF GetFull, Ends, cache, IInv, EntriesTyped
  <1>6. CASE Load(p)
    BY <1>6, NoNewEntry DEF Load, IInv, EntriesTyped
  <1>7. CASE \E size \in 1 .. MaxSize : WriteInode(p, size)
    BY <1>7, NoNewEntry DEF WriteInode, IInv, EntriesTyped
  <1>8. CASE Unlock(p)
    BY <1>8, NoNewEntry DEF Unlock, Ends, IInv, EntriesTyped
  <1>9. CASE Put(p) \/ PutDrops(p)
    BY <1>9, DropKeeps
  <1>10. CASE PutFrees(p) \/ PutLocks(p) \/ PutErases(p) \/ PutUnlocks(p)
    BY <1>10, NoNewEntry
       DEF PutFrees, PutLocks, PutErases, PutUnlocks, cache, IInv, EntriesTyped
  <1> QED
    BY <1>1, <1>2, <1>3, <1>4, <1>5, <1>6, <1>7, <1>8, <1>9, <1>10 DEF InodeStep

\* Every step of the table of open files.
LEMMA NextIInv == IInv /\ [Next]_vars => IInv'
  <1> SUFFICES ASSUME IInv, [Next]_vars PROVE IInv'
    OBVIOUS
  <1>1. ASSUME NEW p \in Procs, NEW f \in File, Close(p, f) PROVE IInv'
    BY <1>1, NoNewEntry DEF Close, cache, IInv, EntriesTyped
  <1>2. ASSUME NEW p \in Procs, NEW f \in File, NEW q \in Procs, Dup(p, q, f)
        PROVE IInv'
    BY <1>2, NoNewEntry DEF Dup, inodeVars, cache, IInv, EntriesTyped
  <1>3. ASSUME NEW p \in Procs, NEW f \in File,
               PipeTakesFirst(p, f) \/ PipeTakesSecond(p, f)
        PROVE IInv'
    BY <1>3, NoNewEntry
       DEF PipeTakesFirst, PipeTakesSecond, inodeVars, cache, IInv, EntriesTyped
  <1>4. ASSUME NEW p \in Procs, NEW f \in File, OpenEnds(p, f) PROVE IInv'
    BY <1>4, NoNewEntry DEF OpenEnds, Ends, cache, IInv, EntriesTyped
  <1>5. ASSUME NEW p \in Procs, NEW f \in File, UseInode(p, f) PROVE IInv'
    BY <1>5, NoNewEntry DEF UseInode, Lock, IInv, EntriesTyped
  <1>6. ASSUME NEW p \in Procs, PipeTakesPage(p) \/ PipeFails(p) \/ PipeClose(p)
        PROVE IInv'
    BY <1>6, NoNewEntry
       DEF PipeTakesPage, PipeFails, PipeClose, inodeVars, cache, IInv, EntriesTyped
  <1>7. ASSUME NEW p \in Procs, OpenNew(p) PROVE IInv'
    <2>1. num' \in [Procs -> Int]
      BY <1>7, ScanAtTyped DEF OpenNew, Alloc, IInv
    <2> QED BY <1>7, <2>1, NoNewEntry DEF OpenNew, Alloc, cache, IInv, EntriesTyped
  <1>8. ASSUME NEW p \in Procs, OpenFails(p) PROVE IInv'
    BY <1>8, NoNewEntry DEF OpenFails, cache, IInv, EntriesTyped
  <1>9. ASSUME NEW p \in Procs, NEW i \in Inum, OpenByName(p, i) PROVE IInv'
    BY <1>9, NoNewEntry, InodeAssumption
       DEF OpenByName, Lookup, cache, IInv, EntriesTyped, Inum
  <1>10. ASSUME NEW p \in Procs, InodeStep(p) PROVE IInv'
    BY <1>10, InodeStepKeeps
  <1>11. CASE UNCHANGED vars
    BY <1>11, NoNewEntry DEF vars, inodeVars, cache, IInv, EntriesTyped
  <1> QED
    BY <1>1, <1>2, <1>3, <1>4, <1>5, <1>6, <1>7, <1>8, <1>9, <1>10, <1>11 DEF Next

\* Whatever the order of lookups, allocations, closes and the unlocked window
\* of inode_put, an inode has at most one entry in the cache (inode_get).
THEOREM InodeHasOneEntry == Spec => []OneEntry
  <1>1. IInv => OneEntry
    BY DEF IInv
  <1> QED BY InitIInv, NextIInv, <1>1, PTL DEF Spec

-----------------------------------------------------------------------------
(***************************************************************************)
(* Counts, locks and contents                                              *)
(***************************************************************************)

\* A process inside the lock of an entry; one whose reference is to an inode in
\* use: the window of inode_put between "erase" and "drop" is left out.
Inside == {"load", "in", "erase", "unlock"}
Owning == {"have", "put", "free", "erase"}

IsOpen(f, e) == file[f].type = "inode" /\ file[f].ip = e

Placed ==
    /\ \A p \in Procs : /\ at[p] \in {"scan", "get"} => num[p] \in Inum
                        /\ at[p] \in Counting \cup {"load", "in"} => ent[p] \in Entry
    /\ \A f \in File : file[f].type = "inode" => file[f].ip \in Entry
    /\ \A e \in Entry : ref[e] > 0 => inum[e] \in Inum

\* The lock of an entry names the process inside.
Locking ==
    /\ \A p \in Procs : at[p] \in Inside => holder[ent[p]] = p
    /\ \A e \in Entry : holder[e] # Nobody => ent[holder[e]] = e /\ at[holder[e]] \in Inside

\* inode_lock is called for a file the process holds.
UsesOpen ==
    \A p \in Procs : at[p] \in {"load", "in"} =>
        \E f \in File : held[p][f] > 0 /\ IsOpen(f, ent[p])

HasRead == \A p \in Procs : at[p] \in {"in", "free", "erase"} => copy[ent[p]] # NotRead

\* inode_put frees an inode when it has the only reference, and keeps it so.
LastReference ==
    \A p \in Procs : at[p] \in {"free", "erase"} => ref[ent[p]] = 1 /\ copy[ent[p]].nlink = 0

InUse ==
    /\ \A f \in File : file[f].type = "inode" => dinode[inum[file[f].ip]].used
    /\ \A p \in Procs : /\ at[p] \in Owning => dinode[inum[ent[p]]].used
                        /\ at[p] = "get" => dinode[num[p]].used

\* A copy is what the disk holds, until inode_put has erased the inode.
Shown ==
    \A e \in Entry : ref[e] > 0 /\ copy[e] # NotRead =>
        \/ copy[e] = dinode[inum[e]] /\ dinode[inum[e]].used
        \/ \E p \in Procs : at[p] = "unlock" /\ ent[p] = e

\* An inode that has been allocated and not yet found in the cache is its
\* allocator's, though the entry it once had may still be there.
SoleUser ==
    \A p \in Procs : at[p] = "get" /\ dinode[num[p]].nlink = 0 =>
        /\ \A q \in Procs : q # p /\ at[q] = "get" => num[q] # num[p]
        /\ \A f \in File : file[f].type = "inode" => inum[file[f].ip] # num[p]
        /\ \A q \in Procs : at[q] \in Owning => inum[ent[q]] # num[p]

Contents == HasRead /\ LastReference /\ InUse /\ Shown /\ SoleUser

Kept == InodeTypeOK /\ Placed /\ InodeRefsCounted /\ Locking /\ UsesOpen /\ Contents

CacheInv == Kept /\ OneEntry

\* All that the steps below rest on.
Basis == IsFiniteSet(Procs) /\ TableInv /\ CacheInv

LEMMA CitedFinite ==
    ASSUME IsFiniteSet(Procs), NEW e
    PROVE  /\ IsFiniteSet(FilesOf(e)) /\ Cardinality(FilesOf(e)) \in Nat
           /\ IsFiniteSet(UsersOfEntry(e)) /\ Cardinality(UsersOfEntry(e)) \in Nat
<1>1. IsFiniteSet(File)
  BY FS_Interval, FilesAssumption DEF File
<1> QED
  BY <1>1, FS_Subset, FS_CardinalityType DEF FilesOf, UsersOfEntry

LEMMA TwoElements ==
    ASSUME NEW S, IsFiniteSet(S), NEW x \in S
    PROVE  Cardinality(S) \in Nat /\ Cardinality(S) >= 1 /\ \A y \in S : y # x => Cardinality(S) >= 2
<1>1. Cardinality(S) \in Nat /\ Cardinality(S) # 0
  BY FS_CardinalityType, FS_EmptySet
<1>2. IsFiniteSet(S \ {x}) /\ Cardinality(S \ {x}) = Cardinality(S) - 1
  BY FS_RemoveElement
<1>3. ASSUME NEW y \in S, y # x PROVE Cardinality(S \ {x}) \in Nat /\ Cardinality(S \ {x}) # 0
  <2>1. S \ {x} # {}
    BY <1>3
  <2> QED
    BY <1>2, <2>1, FS_CardinalityType, FS_EmptySet
<1> QED
  BY <1>1, <1>2, <1>3

\* What refers to an entry shows in its count.
LEMMA CitedCounts ==
    ASSUME Basis, NEW e \in Entry
    PROVE  /\ ref[e] \in Nat
           /\ \A f \in File : IsOpen(f, e) => ref[e] >= 1
           /\ \A p \in Procs : at[p] \in Counting /\ ent[p] = e => ref[e] >= 1
           /\ \A f \in File, p \in Procs : IsOpen(f, e) /\ at[p] \in Counting /\ ent[p] = e => ref[e] >= 2
           /\ \A p, q \in Procs : /\ p # q /\ at[p] \in Counting /\ ent[p] = e
                                  /\ at[q] \in Counting /\ ent[q] = e
                                  => ref[e] >= 2
<1> DEFINE F == FilesOf(e)
           U == UsersOfEntry(e)
<1>1. /\ IsFiniteSet(F) /\ Cardinality(F) \in Nat /\ IsFiniteSet(U) /\ Cardinality(U) \in Nat
      /\ ref[e] = Cardinality(F) + Cardinality(U)
  BY CitedFinite DEF Basis, CacheInv, Kept, InodeRefsCounted, RefsTo
<1>2. /\ \A f \in File : IsOpen(f, e) => f \in F
      /\ \A p \in Procs : at[p] \in Counting /\ ent[p] = e => p \in U
  BY DEF FilesOf, UsersOfEntry, IsOpen
<1> HIDE DEF F, U
<1>3. \A f \in F : Cardinality(F) >= 1
  BY <1>1, TwoElements
<1>4. \A p \in U : Cardinality(U) >= 1 /\ \A q \in U : q # p => Cardinality(U) >= 2
  BY <1>1, TwoElements
<1> QED
  BY <1>1, <1>2, <1>3, <1>4

\* Facts of one process, from the invariant.
LEMMA UserKnows ==
    ASSUME Basis, NEW p \in Procs
    PROVE  /\ at[p] \in Counting \cup {"load", "in"} =>
                 ent[p] \in Entry /\ ref[ent[p]] >= 1 /\ inum[ent[p]] \in Inum
           /\ at[p] \in {"in", "erase", "free"} =>
                 copy[ent[p]] # NotRead /\ copy[ent[p]] = dinode[inum[ent[p]]] /\ dinode[inum[ent[p]]].used
<1>1. ASSUME at[p] \in Counting \cup {"load", "in"}
      PROVE  ent[p] \in Entry /\ ref[ent[p]] >= 1 /\ inum[ent[p]] \in Inum
  <2>1. ent[p] \in Entry
    BY <1>1 DEF Basis, CacheInv, Kept, Placed
  <2>2. ref[ent[p]] >= 1 /\ ref[ent[p]] \in Nat
    BY <1>1, <2>1, CitedCounts DEF Basis, CacheInv, Kept, UsesOpen
  <2> QED
    BY <2>1, <2>2 DEF Basis, CacheInv, Kept, Placed
<1>2. ASSUME at[p] \in {"in", "erase", "free"}
      PROVE  copy[ent[p]] # NotRead /\ copy[ent[p]] = dinode[inum[ent[p]]] /\ dinode[inum[ent[p]]].used
  <2>1. ent[p] \in Entry /\ ref[ent[p]] >= 1 /\ ref[ent[p]] \in Nat /\ copy[ent[p]] # NotRead
    BY <1>1, <1>2, CitedCounts DEF Basis, CacheInv, Kept, Contents, HasRead, Counting
  <2>2. ASSUME NEW q \in Procs, at[q] = "unlock", ent[q] = ent[p] PROVE FALSE
    <3>1. holder[ent[p]] = q /\ q # p /\ at[q] \in Counting
      BY <1>2, <2>2 DEF Basis, CacheInv, Kept, Locking, Inside, Counting
    <3>2. CASE at[p] \in {"in", "erase"}
      BY <3>1, <3>2 DEF Basis, CacheInv, Kept, Locking, Inside
    <3>3. CASE at[p] = "free"
      BY <2>1, <2>2, <3>1, <3>3, CitedCounts DEF Basis, CacheInv, Kept, Contents, LastReference, Counting
    <3> QED
      BY <1>2, <3>2, <3>3
  <2> QED
    BY <2>1, <2>2 DEF Basis, CacheInv, Kept, Contents, Shown
<1> QED
  BY <1>1, <1>2

-----------------------------------------------------------------------------
(***************************************************************************)
(* Counts of inodes                                                        *)
(***************************************************************************)

Cites(p, e) == at[p] \in Counting /\ ent[p] = e

\* A set that one element joins or leaves.
LEMMA OneMoves ==
    ASSUME NEW S, IsFiniteSet(S), NEW T, NEW x, \A y : y # x => (y \in T <=> y \in S)
    PROVE  /\ Cardinality(S) \in Nat /\ Cardinality(T) \in Nat
           /\ x \notin S /\ x \in T => Cardinality(T) = Cardinality(S) + 1
           /\ x \in S /\ x \notin T => Cardinality(T) = Cardinality(S) - 1
           /\ (x \in S <=> x \in T) => Cardinality(T) = Cardinality(S)
<1>1. Cardinality(S) \in Nat
  BY FS_CardinalityType
<1>2. CASE x \notin S /\ x \in T
  <2>1. T = S \cup {x}
    BY <1>2
  <2>2. Cardinality(S \cup {x}) = Cardinality(S) + 1
    BY <1>2, FS_AddElement, Zenon
  <2> QED
    BY <1>1, <1>2, <2>1, <2>2
<1>3. CASE x \in S /\ x \notin T
  <2>1. T = S \ {x}
    BY <1>3
  <2>2. Cardinality(S \ {x}) = Cardinality(S) - 1 /\ IsFiniteSet(S \ {x})
    BY <1>3, FS_RemoveElement, Zenon
  <2>3. Cardinality(T) \in Nat
    BY <2>1, <2>2, FS_CardinalityType
  <2> QED
    BY <1>1, <1>3, <2>1, <2>2, <2>3
<1>4. CASE x \in S <=> x \in T
  <2>1. T = S
    BY <1>4
  <2> QED
    BY <1>1, <1>4, <2>1
<1> QED
  BY <1>2, <1>3, <1>4

\* How the number of references to an entry follows one file...
LEMMA FilesChange ==
    ASSUME IsFiniteSet(Procs), NEW e, NEW f \in File,
           \A h \in File \ {f} : IsOpen(h, e)' <=> IsOpen(h, e)
    PROVE  /\ Cardinality(FilesOf(e)) \in Nat /\ Cardinality(FilesOf(e)') \in Nat
           /\ ~ IsOpen(f, e) /\ IsOpen(f, e)' => Cardinality(FilesOf(e)') = Cardinality(FilesOf(e)) + 1
           /\ IsOpen(f, e) /\ ~ IsOpen(f, e)' => Cardinality(FilesOf(e)') = Cardinality(FilesOf(e)) - 1
           /\ (IsOpen(f, e) <=> IsOpen(f, e)') => Cardinality(FilesOf(e)') = Cardinality(FilesOf(e))
<1>1. PICK S, T : S = FilesOf(e) /\ T = FilesOf(e)'
  OBVIOUS
<1>2. \A h : (h \in S <=> h \in File /\ IsOpen(h, e)) /\ (h \in T <=> h \in File /\ IsOpen(h, e)')
  BY <1>1 DEF FilesOf, IsOpen
<1>3. IsFiniteSet(S)
  BY <1>1, CitedFinite
<1>4. \A h : h # f => (h \in T <=> h \in S)
  BY <1>2
<1> QED
  BY <1>1, <1>2, <1>3, <1>4, OneMoves

\* ...and one process.
LEMMA UsersChange ==
    ASSUME IsFiniteSet(Procs), NEW e, NEW p \in Procs,
           \A q \in Procs \ {p} : Cites(q, e)' <=> Cites(q, e)
    PROVE  /\ Cardinality(UsersOfEntry(e)) \in Nat /\ Cardinality(UsersOfEntry(e)') \in Nat
           /\ ~ Cites(p, e) /\ Cites(p, e)' => Cardinality(UsersOfEntry(e)') = Cardinality(UsersOfEntry(e)) + 1
           /\ Cites(p, e) /\ ~ Cites(p, e)' => Cardinality(UsersOfEntry(e)') = Cardinality(UsersOfEntry(e)) - 1
           /\ (Cites(p, e) <=> Cites(p, e)') => Cardinality(UsersOfEntry(e)') = Cardinality(UsersOfEntry(e))
<1>1. PICK S, T : S = UsersOfEntry(e) /\ T = UsersOfEntry(e)'
  OBVIOUS
<1>2. \A q : (q \in S <=> q \in Procs /\ Cites(q, e)) /\ (q \in T <=> q \in Procs /\ Cites(q, e)')
  BY <1>1 DEF UsersOfEntry, Cites
<1>3. IsFiniteSet(S)
  BY <1>1, CitedFinite
<1>4. \A q : q # p => (q \in T <=> q \in S)
  BY <1>2
<1> QED
  BY <1>1, <1>2, <1>3, <1>4, OneMoves

\* The files stay, and so do the processes but p.
OthersStay(p) == \A q \in Procs \ {p} : at'[q] = at[q] /\ num'[q] = num[q] /\ ent'[q] = ent[q]

LEMMA SameFiles ==
    ASSUME UNCHANGED file, NEW e
    PROVE  FilesOf(e)' = FilesOf(e)
BY DEF FilesOf

\* A step of p that changes one count as it changes what p refers to.
LEMMA CountsFollow ==
    ASSUME Basis, UNCHANGED file, NEW p \in Procs, OthersStay(p),
           \A e \in Entry : /\ (Cites(p, e) <=> Cites(p, e)') => ref'[e] = ref[e]
                            /\ ~ Cites(p, e) /\ Cites(p, e)' => ref'[e] = ref[e] + 1
                            /\ Cites(p, e) /\ ~ Cites(p, e)' => ref'[e] = ref[e] - 1
    PROVE  InodeRefsCounted'
<1> SUFFICES ASSUME NEW e \in Entry PROVE ref'[e] = RefsTo(e)'
  BY DEF InodeRefsCounted
<1>1. Cardinality(FilesOf(e)') = Cardinality(FilesOf(e)) /\ Cardinality(FilesOf(e)) \in Nat
  BY SameFiles, CitedFinite DEF Basis
<1>2. \A q \in Procs \ {p} : Cites(q, e)' <=> Cites(q, e)
  BY DEF OthersStay, Cites
<1>3. ref[e] = Cardinality(FilesOf(e)) + Cardinality(UsersOfEntry(e))
  BY DEF Basis, CacheInv, Kept, InodeRefsCounted, RefsTo
<1> QED
  BY <1>1, <1>2, <1>3, UsersChange DEF Basis, RefsTo

-----------------------------------------------------------------------------
(***************************************************************************)
(* Steps of one process on the cache                                       *)
(***************************************************************************)

LEMMA PlacedFollows ==
    ASSUME Basis, UNCHANGED file, NEW p \in Procs, OthersStay(p),
           at'[p] \in {"scan", "get"} => num'[p] \in Inum,
           at'[p] \in Counting \cup {"load", "in"} => ent'[p] \in Entry,
           \A e \in Entry : ref'[e] > 0 => inum'[e] \in Inum
    PROVE  Placed'
BY DEF Basis, CacheInv, Kept, Placed, OthersStay

\* p stays outside the locks, or inside one.
LEMMA LockingFollows ==
    ASSUME Basis, UNCHANGED holder, NEW p \in Procs, OthersStay(p),
           \/ at[p] \notin Inside /\ at'[p] \notin Inside
           \/ at[p] \in Inside /\ at'[p] \in Inside /\ ent'[p] = ent[p]
    PROVE  Locking'
<1>1. \A q \in Procs : /\ at'[q] \in Inside <=> at[q] \in Inside
                       /\ at[q] \in Inside => ent'[q] = ent[q]
  BY DEF OthersStay
<1>2. \A e \in Entry : holder[e] # Nobody => holder[e] \in Procs
  BY DEF Basis, CacheInv, Kept, InodeTypeOK
<1> QED
  BY <1>1, <1>2 DEF Basis, CacheInv, Kept, Locking

LEMMA UsesFollow ==
    ASSUME Basis, UNCHANGED <<file, held>>, NEW p \in Procs, OthersStay(p),
           at'[p] \in {"load", "in"} => at[p] \in {"load", "in"} /\ ent'[p] = ent[p]
    PROVE  UsesOpen'
<1> SUFFICES ASSUME NEW q \in Procs, at'[q] \in {"load", "in"}
             PROVE  \E f \in File : held[q][f] > 0 /\ IsOpen(f, ent[q])'
  BY DEF UsesOpen
<1>1. at[q] \in {"load", "in"} /\ ent'[q] = ent[q]
  BY DEF OthersStay
<1> QED
  BY <1>1 DEF Basis, CacheInv, Kept, UsesOpen, IsOpen

\* p goes on with the cache as it is, outside the locks.
LEMMA GoesOn ==
    ASSUME Basis, UNCHANGED <<dinode, inum, ref, copy, holder, file, held>>, NEW p \in Procs,
           at' \in [Procs -> Stage], num' \in [Procs -> Inum \cup {0}],
           ent' \in [Procs -> Entry \cup {NoEntry}], OthersStay(p),
           at[p] \notin Inside, at'[p] \notin Inside,
           at'[p] \in Counting <=> at[p] \in Counting, at[p] \in Counting => ent'[p] = ent[p],
           at'[p] \in {"scan", "get"} => num'[p] \in Inum,
           at'[p] \in Owning => at[p] \in Owning,
           at'[p] = "get" => dinode[num'[p]].used /\ dinode[num'[p]].nlink > 0,
           at'[p] = "free" => Unlinked(ent'[p])
    PROVE  Kept'
<1>1. InodeTypeOK'
  BY DEF Basis, CacheInv, Kept, InodeTypeOK
<1>2. Placed'
  <2>1. at'[p] \in Counting \cup {"load", "in"} => ent'[p] \in Entry
    BY DEF Basis, CacheInv, Kept, Placed, Inside
  <2>2. \A e \in Entry : ref'[e] > 0 => inum'[e] \in Inum
    BY DEF Basis, CacheInv, Kept, Placed
  <2> QED
    BY <2>1, <2>2, PlacedFollows
<1>3. InodeRefsCounted'
  <2>1. \A e \in Entry : Cites(p, e)' <=> Cites(p, e)
    BY DEF Cites
  <2> QED
    BY <2>1, CountsFollow
<1>4. Locking' /\ UsesOpen'
  BY LockingFollows, UsesFollow DEF Inside
<1>5. HasRead' /\ LastReference'
  BY DEF Basis, CacheInv, Kept, Contents, HasRead, LastReference, OthersStay, Unlinked, Inside
<1>6. InUse'
  BY DEF Basis, CacheInv, Kept, Contents, InUse, OthersStay, Owning, Counting
<1>7. Shown'
  BY DEF Basis, CacheInv, Kept, Contents, Shown, OthersStay, Inside
<1>8. SoleUser'
  <2> SUFFICES ASSUME NEW q \in Procs, at'[q] = "get", dinode[num'[q]].nlink = 0
               PROVE  /\ \A r \in Procs : r # q /\ at'[r] = "get" => num'[r] # num'[q]
                      /\ \A f \in File : file[f].type = "inode" => inum[file[f].ip] # num'[q]
                      /\ \A r \in Procs : at'[r] \in Owning => inum[ent'[r]] # num'[q]
    BY DEF SoleUser
  <2>1. q # p
    OBVIOUS
  <2>2. at[q] = "get" /\ num'[q] = num[q]
    BY <2>1 DEF OthersStay
  <2>3. \A r \in Procs : at'[r] \in Owning => at[r] \in Owning /\ ent'[r] = ent[r]
    BY DEF OthersStay, Owning, Counting
  <2>4. /\ \A r \in Procs : r # q /\ at[r] = "get" => num[r] # num[q]
        /\ \A f \in File : file[f].type = "inode" => inum[file[f].ip] # num[q]
        /\ \A r \in Procs : at[r] \in Owning => inum[ent[r]] # num[q]
    BY <2>2 DEF Basis, CacheInv, Kept, Contents, SoleUser
  <2>5. ASSUME NEW r \in Procs, r # q, at'[r] = "get" PROVE num'[r] # num'[q]
    <3>1. CASE r = p
      BY <2>5, <3>1
    <3>2. CASE r # p
      BY <2>2, <2>4, <2>5, <3>2 DEF OthersStay
    <3> QED
      BY <3>1, <3>2
  <2> QED
    BY <2>2, <2>3, <2>4, <2>5
<1> QED
  BY <1>1, <1>2, <1>3, <1>4, <1>5, <1>6, <1>7, <1>8 DEF Kept, Contents

\* Types of the variables of a process, for the steps to cite.
LEMMA StageTypes ==
    ASSUME Basis
    PROVE  /\ at \in [Procs -> Stage] /\ num \in [Procs -> Inum \cup {0}]
           /\ ent \in [Procs -> Entry \cup {NoEntry}]
BY DEF Basis, CacheInv, Kept, InodeTypeOK

LEMMA GoesTyped ==
    ASSUME Basis, NEW p \in Procs, NEW stage \in Stage, Goes(p, stage)
    PROVE  at' \in [Procs -> Stage] /\ at'[p] = stage /\ \A q \in Procs \ {p} : at'[q] = at[q]
BY StageTypes DEF Goes

LEMMA EndsTyped ==
    ASSUME Basis, NEW p \in Procs, Ends(p)
    PROVE  /\ at' \in [Procs -> Stage] /\ num' \in [Procs -> Inum \cup {0}]
           /\ ent' \in [Procs -> Entry \cup {NoEntry}]
           /\ at'[p] = "none" /\ OthersStay(p)
BY StageTypes DEF Ends, Goes, OthersStay, Stage

LEMMA ScanStages ==
    ASSUME Basis, NEW p \in Procs, NEW i, ScanAt(p, i)
    PROVE  /\ at' \in [Procs -> Stage] /\ num' \in [Procs -> Inum \cup {0}]
           /\ ent' \in [Procs -> Entry \cup {NoEntry}] /\ OthersStay(p)
           /\ at'[p] = "none" \/ (at'[p] = "scan" /\ num'[p] \in Inum)
<1>1. CASE i \in Inum
  BY <1>1, StageTypes DEF ScanAt, Goes, OthersStay, Stage
<1>2. CASE i \notin Inum
  BY <1>2, EndsTyped DEF ScanAt
<1> QED
  BY <1>1, <1>2

\* The scan of inode_alloc, a lookup, and the ways to inode_put's two ends.
LEMMA AllocKeeps ==
    ASSUME Basis, NEW p \in Procs, Alloc(p) \/ AllocPasses(p), UNCHANGED <<file, held>>
    PROVE  Kept'
<1>1. /\ at[p] \in {"none", "scan"} /\ UNCHANGED <<dinode, inum, ref, copy, holder, file, held>>
      /\ \E i : ScanAt(p, i)
  BY DEF Alloc, AllocPasses, cache
<1> QED
  BY <1>1, ScanStages, GoesOn DEF Inside, Counting, Owning

LEMMA LookupKeeps ==
    ASSUME Basis, NEW p \in Procs, NEW i \in Inum, Lookup(p, i), UNCHANGED <<file, held>>
    PROVE  Kept'
<1>1. /\ at[p] = "none" /\ UNCHANGED <<dinode, inum, ref, copy, holder, file, held, ent>>
      /\ Goes(p, "get") /\ num' = [num EXCEPT ![p] = i] /\ dinode[i].used /\ dinode[i].nlink > 0
  BY DEF Lookup, cache
<1>2. at' \in [Procs -> Stage] /\ at'[p] = "get" /\ \A q \in Procs \ {p} : at'[q] = at[q]
  BY <1>1, GoesTyped DEF Stage
<1>3. num' \in [Procs -> Inum \cup {0}] /\ num'[p] = i /\ OthersStay(p)
  BY <1>1, <1>2, StageTypes DEF OthersStay
<1> QED
  BY <1>1, <1>2, <1>3, StageTypes, GoesOn DEF Inside, Counting, Owning

LEMMA FullKeeps ==
    ASSUME Basis, NEW p \in Procs, GetFull(p), UNCHANGED <<file, held>>
    PROVE  Kept'
<1>1. at[p] = "get" /\ UNCHANGED <<dinode, inum, ref, copy, holder, file, held>> /\ Ends(p)
  BY DEF GetFull, cache
<1> QED
  BY <1>1, EndsTyped, GoesOn DEF Inside, Counting, Owning

LEMMA ToPutKeeps ==
    ASSUME Basis, NEW p \in Procs, UNCHANGED <<dinode, cache, num, ent, file, held>>,
           \/ at[p] = "have" /\ Goes(p, "put")
           \/ at[p] = "put" /\ Unlinked(ent[p]) /\ Goes(p, "free")
    PROVE  Kept'
<1>1. UNCHANGED <<dinode, inum, ref, copy, holder, num, ent, file, held>>
  BY DEF cache
<1>2. CASE at[p] = "have" /\ Goes(p, "put")
  <2>1. at' \in [Procs -> Stage] /\ at'[p] = "put" /\ OthersStay(p)
    BY <1>1, <1>2, GoesTyped DEF Stage, OthersStay
  <2> QED
    BY <1>1, <1>2, <2>1, StageTypes, GoesOn DEF Inside, Counting, Owning
<1>3. CASE at[p] = "put" /\ Unlinked(ent[p]) /\ Goes(p, "free")
  <2>1. at' \in [Procs -> Stage] /\ at'[p] = "free" /\ OthersStay(p)
    BY <1>1, <1>3, GoesTyped DEF Stage, OthersStay
  <2> QED
    BY <1>1, <1>3, <2>1, StageTypes, GoesOn DEF Inside, Counting, Owning
<1> QED
  BY <1>2, <1>3

-----------------------------------------------------------------------------
(***************************************************************************)
(* Steps on the files only                                                 *)
(***************************************************************************)

\* The inode files are the same, and who uses one still holds it.
LEMMA FilesOnly ==
    ASSUME Basis, UNCHANGED inodeVars,
           \A f \in File : /\ file'[f].type = "inode" <=> file[f].type = "inode"
                           /\ file[f].type = "inode" => file'[f].ip = file[f].ip,
           \A q \in Procs, f \in File : at[q] # "none" /\ held[q][f] > 0 => held'[q][f] > 0
    PROVE  Kept'
<1>1. UNCHANGED <<dinode, inum, ref, copy, holder, at, num, ent>>
  BY DEF inodeVars, cache
<1>2. InodeTypeOK' /\ Placed' /\ Locking'
  BY <1>1 DEF Basis, CacheInv, Kept, InodeTypeOK, Placed, Locking
<1>3. \A f \in File : \A e : IsOpen(f, e)' <=> IsOpen(f, e)
  BY DEF IsOpen
<1>4. InodeRefsCounted'
  <2>1. \A e : FilesOf(e)' = FilesOf(e) /\ UsersOfEntry(e)' = UsersOfEntry(e)
    BY <1>1, <1>3 DEF FilesOf, IsOpen, UsersOfEntry
  <2> QED
    BY <1>1, <2>1 DEF Basis, CacheInv, Kept, InodeRefsCounted, RefsTo
<1>5. UsesOpen'
  BY <1>1, <1>3 DEF Basis, CacheInv, Kept, UsesOpen
<1>6. HasRead' /\ LastReference' /\ InUse' /\ Shown' /\ SoleUser'
  BY <1>1 DEF Basis, CacheInv, Kept, Contents, HasRead, LastReference, InUse, Shown, SoleUser
<1> QED
  BY <1>2, <1>4, <1>5, <1>6 DEF Kept, Contents

LEMMA DupKeepsInodes ==
    ASSUME Basis, NEW p \in Procs, NEW q \in Procs, NEW f \in File, Dup(p, q, f)
    PROVE  Kept'
<1>1. /\ file' = [file EXCEPT ![f].ref = @ + 1] /\ held' = [held EXCEPT ![q][f] = @ + 1]
      /\ UNCHANGED inodeVars /\ TableTypes
  BY DEF Dup, Basis, TableInv
<1>2. file'[f] = [file[f] EXCEPT !.ref = file[f].ref + 1] /\ \A h \in File \ {f} : file'[h] = file[h]
  BY <1>1 DEF TableTypes
<1>3. file[f] \in StructFile /\ file[f].ref + 1 \in Nat
  BY <1>1 DEF TableTypes, StructFile
<1>4. file'[f].type = file[f].type /\ file'[f].ip = file[f].ip
  BY <1>2, <1>3, CountedFields
<1>5. \A r \in Procs, h \in File : held[r][h] > 0 => held'[r][h] > 0
  BY <1>1 DEF TableTypes
<1> QED
  BY <1>1, <1>2, <1>4, <1>5, FilesOnly

\* pipe_alloc's two files and its failure: a file that is not an inode file
\* before or after, and that nobody holds before.
LEMMA PipeFilesKeep ==
    ASSUME Basis, NEW p \in Procs,
           \/ PipeTakesPage(p) \/ PipeFails(p) \/ PipeClose(p)
           \/ \E f \in File : PipeTakesFirst(p, f) \/ PipeTakesSecond(p, f)
    PROVE  Kept'
<1>0. TableTypes /\ IsFiniteSet(Procs) /\ TableInv
  BY DEF Basis, TableInv
<1>1. CASE PipeTakesPage(p) \/ PipeClose(p)
  <2>1. UNCHANGED inodeVars /\ file' = file /\ held' = held
    BY <1>1 DEF PipeTakesPage, PipeClose
  <2> QED
    BY <2>1, FilesOnly
<1>2. CASE PipeFails(p)
  <2>1. /\ UNCHANGED inodeVars /\ held' = held /\ pc[p] \in {"alloc0", "alloc1"}
        /\ file' = IF first[p] = NoFile THEN file ELSE [file EXCEPT ![first[p]] = Closed(@)]
    BY <1>2 DEF PipeFails
  <2>2. CASE first[p] = NoFile
    BY <2>1, <2>2, FilesOnly
  <2>3. CASE first[p] # NoFile
    <3>1. pc[p] = "alloc1"
      BY <1>0, <2>3 DEF TableInv, Refs, FirstFile
    <3>2. PICK g \in File : g = first[p]
      BY <1>0, <3>1, BuiltFile
    <3>3. file[g].type = "none" /\ file[g].ref = 1 /\ file[g] \in StructFile
      BY <1>0, <3>1, <3>2, BuiltFile DEF TableTypes
    <3>4. file'[g] = Closed(file[g]) /\ \A h \in File \ {g} : file'[h] = file[h]
      BY <1>0, <2>1, <2>3, <3>2 DEF TableTypes
    <3>5. file'[g].type = "none"
      BY <3>3, <3>4, ClosedFields
    <3> QED
      BY <2>1, <3>3, <3>4, <3>5, FilesOnly
  <2> QED
    BY <2>2, <2>3
<1>3. ASSUME NEW f \in File, PipeTakesFirst(p, f) PROVE Kept'
  <2>1. UNCHANGED inodeVars /\ held' = held /\ file' = [file EXCEPT ![f].ref = 1]
    BY <1>3 DEF PipeTakesFirst
  <2>2. file'[f] = [file[f] EXCEPT !.ref = 1] /\ \A h \in File \ {f} : file'[h] = file[h]
    BY <1>0, <2>1 DEF TableTypes
  <2>3. file'[f].type = file[f].type /\ file'[f].ip = file[f].ip
    BY <1>0, <2>2, CountedFields DEF TableTypes
  <2> QED
    BY <2>1, <2>2, <2>3, FilesOnly
<1>4. ASSUME NEW f \in File, PipeTakesSecond(p, f) PROVE Kept'
  <2>0. PICK g, h : g = page[p] /\ h = first[p]
    OBVIOUS
  <2>1. /\ UNCHANGED inodeVars /\ pc[p] = "alloc1" /\ IsUnused(f)
        /\ file' = [file EXCEPT ![f] = SecondEnd(@, g), ![h] = FirstEnd(@, g)]
        /\ held' = [held EXCEPT ![p][f] = @ + 1, ![p][h] = @ + 1]
    BY <1>4, <2>0 DEF PipeTakesSecond, IsFirstUnused, SecondEnd, FirstEnd
  <2>2. /\ h \in File /\ file[h].type = "none" /\ h # f /\ file[f].type = "none" /\ g \in Page
        /\ file[f] \in StructFile /\ file[h] \in StructFile
    <3>1. h \in File /\ file[h].type = "none" /\ file[h].ref = 1
      BY <1>0, <2>0, <2>1, BuiltFile
    <3>2. file[f].type = "none" /\ file[f].ref = 0
      BY <1>0, <2>1, UnusedFile DEF IsUnused
    <3>3. g \in Page
      BY <1>0, <2>0, <2>1, BuiltPage DEF Building
    <3> QED
      BY <1>0, <3>1, <3>2, <3>3 DEF TableTypes
  <2>3. /\ file'[f] = SecondEnd(file[f], g) /\ file'[h] = FirstEnd(file[h], g)
        /\ \A i \in File \ {f, h} : file'[i] = file[i]
    BY <1>0, <2>1, <2>2 DEF TableTypes
  <2>4. file'[f].type = "pipe" /\ file'[h].type = "pipe"
    BY <2>2, <2>3, EndFields
  <2>5. \A r \in Procs, i \in File : held[r][i] > 0 => held'[r][i] > 0
    BY <1>0, <2>1, <2>2 DEF TableTypes
  <2> QED
    BY <2>1, <2>2, <2>3, <2>4, <2>5, FilesOnly
<1> QED
  BY <1>1, <1>2, <1>3, <1>4

-----------------------------------------------------------------------------
(***************************************************************************)
(* A reference passes between a process and a file                         *)
(***************************************************************************)

\* p's reference to entry i becomes file f's, or the other way round.
LEMMA PassesOn ==
    ASSUME Basis, UNCHANGED <<dinode, inum, ref, copy, holder>>, NEW p \in Procs, NEW f \in File, NEW i \in Entry,
           at' \in [Procs -> Stage], num' \in [Procs -> Inum \cup {0}],
           ent' \in [Procs -> Entry \cup {NoEntry}], OthersStay(p),
           \A h \in File \ {f} : file'[h] = file[h],
           \/ /\ at[p] = "have" /\ ent[p] = i /\ file[f].type # "inode"
              /\ at'[p] = "none" /\ file'[f].type = "inode" /\ file'[f].ip = i
           \/ /\ at[p] = "none" /\ file[f].type = "inode" /\ file[f].ip = i
              /\ at'[p] = "put" /\ ent'[p] = i /\ file'[f].type # "inode",
           \A q \in Procs : at'[q] \in {"load", "in"} => \A h \in File : held[q][h] > 0 => held'[q][h] > 0 /\ h # f
    PROVE  Kept'
<1>1. InodeTypeOK'
  BY DEF Basis, CacheInv, Kept, InodeTypeOK
<1>2. /\ at[p] \notin {"scan", "get", "load", "in", "free", "erase", "unlock"}
      /\ at'[p] \notin {"scan", "get", "load", "in", "free", "erase", "unlock"}
      /\ dinode[inum[i]].used
      /\ \A q \in Procs : at[q] = "get" /\ dinode[num[q]].nlink = 0 => inum[i] # num[q]
  BY DEF Basis, CacheInv, Kept, Contents, InUse, SoleUser, Owning
<1>3. Placed'
  <2>1. Placed
    BY DEF Basis, CacheInv, Kept
  <2>2. \A q \in Procs : /\ at'[q] \in {"scan", "get"} => num'[q] \in Inum
                         /\ at'[q] \in Counting \cup {"load", "in"} => ent'[q] \in Entry
    BY <1>2, <2>1 DEF Placed, OthersStay, Counting
  <2>3. \A h \in File : file'[h].type = "inode" => file'[h].ip \in Entry
    BY <2>1 DEF Placed
  <2> QED
    BY <2>1, <2>2, <2>3 DEF Placed
<1>4. InodeRefsCounted'
  <2> SUFFICES ASSUME NEW e \in Entry PROVE ref[e] = RefsTo(e)'
    BY DEF InodeRefsCounted
  <2>1. \A h \in File \ {f} : IsOpen(h, e)' <=> IsOpen(h, e)
    BY DEF IsOpen
  <2>2. \A q \in Procs \ {p} : Cites(q, e)' <=> Cites(q, e)
    BY DEF OthersStay, Cites
  <2>3. ref[e] = Cardinality(FilesOf(e)) + Cardinality(UsersOfEntry(e))
    BY DEF Basis, CacheInv, Kept, InodeRefsCounted, RefsTo
  <2>4. CASE e = i
    <3>1. \/ Cites(p, e) /\ ~ Cites(p, e)' /\ ~ IsOpen(f, e) /\ IsOpen(f, e)'
          \/ ~ Cites(p, e) /\ Cites(p, e)' /\ IsOpen(f, e) /\ ~ IsOpen(f, e)'
      BY <2>4 DEF Cites, Counting, IsOpen
    <3> QED
      BY <2>1, <2>2, <2>3, <3>1, FilesChange, UsersChange DEF Basis, RefsTo
  <2>5. CASE e # i
    <3>1. ~ Cites(p, e) /\ ~ Cites(p, e)' /\ ~ IsOpen(f, e) /\ ~ IsOpen(f, e)'
      BY <2>5 DEF Cites, Counting, IsOpen
    <3> QED
      BY <2>1, <2>2, <2>3, <3>1, FilesChange, UsersChange DEF Basis, RefsTo
  <2> QED
    BY <2>4, <2>5
<1>5. Locking'
  BY <1>2, LockingFollows DEF Inside
<1>6. UsesOpen'
  <2> SUFFICES ASSUME NEW q \in Procs, at'[q] \in {"load", "in"}
               PROVE  \E h \in File : held'[q][h] > 0 /\ IsOpen(h, ent[q])'
    BY DEF UsesOpen
  <2>1. at[q] \in {"load", "in"} /\ ent'[q] = ent[q]
    BY <1>2 DEF OthersStay
  <2>2. PICK h \in File : held[q][h] > 0 /\ IsOpen(h, ent[q])
    BY <2>1 DEF Basis, CacheInv, Kept, UsesOpen
  <2> QED
    BY <2>1, <2>2 DEF IsOpen
<1>7. HasRead' /\ LastReference'
  BY <1>2 DEF Basis, CacheInv, Kept, Contents, HasRead, LastReference, OthersStay
<1>8. InUse'
  BY <1>2 DEF Basis, CacheInv, Kept, Contents, InUse, OthersStay, Owning
<1>9. Shown'
  BY <1>2 DEF Basis, CacheInv, Kept, Contents, Shown, OthersStay
<1>10. SoleUser'
  <2> SUFFICES ASSUME NEW q \in Procs, at'[q] = "get", dinode[num'[q]].nlink = 0
               PROVE  /\ \A r \in Procs : r # q /\ at'[r] = "get" => num'[r] # num'[q]
                      /\ \A h \in File : file'[h].type = "inode" => inum[file'[h].ip] # num'[q]
                      /\ \A r \in Procs : at'[r] \in Owning => inum[ent'[r]] # num'[q]
    BY DEF SoleUser
  <2>1. at[q] = "get" /\ num'[q] = num[q] /\ inum[i] # num[q]
    BY <1>2 DEF OthersStay
  <2>2. /\ \A r \in Procs : r # q /\ at[r] = "get" => num[r] # num[q]
        /\ \A h \in File : file[h].type = "inode" => inum[file[h].ip] # num[q]
        /\ \A r \in Procs : at[r] \in Owning => inum[ent[r]] # num[q]
    BY <2>1 DEF Basis, CacheInv, Kept, Contents, SoleUser
  <2> QED
    BY <1>2, <2>1, <2>2 DEF OthersStay, Owning
<1> QED
  BY <1>1, <1>3, <1>4, <1>5, <1>6, <1>7, <1>8, <1>9, <1>10 DEF Kept, Contents

LEMMA OpenEndsKeepsInodes ==
    ASSUME Basis, NEW p \in Procs, NEW f \in File, OpenEnds(p, f)
    PROVE  Kept'
<1>0. TableTypes /\ IsFiniteSet(Procs) /\ TableInv
  BY DEF Basis, TableInv
<1>1. PICK i \in Entry : i = ent[p]
  BY DEF OpenEnds, Basis, CacheInv, Kept, Placed, Counting
<1>2. /\ at[p] = "have" /\ IsUnused(f) /\ file' = [file EXCEPT ![f] = Opened(@, i)]
      /\ held' = [held EXCEPT ![p][f] = @ + 1] /\ Ends(p)
      /\ UNCHANGED <<dinode, inum, ref, copy, holder>>
  BY <1>1 DEF OpenEnds, IsFirstUnused, Opened, cache
<1>3. file[f].type = "none" /\ \A q \in Procs : held[q][f] = 0
  BY <1>0, <1>2, UnusedFile
<1>4. /\ file'[f].type = "inode" /\ file'[f].ip = i
      /\ \A h \in File \ {f} : file'[h] = file[h]
  <2>1. file'[f] = Opened(file[f], i) /\ \A h \in File \ {f} : file'[h] = file[h]
    BY <1>0, <1>2 DEF TableTypes
  <2> QED
    BY <1>0, <1>1, <2>1, OpenedFields DEF TableTypes
<1>5. \A q \in Procs, h \in File : held[q][h] > 0 => held'[q][h] > 0 /\ h # f
  BY <1>0, <1>2, <1>3 DEF TableTypes
<1> QED
  BY <1>1, <1>2, <1>3, <1>4, <1>5, EndsTyped, PassesOn

LEMMA CloseKeepsInodes ==
    ASSUME Basis, NEW p \in Procs, NEW f \in File, Close(p, f)
    PROVE  Kept'
<1>0. TableTypes /\ IsFiniteSet(Procs) /\ TableInv
  BY DEF Basis, TableInv
<1>1. /\ at[p] = "none" /\ held[p][f] > 0 /\ file' = [file EXCEPT ![f] = Closed(@)]
      /\ held' = [held EXCEPT ![p][f] = @ - 1]
      /\ IF file[f].ref = 1 /\ file[f].type = "inode"
         THEN Goes(p, "put") /\ ent' = [ent EXCEPT ![p] = file[f].ip]
         ELSE UNCHANGED <<at, ent>>
      /\ UNCHANGED <<dinode, inum, ref, copy, holder, num>>
  BY DEF Close, Idle, cache
<1>2. /\ file[f] \in StructFile /\ file[f].ref >= 1
      /\ \A q \in Procs : q # p /\ held[q][f] > 0 => file[f].ref >= 2
  BY <1>0, <1>1, HeldFile DEF TableTypes
<1>3. file'[f] = Closed(file[f]) /\ \A h \in File \ {f} : file'[h] = file[h]
  BY <1>0, <1>1 DEF TableTypes
<1>4. \A q \in Procs, h \in File : q # p => held'[q][h] = held[q][h]
  BY <1>0, <1>1 DEF TableTypes
<1>5. CASE file[f].ref = 1 /\ file[f].type = "inode"
  <2>1. PICK i \in Entry : i = file[f].ip
    BY <1>5 DEF Basis, CacheInv, Kept, Placed
  <2>2. file'[f].type = "none"
    BY <1>2, <1>3, <1>5, ClosedFields
  <2>3. Goes(p, "put") /\ ent' = [ent EXCEPT ![p] = i]
    BY <1>1, <1>5, <2>1
  <2>4. at' \in [Procs -> Stage] /\ at'[p] = "put" /\ \A q \in Procs \ {p} : at'[q] = at[q]
    BY <2>3, GoesTyped DEF Stage
  <2>5. ent' \in [Procs -> Entry \cup {NoEntry}] /\ ent'[p] = i /\ OthersStay(p)
    BY <1>1, <2>1, <2>3, <2>4, StageTypes DEF OthersStay
  <2>6. \A q \in Procs : at'[q] \in {"load", "in"} => \A h \in File : held[q][h] > 0 => held'[q][h] > 0 /\ h # f
    BY <1>2, <1>4, <1>5, <2>4
  <2> QED
    BY <1>1, <1>3, <1>5, <2>1, <2>2, <2>4, <2>5, <2>6, StageTypes, PassesOn
<1>6. CASE ~ (file[f].ref = 1 /\ file[f].type = "inode")
  <2>1. UNCHANGED inodeVars
    BY <1>1, <1>6 DEF inodeVars, cache
  <2>2. /\ file'[f].type = "inode" <=> file[f].type = "inode"
        /\ file'[f].ip = file[f].ip
    BY <1>2, <1>3, <1>6, ClosedFields
  <2>3. \A q \in Procs, h \in File : at[q] # "none" /\ held[q][h] > 0 => held'[q][h] > 0
    BY <1>1, <1>4
  <2> QED
    BY <1>3, <2>1, <2>2, <2>3, FilesOnly
<1> QED
  BY <1>5, <1>6

-----------------------------------------------------------------------------
(***************************************************************************)
(* inode_lock and inode_unlock                                             *)
(***************************************************************************)

\* p enters or leaves a lock, with the cache and the disk as they are.
LEMMA LockChanges ==
    ASSUME Basis, UNCHANGED <<dinode, inum, ref, copy, file, held>>, NEW p \in Procs,
           holder' \in [Entry -> Procs \cup {Nobody}], at' \in [Procs -> Stage],
           num' \in [Procs -> Inum \cup {0}], ent' \in [Procs -> Entry \cup {NoEntry}], OthersStay(p),
           at[p] \notin {"scan", "get", "unlock"}, at'[p] \notin {"scan", "get", "unlock"},
           \A e \in Entry : Cites(p, e)' <=> Cites(p, e), Locking', UsesOpen',
           at'[p] \in Counting \cup {"load", "in"} => ent'[p] \in Entry,
           at'[p] \in {"in", "free", "erase"} => copy[ent'[p]] # NotRead,
           at'[p] \in Owning => at[p] \in Owning /\ ent'[p] = ent[p],
           at'[p] \in {"free", "erase"} => at[p] \in {"free", "erase"}
    PROVE  Kept'
<1>1. InodeTypeOK'
  BY DEF Basis, CacheInv, Kept, InodeTypeOK
<1>2. Placed'
  <2>1. \A e \in Entry : ref[e] > 0 => inum[e] \in Inum
    BY DEF Basis, CacheInv, Kept, Placed
  <2> QED
    BY <2>1, PlacedFollows
<1>3. InodeRefsCounted'
  BY CountsFollow
<1>4. HasRead' /\ LastReference'
  BY DEF Basis, CacheInv, Kept, Contents, HasRead, LastReference, OthersStay, Owning
<1>5. InUse'
  BY DEF Basis, CacheInv, Kept, Contents, InUse, OthersStay
<1>6. Shown'
  BY DEF Basis, CacheInv, Kept, Contents, Shown, OthersStay
<1>7. SoleUser'
  <2>1. \A q \in Procs : /\ at'[q] = "get" <=> at[q] = "get"
                         /\ at[q] = "get" => num'[q] = num[q]
                         /\ at'[q] \in Owning => at[q] \in Owning /\ ent'[q] = ent[q]
    BY DEF OthersStay
  <2> QED
    BY <2>1 DEF Basis, CacheInv, Kept, Contents, SoleUser
<1> QED
  BY <1>1, <1>2, <1>3, <1>4, <1>5, <1>6, <1>7 DEF Kept, Contents

LEMMA HolderIs ==
    ASSUME Basis
    PROVE  /\ \A e \in Entry : holder[e] \in Procs \cup {Nobody}
           /\ \A p \in Procs : p # Nobody /\ (at[p] \in Inside => holder[ent[p]] = p /\ ent[p] \in Entry)
           /\ \A e \in Entry : holder[e] # Nobody => /\ holder[e] \in Procs /\ ent[holder[e]] = e
                                                     /\ at[holder[e]] \in Inside
BY InodeAssumption DEF Basis, CacheInv, Kept, InodeTypeOK, Locking, Placed, Inside, Counting

LEMMA LockTaken ==
    ASSUME Basis, NEW p \in Procs, NEW e \in Entry, holder[e] = Nobody, holder' = [holder EXCEPT ![e] = p],
           OthersStay(p), at[p] \notin Inside, at'[p] \in Inside, ent'[p] = e
    PROVE  holder' \in [Entry -> Procs \cup {Nobody}] /\ Locking'
<1>1. /\ holder' \in [Entry -> Procs \cup {Nobody}] /\ holder'[e] = p
      /\ \A d \in Entry \ {e} : holder'[d] = holder[d]
  BY DEF Basis, CacheInv, Kept, InodeTypeOK
<1>2. ASSUME NEW q \in Procs, at'[q] \in Inside PROVE holder'[ent'[q]] = q
  <2>1. CASE q = p
    BY <1>1, <2>1
  <2>2. CASE q # p
    <3>1. at[q] \in Inside /\ ent'[q] = ent[q]
      BY <1>2, <2>2 DEF OthersStay
    <3>2. holder[ent[q]] = q /\ ent[q] \in Entry /\ q # Nobody
      BY <3>1, HolderIs
    <3> QED
      BY <1>1, <3>1, <3>2
  <2> QED
    BY <2>1, <2>2
<1>3. ASSUME NEW d \in Entry, holder'[d] # Nobody PROVE ent'[holder'[d]] = d /\ at'[holder'[d]] \in Inside
  <2>1. CASE d = e
    BY <1>1, <2>1
  <2>2. CASE d # e
    <3>1. holder'[d] = holder[d] /\ holder[d] \in Procs /\ ent[holder[d]] = d /\ at[holder[d]] \in Inside
      BY <1>1, <1>3, <2>2, HolderIs
    <3>2. holder[d] # p
      BY <3>1
    <3> QED
      BY <3>1, <3>2 DEF OthersStay
  <2> QED
    BY <2>1, <2>2
<1> QED
  BY <1>1, <1>2, <1>3 DEF Locking

LEMMA LockLeft ==
    ASSUME Basis, NEW p \in Procs, NEW e \in Entry, holder[e] = p, holder' = [holder EXCEPT ![e] = Nobody],
           OthersStay(p), at[p] \in Inside, at'[p] \notin Inside
    PROVE  holder' \in [Entry -> Procs \cup {Nobody}] /\ Locking'
<1>1. /\ holder' \in [Entry -> Procs \cup {Nobody}] /\ holder'[e] = Nobody /\ ent[p] = e
      /\ \A d \in Entry \ {e} : holder'[d] = holder[d]
  BY HolderIs DEF Basis, CacheInv, Kept, InodeTypeOK
<1>2. ASSUME NEW q \in Procs, at'[q] \in Inside PROVE holder'[ent'[q]] = q
  <2>1. q # p /\ at[q] \in Inside /\ ent'[q] = ent[q]
    BY <1>2 DEF OthersStay
  <2>2. holder[ent[q]] = q /\ ent[q] \in Entry
    BY <2>1, HolderIs
  <2> QED
    BY <1>1, <2>1, <2>2
<1>3. ASSUME NEW d \in Entry, holder'[d] # Nobody PROVE ent'[holder'[d]] = d /\ at'[holder'[d]] \in Inside
  <2>1. d # e /\ holder'[d] = holder[d] /\ holder[d] \in Procs /\ ent[holder[d]] = d /\ at[holder[d]] \in Inside
    BY <1>1, <1>3, HolderIs
  <2>2. holder[d] # p
    BY <1>1, <2>1
  <2> QED
    BY <2>1, <2>2 DEF OthersStay
<1> QED
  BY <1>1, <1>2, <1>3 DEF Locking

LEMMA UseInodeKeeps ==
    ASSUME Basis, NEW p \in Procs, NEW f \in File, UseInode(p, f)
    PROVE  Kept'
<1>1. PICK e \in Entry : e = file[f].ip
  BY DEF UseInode, Basis, CacheInv, Kept, Placed
<1>2. PICK stage \in {"load", "in"} : stage = IF copy[e] = NotRead THEN "load" ELSE "in"
  OBVIOUS
<1>3. /\ at[p] = "none" /\ holder[e] = Nobody /\ holder' = [holder EXCEPT ![e] = p]
      /\ ent' = [ent EXCEPT ![p] = e] /\ Goes(p, stage) /\ UNCHANGED <<dinode, inum, ref, copy, num, file, held>>
      /\ held[p][f] > 0 /\ IsOpen(f, e)
  BY <1>1, <1>2 DEF UseInode, Idle, Lock, fileVars, IsOpen
<1>4. at' \in [Procs -> Stage] /\ at'[p] = stage /\ \A q \in Procs \ {p} : at'[q] = at[q]
  BY <1>2, <1>3, GoesTyped DEF Stage
<1>5. ent' \in [Procs -> Entry \cup {NoEntry}] /\ ent'[p] = e /\ OthersStay(p)
  BY <1>3, <1>4, StageTypes DEF OthersStay
<1>6. holder' \in [Entry -> Procs \cup {Nobody}] /\ Locking'
  BY <1>2, <1>3, <1>4, <1>5, LockTaken DEF Inside
<1>7. UsesOpen'
  BY <1>3, <1>5 DEF Basis, CacheInv, Kept, UsesOpen, IsOpen, OthersStay
<1> QED
  BY <1>2, <1>3, <1>4, <1>5, <1>6, <1>7, StageTypes, LockChanges DEF Cites, Counting, Owning

LEMMA UnlockKeeps ==
    ASSUME Basis, NEW p \in Procs, Unlock(p), UNCHANGED <<file, held>>
    PROVE  Kept'
<1>1. PICK e \in Entry : e = ent[p]
  BY DEF Unlock, Basis, CacheInv, Kept, Placed
<1>2. /\ at[p] = "in" /\ holder' = [holder EXCEPT ![e] = Nobody] /\ Ends(p)
      /\ UNCHANGED <<dinode, inum, ref, copy, file, held>>
  BY <1>1 DEF Unlock
<1>3. OthersStay(p) /\ at'[p] = "none" /\ holder[e] = p
  BY <1>1, <1>2, EndsTyped, HolderIs DEF Inside
<1>4. holder' \in [Entry -> Procs \cup {Nobody}] /\ Locking'
  BY <1>2, <1>3, LockLeft DEF Inside
<1>5. UsesOpen'
  BY <1>2, <1>3, UsesFollow
<1> QED
  BY <1>2, <1>3, <1>4, <1>5, EndsTyped, LockChanges DEF Cites, Counting, Owning

\* inode_put locks the entry it frees.
LEMMA PutLocksKeeps ==
    ASSUME Basis, NEW p \in Procs, PutLocks(p), UNCHANGED <<file, held>>
    PROVE  Kept'
<1>1. PICK e \in Entry : e = ent[p]
  BY DEF PutLocks, Basis, CacheInv, Kept, Placed, Counting
<1>2. /\ at[p] = "free" /\ holder[e] = Nobody /\ holder' = [holder EXCEPT ![e] = p] /\ Goes(p, "erase")
      /\ UNCHANGED <<dinode, inum, ref, copy, num, ent, file, held>>
  BY <1>1 DEF PutLocks
<1>3. at' \in [Procs -> Stage] /\ at'[p] = "erase" /\ OthersStay(p)
  BY <1>2, GoesTyped DEF Stage, OthersStay
<1>4. holder' \in [Entry -> Procs \cup {Nobody}] /\ Locking'
  BY <1>1, <1>2, <1>3, LockTaken DEF Inside
<1>5. UsesOpen'
  BY <1>2, <1>3, UsesFollow
<1>6. copy[ent[p]] # NotRead
  BY <1>2 DEF Basis, CacheInv, Kept, Contents, HasRead
<1> QED
  BY <1>1, <1>2, <1>3, <1>4, <1>5, <1>6, StageTypes, LockChanges DEF Cites, Counting, Owning

-----------------------------------------------------------------------------
(***************************************************************************)
(* inode_alloc and inode_get                                               *)
(***************************************************************************)

\* inode_alloc takes an inode nobody uses, though its last user may not have
\* left the cache yet.
LEMMA AllocTakesKeeps ==
    ASSUME Basis, NEW p \in Procs, AllocTakes(p), UNCHANGED <<file, held>>
    PROVE  Kept'
<1>1. PICK i \in Inum : i = num[p]
  BY DEF AllocTakes, Basis, CacheInv, Kept, Placed
<1>2. /\ at[p] = "scan" /\ ~ dinode[i].used /\ dinode' = [dinode EXCEPT ![i] = FreshDinode] /\ Goes(p, "get")
      /\ UNCHANGED <<inum, ref, copy, holder, num, ent, file, held>>
  BY <1>1 DEF AllocTakes, IsFree, cache
<1>3. at' \in [Procs -> Stage] /\ at'[p] = "get" /\ OthersStay(p)
  BY <1>2, GoesTyped DEF Stage, OthersStay
<1>4. /\ FreshDinode \in Dinode /\ FreshDinode.used /\ FreshDinode.nlink = 0
      /\ dinode' \in [Inum -> Dinode] /\ dinode'[i] = FreshDinode /\ \A j \in Inum \ {i} : dinode'[j] = dinode[j]
  <2>1. FreshDinode \in Dinode /\ FreshDinode.used /\ FreshDinode.nlink = 0
    BY InodeAssumption DEF FreshDinode, Dinode
  <2> QED
    BY <1>2, <2>1 DEF Basis, CacheInv, Kept, InodeTypeOK
<1>5. InodeTypeOK'
  BY <1>2, <1>3, <1>4 DEF Basis, CacheInv, Kept, InodeTypeOK
<1>6. Placed'
  <2>1. \A e \in Entry : ref[e] > 0 => inum[e] \in Inum
    BY DEF Basis, CacheInv, Kept, Placed
  <2> QED
    BY <1>1, <1>2, <1>3, <2>1, PlacedFollows DEF Counting
<1>7. InodeRefsCounted' /\ Locking' /\ UsesOpen'
  BY <1>2, <1>3, CountsFollow, LockingFollows, UsesFollow DEF Cites, Counting, Inside
<1>8. HasRead' /\ LastReference'
  BY <1>2, <1>3 DEF Basis, CacheInv, Kept, Contents, HasRead, LastReference, OthersStay
\* The inode was free, so no file and no process that owns one refers to it.
<1>9. /\ \A f \in File : file[f].type = "inode" => inum[file[f].ip] # i /\ inum[file[f].ip] \in Inum
      /\ \A q \in Procs : at[q] \in Owning => inum[ent[q]] # i /\ inum[ent[q]] \in Inum
      /\ \A q \in Procs : at[q] = "get" => num[q] # i /\ num[q] \in Inum
  <2>1. ASSUME NEW f \in File, file[f].type = "inode" PROVE inum[file[f].ip] # i /\ inum[file[f].ip] \in Inum
    <3>1. file[f].ip \in Entry /\ IsOpen(f, file[f].ip)
      BY <2>1 DEF Basis, CacheInv, Kept, Placed, IsOpen
    <3>2. ref[file[f].ip] > 0
      BY <3>1, CitedCounts
    <3> QED
      BY <1>2, <2>1, <3>1, <3>2 DEF Basis, CacheInv, Kept, Contents, InUse, Placed
  <2>2. ASSUME NEW q \in Procs, at[q] \in Owning PROVE inum[ent[q]] # i /\ inum[ent[q]] \in Inum
    BY <1>2, <2>2, UserKnows DEF Basis, CacheInv, Kept, Contents, InUse, Owning, Counting
  <2>3. ASSUME NEW q \in Procs, at[q] = "get" PROVE num[q] # i /\ num[q] \in Inum
    BY <1>2, <2>3 DEF Basis, CacheInv, Kept, Contents, InUse, Placed
  <2> QED
    BY <2>1, <2>2, <2>3
<1>10. \A q \in Procs : /\ q # p /\ at'[q] = "get" => at[q] = "get" /\ num[q] # i /\ num[q] \in Inum
                        /\ at'[q] \in Owning => at[q] \in Owning
  BY <1>3, <1>9 DEF OthersStay, Owning
<1>11. InUse'
  <2>1. \A f \in File : file[f].type = "inode" => dinode'[inum[file[f].ip]].used
    BY <1>4, <1>9 DEF Basis, CacheInv, Kept, Contents, InUse
  <2>2. \A q \in Procs : at'[q] \in Owning => dinode'[inum[ent[q]]].used
    BY <1>4, <1>9, <1>10 DEF Basis, CacheInv, Kept, Contents, InUse
  <2>3. \A q \in Procs : at'[q] = "get" => dinode'[num[q]].used
    BY <1>1, <1>4, <1>10 DEF Basis, CacheInv, Kept, Contents, InUse
  <2> QED
    BY <1>2, <2>1, <2>2, <2>3 DEF InUse
<1>12. Shown'
  <2> SUFFICES ASSUME NEW e \in Entry, ref[e] > 0, copy[e] # NotRead
               PROVE  \/ copy[e] = dinode'[inum[e]] /\ dinode'[inum[e]].used
                      \/ \E q \in Procs : at'[q] = "unlock" /\ ent[q] = e
    BY <1>2 DEF Shown
  <2>1. \/ copy[e] = dinode[inum[e]] /\ dinode[inum[e]].used
        \/ \E q \in Procs : at[q] = "unlock" /\ ent[q] = e
    BY DEF Basis, CacheInv, Kept, Contents, Shown
  <2>2. inum[e] \in Inum
    BY DEF Basis, CacheInv, Kept, Placed
  <2>3. \A q \in Procs : at[q] = "unlock" => at'[q] = "unlock"
    BY <1>2, <1>3 DEF OthersStay
  <2>4. CASE copy[e] = dinode[inum[e]] /\ dinode[inum[e]].used
    BY <1>2, <1>4, <2>2, <2>4
  <2> QED
    BY <2>1, <2>3, <2>4
<1>13. SoleUser'
  <2> SUFFICES ASSUME NEW q \in Procs, at'[q] = "get", dinode'[num[q]].nlink = 0
               PROVE  /\ \A r \in Procs : r # q /\ at'[r] = "get" => num[r] # num[q]
                      /\ \A f \in File : file[f].type = "inode" => inum[file[f].ip] # num[q]
                      /\ \A r \in Procs : at'[r] \in Owning => inum[ent[r]] # num[q]
    BY <1>2 DEF SoleUser
  <2>1. CASE q = p
    BY <1>1, <1>9, <1>10, <2>1
  <2>2. CASE q # p
    <3>1. at[q] = "get" /\ num[q] # i /\ dinode[num[q]].nlink = 0
      BY <1>4, <1>10, <2>2
    <3>2. /\ \A r \in Procs : r # q /\ at[r] = "get" => num[r] # num[q]
          /\ \A f \in File : file[f].type = "inode" => inum[file[f].ip] # num[q]
          /\ \A r \in Procs : at[r] \in Owning => inum[ent[r]] # num[q]
      BY <3>1 DEF Basis, CacheInv, Kept, Contents, SoleUser
    <3> QED
      BY <1>1, <1>10, <3>1, <3>2
  <2> QED
    BY <2>1, <2>2
<1> QED
  BY <1>5, <1>6, <1>7, <1>8, <1>11, <1>12, <1>13 DEF Kept, Contents

\* The process in inode_get gets a reference; the inode it asks for is nobody
\* else's when it has no name yet.
LEMMA GetHitKeepsInodes ==
    ASSUME Basis, NEW p \in Procs, NEW e \in Entry, GetHit(p, e), UNCHANGED <<file, held>>
    PROVE  Kept'
<1>1. /\ at[p] = "get" /\ ref[e] > 0 /\ inum[e] = num[p] /\ ref' = [ref EXCEPT ![e] = @ + 1]
      /\ Goes(p, "have") /\ ent' = [ent EXCEPT ![p] = e] /\ UNCHANGED <<dinode, inum, copy, holder, num, file, held>>
  BY DEF GetHit, IsHit
<1>2. at' \in [Procs -> Stage] /\ at'[p] = "have" /\ \A q \in Procs \ {p} : at'[q] = at[q]
  BY <1>1, GoesTyped DEF Stage
<1>3. ent' \in [Procs -> Entry \cup {NoEntry}] /\ ent'[p] = e /\ OthersStay(p)
  BY <1>1, <1>2, StageTypes DEF OthersStay
<1>4. ref' \in [Entry -> Nat] /\ ref'[e] = ref[e] + 1 /\ \A d \in Entry \ {e} : ref'[d] = ref[d]
  BY <1>1 DEF Basis, CacheInv, Kept, InodeTypeOK
<1>5. InodeTypeOK'
  BY <1>1, <1>2, <1>3, <1>4 DEF Basis, CacheInv, Kept, InodeTypeOK
<1>6. \A d \in Entry : ref'[d] > 0 => ref[d] > 0 /\ inum[d] \in Inum
  BY <1>1, <1>4 DEF Basis, CacheInv, Kept, Placed
<1>7. Placed'
  BY <1>1, <1>2, <1>3, <1>6, PlacedFollows
<1>8. InodeRefsCounted'
  <2>1. \A d \in Entry : ~ Cites(p, d) /\ (Cites(p, d)' <=> d = e)
    BY <1>1, <1>2, <1>3 DEF Cites, Counting
  <2> QED
    BY <1>1, <1>3, <1>4, <2>1, CountsFollow
<1>9. Locking' /\ UsesOpen'
  BY <1>1, <1>2, <1>3, LockingFollows, UsesFollow DEF Inside
<1>10. HasRead'
  BY <1>1, <1>2, <1>3 DEF Basis, CacheInv, Kept, Contents, HasRead, OthersStay
<1>11. LastReference'
  <2> SUFFICES ASSUME NEW q \in Procs, at'[q] \in {"free", "erase"}
               PROVE  ref'[ent'[q]] = 1 /\ copy[ent'[q]].nlink = 0
    BY <1>1 DEF LastReference
  <2>1. q # p /\ at[q] \in {"free", "erase"} /\ ent'[q] = ent[q]
    BY <1>2, <1>3 DEF OthersStay
  <2>2. ref[ent[q]] = 1 /\ copy[ent[q]].nlink = 0 /\ ent[q] \in Entry /\ copy[ent[q]] = dinode[inum[ent[q]]]
    BY <2>1, UserKnows DEF Basis, CacheInv, Kept, Contents, LastReference, Counting
  <2>3. ent[q] # e
    BY <1>1, <2>1, <2>2 DEF Basis, CacheInv, Kept, Contents, SoleUser, Owning
  <2> QED
    BY <1>4, <2>1, <2>2, <2>3
<1>12. InUse'
  BY <1>1, <1>2, <1>3 DEF Basis, CacheInv, Kept, Contents, InUse, OthersStay
<1>13. Shown'
  BY <1>1, <1>2, <1>3, <1>6 DEF Basis, CacheInv, Kept, Contents, Shown, OthersStay
<1>14. SoleUser'
  BY <1>1, <1>2, <1>3 DEF Basis, CacheInv, Kept, Contents, SoleUser, OthersStay
<1> QED
  BY <1>5, <1>7, <1>8, <1>9, <1>10, <1>11, <1>12, <1>13, <1>14 DEF Kept, Contents

\* The entry recycled is nobody's.
LEMMA GetRecyclesKeepsInodes ==
    ASSUME Basis, NEW p \in Procs, NEW e \in Entry, GetRecycles(p, e), UNCHANGED <<file, held>>
    PROVE  Kept'
<1>0. PICK i \in Inum : i = num[p]
  BY DEF GetRecycles, Basis, CacheInv, Kept, Placed
<1>1. /\ at[p] = "get" /\ ref[e] = 0 /\ inum' = [inum EXCEPT ![e] = i] /\ ref' = [ref EXCEPT ![e] = 1]
      /\ copy' = [copy EXCEPT ![e] = NotRead]
      /\ Goes(p, "have") /\ ent' = [ent EXCEPT ![p] = e] /\ UNCHANGED <<dinode, holder, num, file, held>>
  BY <1>0 DEF GetRecycles, IsFirstEmpty, Invalidated
<1>2. at' \in [Procs -> Stage] /\ at'[p] = "have" /\ \A q \in Procs \ {p} : at'[q] = at[q]
  BY <1>1, GoesTyped DEF Stage
<1>3. ent' \in [Procs -> Entry \cup {NoEntry}] /\ ent'[p] = e /\ OthersStay(p)
  BY <1>1, <1>2, StageTypes DEF OthersStay
<1>4. /\ ref' \in [Entry -> Nat] /\ ref'[e] = 1 /\ \A d \in Entry \ {e} : ref'[d] = ref[d]
      /\ inum' \in [Entry -> Inum \cup {0}] /\ inum'[e] = i /\ \A d \in Entry \ {e} : inum'[d] = inum[d]
      /\ copy' \in [Entry -> Dinode \cup {NotRead}] /\ copy'[e] = NotRead /\ \A d \in Entry \ {e} : copy'[d] = copy[d]
  BY <1>1 DEF Basis, CacheInv, Kept, InodeTypeOK
<1>5. InodeTypeOK'
  BY <1>1, <1>2, <1>3, <1>4 DEF Basis, CacheInv, Kept, InodeTypeOK
<1>6. /\ \A f \in File : file[f].type = "inode" => file[f].ip # e /\ file[f].ip \in Entry
      /\ \A q \in Procs : at[q] \in Counting \cup {"load", "in"} => ent[q] # e /\ ent[q] \in Entry
  <2>1. \A f \in File : ~ IsOpen(f, e)
    BY <1>1, CitedCounts
  <2>2. \A q \in Procs : at[q] \in Counting \cup {"load", "in"} => ent[q] # e /\ ent[q] \in Entry
    BY <1>1, UserKnows
  <2> QED
    BY <2>1, <2>2 DEF IsOpen, Basis, CacheInv, Kept, Placed
<1>7. \A d \in Entry : ref'[d] > 0 => inum'[d] \in Inum
  BY <1>0, <1>4 DEF Basis, CacheInv, Kept, Placed
<1>8. Placed'
  BY <1>1, <1>2, <1>3, <1>7, PlacedFollows
<1>9. InodeRefsCounted'
  <2>1. \A d \in Entry : ~ Cites(p, d) /\ (Cites(p, d)' <=> d = e)
    BY <1>1, <1>2, <1>3 DEF Cites, Counting
  <2> QED
    BY <1>1, <1>3, <1>4, <2>1, CountsFollow
<1>10. Locking' /\ UsesOpen'
  BY <1>1, <1>2, <1>3, LockingFollows, UsesFollow DEF Inside
<1>11. \A q \in Procs : at'[q] \in {"in", "free", "erase", "put"} => at[q] = at'[q] /\ ent'[q] = ent[q] /\ ent[q] \in Entry \ {e}
  BY <1>2, <1>3, <1>6 DEF OthersStay, Counting
<1>12. HasRead' /\ LastReference'
  BY <1>4, <1>11 DEF Basis, CacheInv, Kept, Contents, HasRead, LastReference
\* What the users of inodes see is what they saw, and p's inode is i.
<1>13. /\ \A f \in File : file[f].type = "inode" => inum'[file[f].ip] = inum[file[f].ip]
       /\ \A q \in Procs : q # p /\ at'[q] \in Owning => at[q] \in Owning /\ inum'[ent'[q]] = inum[ent[q]]
       /\ \A q \in Procs : at'[q] = "get" => q # p /\ at[q] = "get"
       /\ inum'[ent'[p]] = i
  BY <1>2, <1>3, <1>4, <1>6 DEF OthersStay, Owning, Counting
<1>14. InUse'
  <2>1. dinode[i].used
    BY <1>0, <1>1 DEF Basis, CacheInv, Kept, Contents, InUse
  <2> QED
    BY <1>1, <1>13, <2>1 DEF Basis, CacheInv, Kept, Contents, InUse
<1>15. Shown'
  <2>1. \A q \in Procs : at[q] = "unlock" => at'[q] = "unlock" /\ ent'[q] = ent[q]
    BY <1>1, <1>3 DEF OthersStay
  <2> QED
    BY <1>1, <1>4, <2>1 DEF Basis, CacheInv, Kept, Contents, Shown
<1>16. SoleUser'
  <2> SUFFICES ASSUME NEW q \in Procs, at'[q] = "get", dinode[num[q]].nlink = 0
               PROVE  /\ \A r \in Procs : r # q /\ at'[r] = "get" => num[r] # num[q]
                      /\ \A f \in File : file[f].type = "inode" => inum'[file[f].ip] # num[q]
                      /\ \A r \in Procs : at'[r] \in Owning => inum'[ent'[r]] # num[q]
    BY <1>1 DEF SoleUser
  <2>1. at[q] = "get" /\ q # p
    BY <1>13
  <2>2. /\ \A r \in Procs : r # q /\ at[r] = "get" => num[r] # num[q]
        /\ \A f \in File : file[f].type = "inode" => inum[file[f].ip] # num[q]
        /\ \A r \in Procs : at[r] \in Owning => inum[ent[r]] # num[q]
    BY <2>1 DEF Basis, CacheInv, Kept, Contents, SoleUser
  <2> QED
    BY <1>0, <1>1, <1>13, <2>1, <2>2
<1> QED
  BY <1>5, <1>8, <1>9, <1>10, <1>12, <1>14, <1>15, <1>16 DEF Kept, Contents

-----------------------------------------------------------------------------
(***************************************************************************)
(* Under the lock                                                          *)
(***************************************************************************)

\* The copy of an entry a process in inode_lock or inode_write works on
\* changes, and the disk does not, or as the copy does.
LEMMA CopyChanges ==
    ASSUME Basis, NEW p \in Procs, NEW e \in Entry, e = ent[p], at[p] \in {"load", "in"},
           UNCHANGED <<inum, ref, holder, num, ent, file, held>>,
           at' \in [Procs -> Stage], at'[p] = "in", \A q \in Procs \ {p} : at'[q] = at[q],
           NEW x \in Dinode, copy' = [copy EXCEPT ![e] = x], x.used,
           dinode' = [dinode EXCEPT ![inum[e]] = x], x.nlink = dinode[inum[e]].nlink
    PROVE  Kept'
<1>1. ref[e] > 0 /\ inum[e] \in Inum /\ ref[e] \in Nat
  BY UserKnows DEF Basis, CacheInv, Kept, InodeTypeOK
<1>2. /\ copy' \in [Entry -> Dinode \cup {NotRead}] /\ copy'[e] = x /\ \A d \in Entry \ {e} : copy'[d] = copy[d]
      /\ dinode' \in [Inum -> Dinode] /\ dinode'[inum[e]] = x
      /\ \A i \in Inum \ {inum[e]} : dinode'[i] = dinode[i]
      /\ x # NotRead
  BY <1>1, NotReadAssumption DEF Basis, CacheInv, Kept, InodeTypeOK
<1>3. InodeTypeOK' /\ OthersStay(p)
  BY <1>2 DEF Basis, CacheInv, Kept, InodeTypeOK, OthersStay
<1>4. Placed'
  BY <1>3, PlacedFollows DEF Basis, CacheInv, Kept, Placed
<1>5. InodeRefsCounted' /\ Locking' /\ UsesOpen'
  BY <1>3, CountsFollow, LockingFollows, UsesFollow DEF Cites, Counting, Inside
\* The entry is open: nobody drops the last reference to it.
<1>6. \A q \in Procs : at[q] \in Counting /\ ent[q] = e => ref[e] >= 2
  BY CitedCounts DEF Basis, CacheInv, Kept, UsesOpen
<1>7. \A q \in Procs : at'[q] \in Stage \ {"in"} => at'[q] = at[q]
  OBVIOUS
<1>8. HasRead'
  <2> SUFFICES ASSUME NEW q \in Procs, at'[q] \in {"in", "free", "erase"} PROVE copy'[ent[q]] # NotRead
    BY DEF HasRead
  <2>1. CASE ent[q] = e
    BY <1>2, <2>1
  <2>2. CASE ent[q] # e
    BY <1>2, <2>2, UserKnows DEF Basis, CacheInv, Kept, Contents, HasRead, Counting
  <2> QED
    BY <2>1, <2>2
<1>9. LastReference'
  <2> SUFFICES ASSUME NEW q \in Procs, at'[q] \in {"free", "erase"}
               PROVE  ref[ent[q]] = 1 /\ copy'[ent[q]].nlink = 0
    BY DEF LastReference
  <2>1. at[q] \in {"free", "erase"}
    BY <1>7 DEF Stage
  <2>2. ref[ent[q]] = 1 /\ copy[ent[q]].nlink = 0 /\ ent[q] \in Entry
    BY <2>1, UserKnows DEF Basis, CacheInv, Kept, Contents, LastReference, Counting
  <2>3. ent[q] # e
    BY <1>6, <2>1, <2>2 DEF Counting
  <2> QED
    BY <1>2, <2>2, <2>3
<1>10. \A i \in Inum : /\ dinode[i].used => dinode'[i].used
                       /\ dinode'[i].nlink = dinode[i].nlink
  BY <1>1, <1>2
<1>11. InUse'
  <2>1. ASSUME NEW f \in File, file[f].type = "inode" PROVE dinode'[inum[file[f].ip]].used
    <3>1. file[f].ip \in Entry /\ IsOpen(f, file[f].ip)
      BY <2>1 DEF Basis, CacheInv, Kept, Placed, IsOpen
    <3>2. inum[file[f].ip] \in Inum
      BY <3>1, CitedCounts DEF Basis, CacheInv, Kept, Placed
    <3> QED
      BY <1>10, <2>1, <3>2 DEF Basis, CacheInv, Kept, Contents, InUse
  <2>2. ASSUME NEW q \in Procs, at'[q] \in Owning PROVE dinode'[inum[ent[q]]].used
    <3>1. at[q] \in Owning
      BY <1>7, <2>2 DEF Stage, Owning
    <3> QED
      BY <1>10, <3>1, UserKnows DEF Basis, CacheInv, Kept, Contents, InUse, Owning, Counting
  <2>3. ASSUME NEW q \in Procs, at'[q] = "get" PROVE dinode'[num[q]].used
    BY <1>7, <1>10, <2>3 DEF Stage, Basis, CacheInv, Kept, Contents, InUse, Placed
  <2> QED
    BY <2>1, <2>2, <2>3 DEF InUse
<1>12. Shown'
  <2> SUFFICES ASSUME NEW d \in Entry, ref[d] > 0, copy'[d] # NotRead
               PROVE  \/ copy'[d] = dinode'[inum[d]] /\ dinode'[inum[d]].used
                      \/ \E q \in Procs : at'[q] = "unlock" /\ ent[q] = d
    BY DEF Shown
  <2>1. CASE d = e
    BY <1>2, <2>1
  <2>2. CASE d # e
    <3>1. inum[d] \in Inum \ {inum[e]}
      BY <1>1, <2>2 DEF Basis, CacheInv, Kept, Placed, OneEntry
    <3>2. \/ copy[d] = dinode[inum[d]] /\ dinode[inum[d]].used
          \/ \E q \in Procs : at[q] = "unlock" /\ ent[q] = d
      BY <1>2, <2>2 DEF Basis, CacheInv, Kept, Contents, Shown
    <3>3. \A q \in Procs : at[q] = "unlock" => at'[q] = "unlock"
      OBVIOUS
    <3> QED
      BY <1>2, <2>2, <3>1, <3>2, <3>3
  <2> QED
    BY <2>1, <2>2
<1>13. SoleUser'
  <2> SUFFICES ASSUME NEW q \in Procs, at'[q] = "get", dinode'[num[q]].nlink = 0
               PROVE  /\ \A r \in Procs : r # q /\ at'[r] = "get" => num[r] # num[q]
                      /\ \A f \in File : file[f].type = "inode" => inum[file[f].ip] # num[q]
                      /\ \A r \in Procs : at'[r] \in Owning => inum[ent[r]] # num[q]
    BY DEF SoleUser
  <2>1. at[q] = "get" /\ \A r \in Procs : /\ at'[r] = "get" => at[r] = "get"
                                          /\ at'[r] \in Owning => at[r] \in Owning
    BY <1>7 DEF Stage, Owning
  <2>2. num[q] \in Inum
    BY <2>1 DEF Basis, CacheInv, Kept, Placed
  <2> QED
    BY <1>10, <2>1, <2>2 DEF Basis, CacheInv, Kept, Contents, SoleUser
<1> QED
  BY <1>3, <1>4, <1>5, <1>8, <1>9, <1>11, <1>12, <1>13 DEF Kept, Contents

LEMMA LoadKeeps ==
    ASSUME Basis, NEW p \in Procs, Load(p), UNCHANGED <<file, held>>
    PROVE  Kept'
<1>1. PICK e \in Entry : e = ent[p]
  BY DEF Load, Basis, CacheInv, Kept, Placed
<1>2. PICK x : x = dinode[inum[e]]
  OBVIOUS
<1>3. /\ at[p] = "load" /\ copy' = [copy EXCEPT ![e] = x] /\ Goes(p, "in")
      /\ UNCHANGED <<dinode, inum, ref, holder, num, ent, file, held>>
  BY <1>1, <1>2 DEF Load
<1>4. inum[e] \in Inum /\ dinode \in [Inum -> Dinode]
  BY <1>1, <1>3, UserKnows DEF Basis, CacheInv, Kept, InodeTypeOK
\* inode_lock is called for an open file, whose inode is in use.
<1>5. x.used
  BY <1>1, <1>2, <1>3 DEF Basis, CacheInv, Kept, UsesOpen, IsOpen, Contents, InUse
<1>6. at' \in [Procs -> Stage] /\ at'[p] = "in" /\ \A q \in Procs \ {p} : at'[q] = at[q]
  BY <1>3, GoesTyped DEF Stage
<1>7. x \in Dinode /\ dinode' = [dinode EXCEPT ![inum[e]] = x]
  BY <1>2, <1>3, <1>4
<1> QED
  BY <1>1, <1>2, <1>3, <1>5, <1>6, <1>7, CopyChanges

Sized(x, size) == [x EXCEPT !.size = size]
Erased(x) == [x EXCEPT !.used = FALSE]

LEMMA DinodeFields ==
    ASSUME NEW x \in Dinode
    PROVE  /\ \A n \in 0 .. MaxSize : /\ Sized(x, n) \in Dinode /\ Sized(x, n).nlink = x.nlink
                                      /\ Sized(x, n).used <=> x.used
           /\ Erased(x) \in Dinode /\ Erased(x).nlink = x.nlink /\ ~ Erased(x).used
<1>1. ASSUME NEW n \in 0 .. MaxSize
      PROVE  /\ Sized(x, n) \in Dinode /\ Sized(x, n).nlink = x.nlink
             /\ Sized(x, n).used <=> x.used
  BY DEF Dinode, Sized
<1>2. Erased(x) \in Dinode /\ Erased(x).nlink = x.nlink /\ ~ Erased(x).used
  BY DEF Dinode, Erased
<1> QED
  BY <1>1, <1>2

LEMMA WriteInodeKeeps ==
    ASSUME Basis, NEW p \in Procs, NEW size \in 1 .. MaxSize, WriteInode(p, size), UNCHANGED <<file, held>>
    PROVE  Kept'
<1>1. PICK e \in Entry : e = ent[p]
  BY DEF WriteInode, Basis, CacheInv, Kept, Placed
<1>2. PICK x : x = Sized(copy[e], size)
  OBVIOUS
<1>3. /\ at[p] = "in" /\ copy' = [copy EXCEPT ![e] = x] /\ dinode' = [dinode EXCEPT ![inum[e]] = x]
      /\ UNCHANGED <<inum, ref, holder, at, num, ent, file, held>>
  BY <1>1, <1>2 DEF WriteInode, Updates, Sized
<1>4. copy[e] = dinode[inum[e]] /\ dinode[inum[e]].used /\ inum[e] \in Inum
  BY <1>1, <1>3, UserKnows
<1>5. copy[e] \in Dinode
  BY <1>4 DEF Basis, CacheInv, Kept, InodeTypeOK
<1>6. x \in Dinode /\ x.used /\ x.nlink = dinode[inum[e]].nlink
  <2>1. size \in 0 .. MaxSize
    BY InodeAssumption
  <2> QED
    BY <1>2, <1>4, <1>5, <2>1, DinodeFields
<1> QED
  BY <1>1, <1>3, <1>6, StageTypes, CopyChanges

-----------------------------------------------------------------------------
(***************************************************************************)
(* inode_put                                                               *)
(***************************************************************************)

\* A reference is dropped: no process that frees the inode has another one.
LEMMA DropKeepsInodes ==
    ASSUME Basis, NEW p \in Procs, Put(p) \/ PutDrops(p), UNCHANGED <<file, held>>
    PROVE  Kept'
<1>1. PICK e \in Entry : e = ent[p]
  BY DEF Put, PutDrops, Basis, CacheInv, Kept, Placed, Counting
<1>2. /\ at[p] \in {"put", "drop"} /\ ref' = [ref EXCEPT ![e] = @ - 1] /\ Ends(p)
      /\ UNCHANGED <<dinode, inum, copy, holder, file, held>>
  BY <1>1 DEF Put, PutDrops
<1>3. /\ at' \in [Procs -> Stage] /\ num' \in [Procs -> Inum \cup {0}]
      /\ ent' \in [Procs -> Entry \cup {NoEntry}]
      /\ at'[p] = "none" /\ OthersStay(p)
  BY <1>2, EndsTyped
<1>4. ref[e] \in Nat /\ ref[e] >= 1
  BY <1>1, <1>2, UserKnows DEF Counting, Basis, CacheInv, Kept, InodeTypeOK
<1>5. ref' \in [Entry -> Nat] /\ ref'[e] = ref[e] - 1 /\ \A d \in Entry \ {e} : ref'[d] = ref[d]
  BY <1>2, <1>4 DEF Basis, CacheInv, Kept, InodeTypeOK
<1>6. InodeTypeOK'
  BY <1>2, <1>3, <1>5 DEF Basis, CacheInv, Kept, InodeTypeOK
<1>7. \A d \in Entry : ref'[d] > 0 => ref[d] > 0 /\ inum[d] \in Inum
  BY <1>4, <1>5 DEF Basis, CacheInv, Kept, Placed
<1>8. Placed'
  BY <1>2, <1>3, <1>7, PlacedFollows DEF Counting
<1>9. InodeRefsCounted'
  <2>1. \A d \in Entry : ~ Cites(p, d)' /\ (Cites(p, d) <=> d = e)
    BY <1>1, <1>2, <1>3 DEF Cites, Counting
  <2> QED
    BY <1>2, <1>3, <1>5, <2>1, CountsFollow
<1>10. Locking' /\ UsesOpen'
  BY <1>2, <1>3, LockingFollows, UsesFollow DEF Inside
<1>11. HasRead'
  BY <1>2, <1>3 DEF Basis, CacheInv, Kept, Contents, HasRead, OthersStay
<1>12. LastReference'
  <2> SUFFICES ASSUME NEW q \in Procs, at'[q] \in {"free", "erase"}
               PROVE  ref'[ent'[q]] = 1 /\ copy[ent'[q]].nlink = 0
    BY <1>2 DEF LastReference
  <2>1. q # p /\ at[q] \in {"free", "erase"} /\ ent'[q] = ent[q]
    BY <1>3 DEF OthersStay
  <2>2. ref[ent[q]] = 1 /\ copy[ent[q]].nlink = 0 /\ ent[q] \in Entry
    BY <2>1, UserKnows DEF Basis, CacheInv, Kept, Contents, LastReference, Counting
  <2>3. ent[q] # e
    BY <1>1, <1>2, <2>1, <2>2, CitedCounts DEF Counting
  <2> QED
    BY <1>5, <2>1, <2>2, <2>3
<1>13. InUse'
  BY <1>2, <1>3 DEF Basis, CacheInv, Kept, Contents, InUse, OthersStay, Owning
<1>14. Shown'
  BY <1>2, <1>3, <1>7 DEF Basis, CacheInv, Kept, Contents, Shown, OthersStay
<1>15. SoleUser'
  BY <1>2, <1>3 DEF Basis, CacheInv, Kept, Contents, SoleUser, OthersStay, Owning
<1> QED
  BY <1>6, <1>8, <1>9, <1>10, <1>11, <1>12, <1>13, <1>14, <1>15 DEF Kept, Contents

\* inode_put erases an inode that is its own: no file, no process in inode_get
\* and no other owner has it.
LEMMA PutErasesKeeps ==
    ASSUME Basis, NEW p \in Procs, PutErases(p), UNCHANGED <<file, held>>
    PROVE  Kept'
<1>1. PICK e \in Entry : e = ent[p]
  BY DEF PutErases, Basis, CacheInv, Kept, Placed, Counting
<1>2. PICK x : x = Erased(copy[e])
  OBVIOUS
<1>3. /\ at[p] = "erase" /\ copy' = [copy EXCEPT ![e] = x] /\ dinode' = [dinode EXCEPT ![inum[e]] = x]
      /\ Goes(p, "unlock") /\ UNCHANGED <<inum, ref, holder, num, ent, file, held>>
  BY <1>1, <1>2 DEF PutErases, Updates, Erased
<1>4. /\ copy[e] = dinode[inum[e]] /\ inum[e] \in Inum /\ ref[e] = 1 /\ copy[e].nlink = 0
      /\ copy[e] \in Dinode
  BY <1>1, <1>3, UserKnows DEF Counting, Basis, CacheInv, Kept, InodeTypeOK, Contents, LastReference
<1>5. x \in Dinode /\ x.nlink = dinode[inum[e]].nlink /\ x # NotRead
  BY <1>2, <1>4, DinodeFields, NotReadAssumption
<1>6. at' \in [Procs -> Stage] /\ at'[p] = "unlock" /\ OthersStay(p)
  BY <1>3, GoesTyped DEF Stage, OthersStay
<1>7. /\ copy' \in [Entry -> Dinode \cup {NotRead}] /\ copy'[e] = x /\ \A d \in Entry \ {e} : copy'[d] = copy[d]
      /\ dinode' \in [Inum -> Dinode] /\ dinode'[inum[e]] = x
      /\ \A i \in Inum \ {inum[e]} : dinode'[i] = dinode[i]
  BY <1>3, <1>4, <1>5 DEF Basis, CacheInv, Kept, InodeTypeOK
<1>8. InodeTypeOK'
  BY <1>3, <1>6, <1>7 DEF Basis, CacheInv, Kept, InodeTypeOK
<1>9. Placed'
  <2>1. \A d \in Entry : ref[d] > 0 => inum[d] \in Inum
    BY DEF Basis, CacheInv, Kept, Placed
  <2> QED
    BY <1>1, <1>3, <1>6, <2>1, PlacedFollows
<1>10. InodeRefsCounted' /\ Locking' /\ UsesOpen'
  BY <1>3, <1>6, CountsFollow, LockingFollows, UsesFollow DEF Cites, Counting, Inside
<1>11. HasRead' /\ LastReference'
  <2>1. \A q \in Procs : at'[q] \in {"in", "free", "erase"} =>
            at[q] = at'[q] /\ ent[q] \in Entry /\ q # p
    BY <1>6, UserKnows DEF OthersStay, Counting
  <2>2. copy'[e].nlink = copy[e].nlink
    BY <1>4, <1>5, <1>7
  <2> QED
    BY <1>3, <1>5, <1>7, <2>1, <2>2 DEF Basis, CacheInv, Kept, Contents, HasRead, LastReference
\* The inode is nobody else's.
<1>12. /\ \A f \in File : file[f].type = "inode" => inum[file[f].ip] \in Inum \ {inum[e]}
       /\ \A q \in Procs \ {p} : at[q] \in Owning => inum[ent[q]] \in Inum \ {inum[e]}
       /\ \A q \in Procs : at[q] = "get" => num[q] \in Inum \ {inum[e]}
  <2>1. ASSUME NEW f \in File, file[f].type = "inode" PROVE inum[file[f].ip] \in Inum \ {inum[e]}
    <3>1. PICK d \in Entry : d = file[f].ip /\ IsOpen(f, d)
      BY <2>1 DEF Basis, CacheInv, Kept, Placed, IsOpen
    <3>2. ref[d] >= 1 /\ ref[d] \in Nat
      BY <3>1, CitedCounts
    <3>3. inum[d] \in Inum
      BY <3>2 DEF Basis, CacheInv, Kept, Placed
    <3>4. d # e
      BY <1>1, <1>3, <1>4, <3>1, CitedCounts DEF Counting
    <3> QED
      BY <1>4, <3>1, <3>2, <3>3, <3>4 DEF Basis, CacheInv, OneEntry
  <2>2. ASSUME NEW q \in Procs \ {p}, at[q] \in Owning PROVE inum[ent[q]] \in Inum \ {inum[e]}
    <3>1. PICK d \in Entry : d = ent[q] /\ ref[d] >= 1 /\ inum[d] \in Inum
      BY <2>2, UserKnows DEF Owning, Counting
    <3>2. ref[d] \in Nat
      BY DEF Basis, CacheInv, Kept, InodeTypeOK
    <3>3. d # e
      BY <1>1, <1>3, <1>4, <2>2, <3>1, CitedCounts DEF Owning, Counting
    <3> QED
      BY <1>4, <3>1, <3>2, <3>3 DEF Basis, CacheInv, OneEntry
  <2>3. ASSUME NEW q \in Procs, at[q] = "get" PROVE num[q] \in Inum \ {inum[e]}
    <3>1. num[q] \in Inum
      BY <2>3 DEF Basis, CacheInv, Kept, Placed
    <3>2. num[q] # inum[e]
      BY <1>1, <1>3, <1>4, <2>3 DEF Basis, CacheInv, Kept, Contents, SoleUser, Owning
    <3> QED
      BY <3>1, <3>2
  <2> QED
    BY <2>1, <2>2, <2>3
<1>13. \A q \in Procs : /\ at'[q] \in Owning => at[q] \in Owning /\ q # p
                        /\ at'[q] = "get" => at[q] = "get"
                        /\ at[q] = "unlock" => at'[q] = "unlock"
  BY <1>3, <1>6 DEF OthersStay, Owning
<1>14. InUse'
  <2>1. \A f \in File : file[f].type = "inode" => dinode'[inum[file[f].ip]].used
    BY <1>7, <1>12 DEF Basis, CacheInv, Kept, Contents, InUse
  <2>2. \A q \in Procs : at'[q] \in Owning => dinode'[inum[ent[q]]].used
    BY <1>7, <1>12, <1>13 DEF Basis, CacheInv, Kept, Contents, InUse
  <2>3. \A q \in Procs : at'[q] = "get" => dinode'[num[q]].used
    BY <1>7, <1>12, <1>13 DEF Basis, CacheInv, Kept, Contents, InUse
  <2> QED
    BY <1>3, <2>1, <2>2, <2>3 DEF InUse
<1>15. Shown'
  <2> SUFFICES ASSUME NEW d \in Entry, ref[d] > 0, copy'[d] # NotRead
               PROVE  \/ copy'[d] = dinode'[inum[d]] /\ dinode'[inum[d]].used
                      \/ \E q \in Procs : at'[q] = "unlock" /\ ent[q] = d
    BY <1>3 DEF Shown
  <2>1. CASE d = e
    BY <1>1, <1>6, <2>1
  <2>2. CASE d # e
    <3>1. inum[d] \in Inum \ {inum[e]}
      BY <1>4, <2>2 DEF Basis, CacheInv, Kept, Placed, OneEntry
    <3>2. \/ copy[d] = dinode[inum[d]] /\ dinode[inum[d]].used
          \/ \E q \in Procs : at[q] = "unlock" /\ ent[q] = d
      BY <1>7, <2>2 DEF Basis, CacheInv, Kept, Contents, Shown
    <3> QED
      BY <1>7, <1>13, <2>2, <3>1, <3>2
  <2> QED
    BY <2>1, <2>2
<1>16. SoleUser'
  BY <1>3, <1>7, <1>12, <1>13 DEF Basis, CacheInv, Kept, Contents, SoleUser
<1> QED
  BY <1>8, <1>9, <1>10, <1>11, <1>14, <1>15, <1>16 DEF Kept, Contents

\* The copy goes before the lock does.
LEMMA PutUnlocksKeeps ==
    ASSUME Basis, NEW p \in Procs, PutUnlocks(p), UNCHANGED <<file, held>>
    PROVE  Kept'
<1>1. PICK e \in Entry : e = ent[p]
  BY DEF PutUnlocks, Basis, CacheInv, Kept, Placed, Counting
<1>2. /\ at[p] = "unlock" /\ holder[e] = p /\ copy' = [copy EXCEPT ![e] = NotRead]
      /\ holder' = [holder EXCEPT ![e] = Nobody]
      /\ Goes(p, "drop") /\ UNCHANGED <<dinode, inum, ref, num, ent, file, held>>
  BY <1>1 DEF PutUnlocks, Invalidated
<1>3. at' \in [Procs -> Stage] /\ at'[p] = "drop" /\ OthersStay(p)
  BY <1>2, GoesTyped DEF Stage, OthersStay
<1>4. /\ copy' \in [Entry -> Dinode \cup {NotRead}] /\ copy'[e] = NotRead
      /\ \A d \in Entry \ {e} : copy'[d] = copy[d]
  BY <1>2 DEF Basis, CacheInv, Kept, InodeTypeOK
<1>5. holder' \in [Entry -> Procs \cup {Nobody}] /\ Locking'
  BY <1>2, <1>3, LockLeft DEF Inside
<1>6. InodeTypeOK'
  BY <1>2, <1>3, <1>4, <1>5 DEF Basis, CacheInv, Kept, InodeTypeOK
<1>7. Placed'
  <2>1. \A d \in Entry : ref[d] > 0 => inum[d] \in Inum
    BY DEF Basis, CacheInv, Kept, Placed
  <2> QED
    BY <1>1, <1>2, <1>3, <2>1, PlacedFollows
<1>8. InodeRefsCounted' /\ UsesOpen'
  BY <1>2, <1>3, CountsFollow, UsesFollow DEF Cites, Counting
<1>9. \A q \in Procs : at'[q] \in {"in", "free", "erase"} => at[q] = at'[q] /\ ent[q] \in Entry \ {e}
  <2> SUFFICES ASSUME NEW q \in Procs, at'[q] \in {"in", "free", "erase"} PROVE at[q] = at'[q] /\ ent[q] \in Entry \ {e}
    OBVIOUS
  <2>1. q # p /\ at[q] = at'[q] /\ ent[q] \in Entry
    BY <1>3, UserKnows DEF OthersStay, Counting
  <2>2. CASE at[q] \in {"in", "erase"}
    BY <1>2, <2>1, <2>2, HolderIs DEF Inside
  <2>3. CASE at[q] = "free"
    BY <1>1, <1>2, <2>1, <2>3, CitedCounts DEF Counting, Basis, CacheInv, Kept, Contents, LastReference
  <2> QED
    BY <2>1, <2>2, <2>3
<1>10. HasRead' /\ LastReference'
  BY <1>2, <1>4, <1>9 DEF Basis, CacheInv, Kept, Contents, HasRead, LastReference
<1>11. \A q \in Procs : /\ at'[q] \in Owning => at[q] \in Owning
                        /\ at'[q] = "get" => at[q] = "get"
                        /\ at[q] = "unlock" /\ q # p => at'[q] = "unlock"
  BY <1>3 DEF OthersStay, Owning
<1>12. InUse'
  BY <1>2, <1>11 DEF Basis, CacheInv, Kept, Contents, InUse
<1>13. Shown'
  BY <1>1, <1>2, <1>4, <1>11 DEF Basis, CacheInv, Kept, Contents, Shown
<1>14. SoleUser'
  BY <1>2, <1>11 DEF Basis, CacheInv, Kept, Contents, SoleUser
<1> QED
  BY <1>5, <1>6, <1>7, <1>8, <1>10, <1>12, <1>13, <1>14 DEF Kept, Contents

-----------------------------------------------------------------------------
(***************************************************************************)
(* The invariant, and what it shows                                        *)
(***************************************************************************)

LEMMA InitCacheInv == ASSUME IsFiniteSet(Procs), Init PROVE CacheInv
<1>1. /\ \A p \in Procs : at[p] = "none" /\ num[p] = 0 /\ ent[p] = NoEntry
      /\ \A f \in File : file[f].type = "none"
      /\ \A e \in Entry : inum[e] = 0 /\ ref[e] = 0 /\ copy[e] = NotRead /\ holder[e] = Nobody
  BY DEF Init, InodeInit, Blank
<1>2. InodeTypeOK
  <2>1. /\ [FreshDinode EXCEPT !.nlink = 1] \in Dinode
        /\ [FreshDinode EXCEPT !.used = FALSE] \in Dinode
    <3>1. FreshDinode \in Dinode
      BY InodeAssumption DEF FreshDinode, Dinode
    <3>2. ASSUME NEW x \in Dinode PROVE [x EXCEPT !.nlink = 1] \in Dinode
      BY DEF Dinode
    <3>3. ASSUME NEW x \in Dinode PROVE [x EXCEPT !.used = FALSE] \in Dinode
      BY DEF Dinode
    <3> QED
      BY <3>1, <3>2, <3>3
  <2> QED
    BY <2>1 DEF Init, InodeInit, InodeTypeOK, Stage
<1>3. Placed /\ Locking /\ UsesOpen
  BY <1>1 DEF Placed, Locking, UsesOpen, Counting, Inside
<1>4. InodeRefsCounted
  <2> SUFFICES ASSUME NEW e \in Entry PROVE ref[e] = RefsTo(e)
    BY DEF InodeRefsCounted
  <2>1. FilesOf(e) = {} /\ UsersOfEntry(e) = {}
    BY <1>1 DEF FilesOf, UsersOfEntry, Counting
  <2>2. Cardinality({}) = 0
    BY FS_EmptySet, Zenon
  <2> QED
    BY <1>1, <2>1, <2>2 DEF RefsTo
<1>5. Contents
  BY <1>1 DEF Contents, HasRead, LastReference, InUse, Shown, SoleUser, Owning
<1>6. OneEntry
  BY <1>1 DEF OneEntry
<1> QED
  BY <1>2, <1>3, <1>4, <1>5, <1>6 DEF CacheInv, Kept

LEMMA StepKept == ASSUME Basis, [Next]_vars PROVE Kept'
<1>1. CASE UNCHANGED vars
  BY <1>1, FilesOnly DEF vars, fileVars
<1>2. ASSUME NEW p \in Procs, NEW f \in File,
             \/ Close(p, f) \/ (\E q \in Procs : Dup(p, q, f))
             \/ PipeTakesFirst(p, f) \/ PipeTakesSecond(p, f) \/ OpenEnds(p, f) \/ UseInode(p, f)
      PROVE  Kept'
  BY <1>2, CloseKeepsInodes, DupKeepsInodes, PipeFilesKeep, OpenEndsKeepsInodes, UseInodeKeeps
<1>3. ASSUME NEW p \in Procs, PipeTakesPage(p) \/ PipeFails(p) \/ PipeClose(p) PROVE Kept'
  BY <1>3, PipeFilesKeep
<1>4. ASSUME NEW p \in Procs, OpenNew(p) PROVE Kept'
  BY <1>4, AllocKeeps DEF OpenNew, fileVars
<1>5. ASSUME NEW p \in Procs, OpenFails(p) PROVE Kept'
  BY <1>5, ToPutKeeps DEF OpenFails, fileVars
<1>6. ASSUME NEW p \in Procs, NEW i \in Inum, OpenByName(p, i) PROVE Kept'
  BY <1>6, LookupKeeps DEF OpenByName, fileVars
<1>7. ASSUME NEW p \in Procs, InodeStep(p), UNCHANGED fileVars PROVE Kept'
  <2>1. UNCHANGED <<file, held>>
    BY <1>7 DEF fileVars
  <2>2. CASE AllocPasses(p) \/ AllocTakes(p) \/ GetFull(p)
    BY <2>1, <2>2, AllocKeeps, AllocTakesKeeps, FullKeeps
  <2>3. ASSUME NEW e \in Entry, GetHit(p, e) \/ GetRecycles(p, e) PROVE Kept'
    BY <2>1, <2>3, GetHitKeepsInodes, GetRecyclesKeepsInodes
  <2>4. CASE Load(p) \/ (\E size \in 1 .. MaxSize : WriteInode(p, size)) \/ Unlock(p)
    BY <2>1, <2>4, LoadKeeps, WriteInodeKeeps, UnlockKeeps
  <2>5. CASE PutFrees(p)
    BY <2>1, <2>5, ToPutKeeps DEF PutFrees
  <2>6. CASE Put(p) \/ PutDrops(p) \/ PutLocks(p) \/ PutErases(p) \/ PutUnlocks(p)
    BY <2>1, <2>6, DropKeepsInodes, PutLocksKeeps, PutErasesKeeps, PutUnlocksKeeps
  <2> QED
    BY <1>7, <2>2, <2>3, <2>4, <2>5, <2>6 DEF InodeStep
<1> QED
  BY <1>1, <1>2, <1>3, <1>4, <1>5, <1>6, <1>7 DEF Next

\* The entries of inodes, their open files and the operations on them.
FilesInv == TableInv /\ CacheInv

LEMMA FilesInvariance == ASSUME IsFiniteSet(Procs) PROVE Spec => []FilesInv
<1>1. Init => FilesInv
  BY InitTableInv, InitCacheInv DEF FilesInv
<1>2. FilesInv /\ [Next]_vars => FilesInv'
  <2> SUFFICES ASSUME FilesInv, [Next]_vars PROVE FilesInv'
    OBVIOUS
  <2>1. Basis
    BY DEF FilesInv, Basis
  <2>2. TableInv' /\ Kept'
    BY <2>1, StepTableInv, StepKept DEF Basis
  <2>3. IInv
    BY <2>1, InodeAssumption DEF Basis, CacheInv, Kept, InodeTypeOK, IInv, EntriesTyped, Inum
  <2>4. OneEntry'
    BY <2>3, NextIInv DEF IInv
  <2> QED
    BY <2>2, <2>4 DEF FilesInv, CacheInv
<1> QED
  BY <1>1, <1>2, PTL DEF Spec

\* Every variable keeps its type, and so no count of references becomes
\* negative (file_close, inode_put).
THEOREM TypesKept == ASSUME IsFiniteSet(Procs) PROVE Spec => []TypeOK
<1>1. FilesInv => TypeOK
  BY DEF FilesInv, TableInv, TableTypes, CacheInv, Kept, TypeOK
<1> QED
  BY <1>1, FilesInvariance, PTL

\* The count of an open file is the number of descriptors of it, that of an
\* inode the number of its open files and of the calls that pass it on, at any
\* moment of any interleaving (file_dup, file_close, inode_get, inode_put).
THEOREM CountsAreExact == ASSUME IsFiniteSet(Procs) PROVE Spec => []CountsExact
<1>1. FilesInv => CountsExact
  BY DEF FilesInv, TableInv, Refs, CacheInv, Kept, CountsExact
<1> QED
  BY <1>1, FilesInvariance, PTL

\* No inode is freed on disk while a file is open on it, although inode_put
\* frees it after it has let go of icache.lock.
THEOREM OpenInodesAllocated == ASSUME IsFiniteSet(Procs) PROVE Spec => []OpenInodeAllocated
<1>1. FilesInv => OpenInodeAllocated
  BY DEF FilesInv, CacheInv, Kept, Contents, InUse, OpenInodeAllocated
<1> QED
  BY <1>1, FilesInvariance, PTL

\* A copy that inode_lock would find valid is what the disk holds: inode_alloc
\* changes no inode behind one, and inode_put leaves none behind.
THEOREM CopiesCurrent == ASSUME IsFiniteSet(Procs) PROVE Spec => []CopyCurrent
<1>1. ASSUME FilesInv PROVE CopyCurrent
  <2> SUFFICES ASSUME NEW e \in Entry, ref[e] > 0, copy[e] # NotRead, holder[e] = Nobody
               PROVE  copy[e] = dinode[inum[e]]
    BY DEF CopyCurrent
  <2>1. \A p \in Procs : at[p] = "unlock" => holder[ent[p]] # Nobody
    BY <1>1, InodeAssumption DEF FilesInv, CacheInv, Kept, Locking, Inside
  <2> QED
    BY <1>1, <2>1 DEF FilesInv, CacheInv, Kept, Contents, Shown
<1> QED
  BY <1>1, FilesInvariance, PTL

=============================================================================
