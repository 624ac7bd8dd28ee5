----------------------------- MODULE ProcProofs -----------------------------
(***************************************************************************)
(* Proofs about the process table, for every table size, memory size and   *)
(* scheduling mode; and, from the second half on, about the page tables,   *)
(* which draw on the same pages, for every shape of the tables.            *)
(***************************************************************************)
EXTENDS Proc, Paging, TLAPS, FiniteSetTheorems

(***************************************************************************)
(* Facts about the page allocator                                          *)
(***************************************************************************)

\* physmem_alloc_page hands out a free page, or none.
LEMMA AllocPageFree ==
    ASSUME NEW S \in SUBSET Page
    PROVE  AllocPage(S) \in S \cup {NoPage}
BY DEF AllocPage, IsFirstFree

\* NoPage, the address 0, is not a page.
LEMMA NoPageIsNoPage == NoPage \notin Page
BY NumPagesAssumption DEF NoPage, Page

\* The pages fork and proc_init obtain are free pages, pairwise distinct, and
\* none is missing once the last one was obtained.
LEMMA BuiltPages ==
    ASSUME NEW S \in SUBSET Page
    PROVE  /\ Built(S) \in [Resource -> S \cup {NoPage}]
           /\ \A r, z \in Resource :
                 r # z /\ Built(S)[r] # NoPage => Built(S)[r] # Built(S)[z]
           /\ Complete(Built(S)) => NoPage \notin PagesOf(Built(S))
<1> DEFINE k == AllocPage(S)
           t == AllocPage(S \ {k})
           g == AllocPage(S \ {k, t})
<1>1. k \in S \cup {NoPage}
  BY AllocPageFree
<1>2. t \in (S \ {k}) \cup {NoPage}
  BY AllocPageFree, S \ {k} \in SUBSET Page
<1>3. g \in (S \ {k, t}) \cup {NoPage}
  BY AllocPageFree, S \ {k, t} \in SUBSET Page
<1>4. NoPage \notin S
  BY NoPageIsNoPage
<1>5. k = NoPage => t = NoPage
  <2> SUFFICES ASSUME k = NoPage PROVE t = k
    OBVIOUS
  <2>1. S \ {k} = S
    BY <1>4
  <2> QED
    BY <2>1
<1>6. t = NoPage => g = NoPage
  <2> SUFFICES ASSUME t = NoPage PROVE g = t
    OBVIOUS
  <2>1. S \ {k, t} = S \ {k}
    BY <1>4
  <2> QED
    BY <2>1
<1>7. /\ Built(S) = [r \in Resource |-> Built(S)[r]]
      /\ Built(S)["kstack"] = k
      /\ Built(S)["trapframe"] = t
      /\ Built(S)["pagetable"] = g
  BY DEF Built, Resource
<1> HIDE DEF k, t, g
<1>8. Built(S) \in [Resource -> S \cup {NoPage}]
  BY <1>1, <1>2, <1>3, <1>7 DEF Resource
<1>9. \A r, z \in Resource :
         r # z /\ Built(S)[r] # NoPage => Built(S)[r] # Built(S)[z]
  BY <1>1, <1>2, <1>3, <1>4, <1>5, <1>6, <1>7 DEF Resource
<1>10. Complete(Built(S)) => NoPage \notin PagesOf(Built(S))
  BY <1>5, <1>6, <1>7 DEF Complete, PagesOf, Resource
<1> QED
  BY <1>8, <1>9, <1>10

-----------------------------------------------------------------------------
(***************************************************************************)
(* The inductive invariant                                                 *)
(***************************************************************************)

\* Code of the table's callers is run only for a process that is RUNNING, or
\* for init while kernel_main still runs on its behalf; so a caller is never
\* the zombie that its own wait() collects.
RunnerIsAlive ==
    cpu = "run" /\ current # NoSlot => state[current] \in {"RUNNING", "RUNNABLE"}

IInv ==
    /\ TypeOK
    /\ PageAccounting
    /\ DispatchableIsComplete
    /\ CurrentIsLive
    /\ RunnerIsAlive

\* NULL is not a slot of the table.
LEMMA NoSlotIsNoSlot == NoSlot \notin Slot
BY NprocAssumption DEF NoSlot, Slot

\* Pages granted to a slot that owns none, out of the free ones, keep the
\* accounts right (fork's success path).
LEMMA GrantPages ==
    ASSUME TypeOK, PageAccounting,
           NEW s \in Slot, Owned(s) = {},
           NEW B \in [Resource -> free \cup {NoPage}],
           \A r, z \in Resource : r # z /\ B[r] # NoPage => B[r] # B[z],
           page' = [page EXCEPT ![s] = B],
           free' = free \ PagesOf(B),
           reserved' = reserved
    PROVE  PageAccounting'
<1>1. /\ page'[s] = B
      /\ \A q \in Slot : q # s => page'[q] = page[q]
  BY DEF TypeOK
<1>2. /\ Owned(s)' = PagesOf(B) \ {NoPage}
      /\ \A q \in Slot : q # s => Owned(q)' = Owned(q)
  BY <1>1 DEF Owned, PagesOf
<1>3. PagesOf(B) \ {NoPage} \subseteq free
  BY DEF PagesOf
<1>4. \A p \in Page : p \in (reserved \cup free)' \/ \E q \in Slot : p \in Owned(q)'
  <2> SUFFICES ASSUME NEW p \in Page
               PROVE  p \in (reserved \cup free)' \/ \E q \in Slot : p \in Owned(q)'
    OBVIOUS
  <2>1. CASE p \in reserved
    BY <2>1
  <2>2. CASE p \in free /\ p \notin PagesOf(B)
    BY <2>2
  <2>3. CASE p \in free /\ p \in PagesOf(B)
    BY <1>2, <2>3, NoPageIsNoPage
  <2>4. CASE \E q \in Slot : p \in Owned(q)
    BY <1>2, <2>4
  <2> QED
    BY <2>1, <2>2, <2>3, <2>4 DEF PageAccounting
<1>5. \A q \in Slot : Owned(q)' \cap (reserved \cup free)' = {}
  BY <1>2, <1>3 DEF PageAccounting
<1>6. \A q, z \in Slot : q # z => Owned(q)' \cap Owned(z)' = {}
  BY <1>2, <1>3 DEF PageAccounting
<1>7. \A q \in Slot : \A r, z \in Resource :
         r # z /\ page'[q][r] # NoPage => page'[q][r] # page'[q][z]
  BY <1>1 DEF PageAccounting
<1>8. (reserved \cap free)' = {}
  BY DEF PageAccounting
<1> QED
  BY <1>4, <1>5, <1>6, <1>7, <1>8 DEF PageAccounting

\* Pages given back by free_proc keep the accounts right (wait).
LEMMA ReturnPages ==
    ASSUME TypeOK, PageAccounting,
           NEW s \in Slot,
           page' = [page EXCEPT ![s] = NoPages],
           free' = FreePages(free, ReleasedBy(page[s])),
           reserved' = reserved
    PROVE  PageAccounting' /\ free' \in SUBSET Page
<1>1. /\ page'[s] = NoPages
      /\ \A q \in Slot : q # s => page'[q] = page[q]
  BY DEF TypeOK
<1>2. /\ Owned(s)' = {}
      /\ \A q \in Slot : q # s => Owned(q)' = Owned(q)
  BY <1>1 DEF Owned, PagesOf, NoPages
<1>3. free' = free \cup Owned(s)
  BY NoPageIsNoPage DEF FreePages, ReleasedBy, Owned, PagesOf, TypeOK
<1>4. \A p \in Page : p \in (reserved \cup free)' \/ \E q \in Slot : p \in Owned(q)'
  BY <1>2, <1>3 DEF PageAccounting
<1>5. \A q \in Slot : Owned(q)' \cap (reserved \cup free)' = {}
  BY <1>2, <1>3 DEF PageAccounting
<1>6. \A q, z \in Slot : q # z => Owned(q)' \cap Owned(z)' = {}
  BY <1>2 DEF PageAccounting
<1>7. \A q \in Slot : \A r, z \in Resource :
         r # z /\ page'[q][r] # NoPage => page'[q][r] # page'[q][z]
  BY <1>1 DEF PageAccounting, NoPages
<1>8. (reserved \cap free)' = {}
  BY <1>3 DEF PageAccounting
<1>9. free' \in SUBSET Page
  BY DEF FreePages, TypeOK
<1> QED
  BY <1>4, <1>5, <1>6, <1>7, <1>8, <1>9 DEF PageAccounting

\* A fork that runs out of memory leaves the slot without pages and every
\* page where it was (fork's error paths).
LEMMA ForkErrorPages ==
    ASSUME TypeOK, NEW s \in Slot, Owned(s) = {},
           page' = [page EXCEPT ![s] = NoPages],
           free' = FreePages(free \ PagesOf(Built(free)), ReleasedBy(Built(free)))
    PROVE  page' = page /\ free' = free
<1>1. page[s] = NoPages
  <2>1. \A r \in Resource : page[s][r] = NoPage
    BY DEF Owned, PagesOf
  <2>2. page[s] \in [Resource -> Page \cup {NoPage}]
    BY DEF TypeOK
  <2> QED
    BY <2>1, <2>2 DEF NoPages
<1>2. page' = page
  BY <1>1 DEF TypeOK
<1>3. PagesOf(Built(free)) \subseteq free \cup {NoPage}
  BY BuiltPages DEF PagesOf, TypeOK
<1>4. free' = free
  BY <1>3, NoPageIsNoPage DEF FreePages, ReleasedBy, TypeOK
<1> QED
  BY <1>2, <1>4

-----------------------------------------------------------------------------
(***************************************************************************)
(* The initial states satisfy the invariant                                *)
(***************************************************************************)

\* proc_init leaves a sound table whether or not it finds three pages.
LEMMA InitIInv == Init => IInv
<1> SUFFICES ASSUME Init PROVE IInv
  OBVIOUS
<1> DEFINE avail == Page \ reserved
           B == Built(avail)
<1>1. reserved \in SUBSET Page /\ avail \in SUBSET Page
  BY DEF Init, InUseAtBoot
<1>2. /\ B \in [Resource -> avail \cup {NoPage}]
      /\ \A r, z \in Resource : r # z /\ B[r] # NoPage => B[r] # B[z]
      /\ Complete(B) => NoPage \notin PagesOf(B)
  BY <1>1, BuiltPages
<1>3. 0 \in Slot
  BY NprocAssumption DEF Slot
<1>4. /\ page = [s \in Slot |-> IF s = 0 THEN B ELSE NoPages]
      /\ free = avail \ PagesOf(B)
      /\ state = [s \in Slot |-> IF s # 0 THEN "UNUSED"
                                 ELSE IF Complete(B) THEN "RUNNABLE" ELSE "USED"]
      /\ current = IF Complete(B) THEN 0 ELSE NoSlot
      /\ pid = [s \in Slot |-> IF s = 0 THEN 1 ELSE 0]
      /\ parent = [s \in Slot |-> NoSlot]
      /\ next_pid = 2 /\ current_index = 0 /\ cpu = "run" /\ ret = "none"
  BY DEF Init
<1> HIDE DEF B, avail
<1>5. TypeOK
  <2>1. page \in [Slot -> [Resource -> Page \cup {NoPage}]]
    <3>1. B \in [Resource -> Page \cup {NoPage}]
      BY <1>1, <1>2
    <3>2. NoPages \in [Resource -> Page \cup {NoPage}]
      BY DEF NoPages
    <3> QED
      BY <1>4, <3>1, <3>2
  <2>2. free \in SUBSET Page
    BY <1>1, <1>4
  <2> QED
    BY <1>1, <1>3, <1>4, <2>1, <2>2 DEF TypeOK, ProcState, CpuMode
<1>6. /\ Owned(0) = PagesOf(B) \ {NoPage}
      /\ \A s \in Slot : s # 0 => Owned(s) = {}
  BY <1>3, <1>4 DEF Owned, PagesOf, NoPages
<1>7. PageAccounting
  <2>1. PagesOf(B) \ {NoPage} \subseteq avail
    BY <1>2 DEF PagesOf
  <2>2. \A p \in Page : p \in reserved \cup free \/ \E s \in Slot : p \in Owned(s)
    <3> SUFFICES ASSUME NEW p \in Page, p \notin reserved \cup free
                 PROVE  p \in Owned(0)
      BY <1>3
    <3>1. p \in avail
      BY DEF avail
    <3> QED
      BY <1>4, <1>6, <3>1, NoPageIsNoPage
  <2>3. reserved \cap free = {}
    BY <1>4 DEF avail
  <2>4. \A s \in Slot : Owned(s) \cap (reserved \cup free) = {}
    BY <1>4, <1>6, <2>1 DEF avail
  <2>5. \A s, q \in Slot : s # q => Owned(s) \cap Owned(q) = {}
    BY <1>6
  <2>6. \A s \in Slot : \A r, z \in Resource :
           r # z /\ page[s][r] # NoPage => page[s][r] # page[s][z]
    BY <1>2, <1>4 DEF NoPages
  <2> QED
    BY <2>2, <2>3, <2>4, <2>5, <2>6 DEF PageAccounting
<1>8. DispatchableIsComplete
  BY <1>2, <1>3, <1>4, <1>6 DEF DispatchableIsComplete
<1>9. CurrentIsLive /\ RunnerIsAlive
  BY <1>3, <1>4 DEF CurrentIsLive, RunnerIsAlive
<1> QED
  BY <1>5, <1>7, <1>8, <1>9 DEF IInv

-----------------------------------------------------------------------------
(***************************************************************************)
(* Every step preserves the invariant                                      *)
(***************************************************************************)

\* A step that leaves the pages alone keeps the accounts.
LEMMA SamePages ==
    ASSUME PageAccounting, UNCHANGED memory
    PROVE  PageAccounting'
BY DEF PageAccounting, memory, Owned, PagesOf

\* The step of fork that succeeds.
LEMMA ForkSucceedsStep == IInv /\ ForkSucceeds => IInv'
<1> SUFFICES ASSUME IInv, ForkSucceeds PROVE IInv'
  OBVIOUS
<1> DEFINE B == Built(free)
<1>0. /\ B \in [Resource -> free \cup {NoPage}]
      /\ \A r, z \in Resource : r # z /\ B[r] # NoPage => B[r] # B[z]
      /\ NoPage \notin PagesOf(B)
  BY BuiltPages DEF IInv, TypeOK, ForkSucceeds
<1>1. PICK s \in Slot :
         /\ TakeSlot(s)
         /\ page' = [page EXCEPT ![s] = B]
         /\ free' = free \ PagesOf(B)
         /\ state' = [state EXCEPT ![s] = "RUNNABLE"]
  BY DEF ForkSucceeds
<1> HIDE DEF B
<1>2. state[s] = "UNUSED" /\ Owned(s) = {} /\ s # current
  BY <1>1, NoSlotIsNoSlot
     DEF TakeSlot, IsFirstUnused, IInv, DispatchableIsComplete, CurrentIsLive
<1>3. UNCHANGED <<reserved, current, current_index, cpu>> /\ ret' = "ok"
  BY DEF ForkSucceeds
<1>4. PageAccounting'
  BY <1>0, <1>1, <1>2, <1>3, GrantPages DEF IInv
<1>5. TypeOK'
  <2>1. page' \in [Slot -> [Resource -> Page \cup {NoPage}]]
    BY <1>0, <1>1 DEF IInv, TypeOK
  <2>2. free' \in SUBSET Page
    BY <1>1 DEF IInv, TypeOK
  <2>3. pid' \in [Slot -> Nat] /\ next_pid' \in Nat \ {0}
    BY <1>1 DEF TakeSlot, IInv, TypeOK
  <2>4. parent' \in [Slot -> Slot \cup {NoSlot}] /\ state' \in [Slot -> ProcState]
    BY <1>1 DEF TakeSlot, IInv, TypeOK, ProcState
  <2> QED
    BY <1>3, <2>1, <2>2, <2>3, <2>4 DEF IInv, TypeOK
<1>6. DispatchableIsComplete'
  <2> SUFFICES ASSUME NEW q \in Slot
               PROVE  /\ state'[q] \in {"RUNNABLE", "RUNNING", "SLEEPING", "ZOMBIE"}
                            => NoPage \notin PagesOf(page[q])'
                      /\ state'[q] = "UNUSED" => Owned(q)' = {}
    BY DEF DispatchableIsComplete
  <2>1. CASE q = s
    BY <1>0, <1>1, <2>1 DEF IInv, TypeOK, PagesOf
  <2>2. CASE q # s
    <3>1. page'[q] = page[q] /\ state'[q] = state[q]
      BY <1>1, <2>2 DEF IInv, TypeOK
    <3> QED
      BY <3>1 DEF IInv, DispatchableIsComplete, Owned, PagesOf
  <2> QED
    BY <2>1, <2>2
<1>7. CurrentIsLive' /\ RunnerIsAlive'
  BY <1>1, <1>2, <1>3
     DEF IInv, TypeOK, CurrentIsLive, RunnerIsAlive
<1> QED
  BY <1>4, <1>5, <1>6, <1>7 DEF IInv

\* The step of fork that runs out of memory.
LEMMA ForkOutOfMemoryStep == IInv /\ ForkOutOfMemory => IInv'
<1> SUFFICES ASSUME IInv, ForkOutOfMemory PROVE IInv'
  OBVIOUS
<1>1. PICK s \in Slot :
         /\ TakeSlot(s)
         /\ page' = [page EXCEPT ![s] = NoPages]
         /\ free' = FreePages(free \ PagesOf(Built(free)), ReleasedBy(Built(free)))
         /\ state' = [state EXCEPT ![s] = "UNUSED"]
  BY DEF ForkOutOfMemory
<1>2. state[s] = "UNUSED" /\ Owned(s) = {}
  BY <1>1 DEF TakeSlot, IsFirstUnused, IInv, DispatchableIsComplete
<1>3. page' = page /\ free' = free
  BY <1>1, <1>2, ForkErrorPages DEF IInv
<1>4. state' = state
  BY <1>1, <1>2 DEF IInv, TypeOK
<1>5. UNCHANGED <<reserved, current, current_index, cpu>> /\ ret' = "fail"
  BY DEF ForkOutOfMemory
<1>6. PageAccounting'
  BY <1>3, <1>5, SamePages DEF IInv, memory
<1>7. TypeOK'
  <2>1. pid' \in [Slot -> Nat] /\ next_pid' \in Nat \ {0}
    BY <1>1 DEF TakeSlot, IInv, TypeOK
  <2>2. parent' \in [Slot -> Slot \cup {NoSlot}]
    BY <1>1 DEF TakeSlot, IInv, TypeOK
  <2> QED
    BY <1>3, <1>4, <1>5, <2>1, <2>2 DEF IInv, TypeOK
<1>8. DispatchableIsComplete'
  BY <1>3, <1>4 DEF IInv, DispatchableIsComplete, Owned, PagesOf
<1>9. CurrentIsLive' /\ RunnerIsAlive'
  BY <1>4, <1>5 DEF IInv, CurrentIsLive, RunnerIsAlive
<1> QED
  BY <1>6, <1>7, <1>8, <1>9 DEF IInv

\* The step of wait that collects a child.
LEMMA WaitReapsStep == IInv /\ WaitReaps => IInv'
<1> SUFFICES ASSUME IInv, WaitReaps PROVE IInv'
  OBVIOUS
<1>1. PICK s \in Slot :
         /\ IsDeadChild(s)
         /\ free' = FreePages(free, ReleasedBy(page[s]))
         /\ page' = [page EXCEPT ![s] = NoPages]
         /\ state' = [state EXCEPT ![s] = "UNUSED"]
  BY DEF WaitReaps
<1>2. /\ UNCHANGED <<names, reserved, current, current_index, cpu>>
      /\ ret' = "ok" /\ cpu = "run"
  BY DEF WaitReaps
<1>3. s # current
  BY <1>1, <1>2, NoSlotIsNoSlot DEF IsDeadChild, IInv, RunnerIsAlive
<1>4. PageAccounting' /\ free' \in SUBSET Page
  BY <1>1, <1>2, ReturnPages DEF IInv
<1>5. TypeOK'
  <2>1. page' \in [Slot -> [Resource -> Page \cup {NoPage}]]
    BY <1>1 DEF IInv, TypeOK, NoPages
  <2>2. state' \in [Slot -> ProcState]
    BY <1>1 DEF IInv, TypeOK, ProcState
  <2> QED
    BY <1>2, <1>4, <2>1, <2>2 DEF IInv, TypeOK, names
<1>6. DispatchableIsComplete'
  <2> SUFFICES ASSUME NEW q \in Slot
               PROVE  /\ state'[q] \in {"RUNNABLE", "RUNNING", "SLEEPING", "ZOMBIE"}
                            => NoPage \notin PagesOf(page[q])'
                      /\ state'[q] = "UNUSED" => Owned(q)' = {}
    BY DEF DispatchableIsComplete
  <2>1. CASE q = s
    <3>1. page'[q] = NoPages /\ state'[q] = "UNUSED"
      BY <1>1, <2>1 DEF IInv, TypeOK
    <3> QED
      BY <3>1 DEF Owned, PagesOf, NoPages
  <2>2. CASE q # s
    <3>1. page'[q] = page[q] /\ state'[q] = state[q]
      BY <1>1, <2>2 DEF IInv, TypeOK
    <3> QED
      BY <3>1 DEF IInv, DispatchableIsComplete, Owned, PagesOf
  <2> QED
    BY <2>1, <2>2
<1>7. CurrentIsLive' /\ RunnerIsAlive'
  BY <1>1, <1>2, <1>3, NoSlotIsNoSlot
     DEF IInv, TypeOK, CurrentIsLive, RunnerIsAlive
<1> QED
  BY <1>4, <1>5, <1>6, <1>7 DEF IInv

\* The states in which a process holds all its pages.
Complete4 == {"RUNNABLE", "RUNNING", "SLEEPING", "ZOMBIE"}

\* A step that touches no page and moves processes only among the states in
\* which they are complete.
LEMMA StatesOnly ==
    ASSUME IInv, UNCHANGED <<names, memory>>,
           state' \in [Slot -> ProcState],
           \A q \in Slot : \/ state'[q] = state[q]
                           \/ state[q] \in Complete4 /\ state'[q] \in Complete4,
           current' \in Slot \cup {NoSlot}, current_index' \in Slot,
           cpu' \in CpuMode, ret' \in {"none", "ok", "fail"}
    PROVE  TypeOK' /\ PageAccounting' /\ DispatchableIsComplete'
<1>1. TypeOK'
  BY DEF IInv, TypeOK, names, memory
<1>2. PageAccounting'
  BY SamePages DEF IInv, memory
<1>3. DispatchableIsComplete'
  BY DEF IInv, DispatchableIsComplete, Complete4, memory, Owned, PagesOf
<1> QED
  BY <1>1, <1>2, <1>3

\* wakeup, exit and sleep.
LEMMA CallSteps == IInv /\ (Wakeup \/ Exit \/ Sleep) => IInv'
<1> SUFFICES ASSUME IInv, Wakeup \/ Exit \/ Sleep PROVE IInv'
  OBVIOUS
<1>1. /\ UNCHANGED <<names, memory, current, current_index>>
      /\ ret' = "none" /\ cpu' \in CpuMode
      /\ current \in Slot /\ state[current] = "RUNNING"
  BY DEF Wakeup, Exit, Sleep, Dispatched, Calling, IInv, TypeOK, CpuMode
<1>2. /\ state' \in [Slot -> ProcState]
      /\ \A q \in Slot : \/ state'[q] = state[q]
                         \/ state[q] \in Complete4 /\ state'[q] \in Complete4
      /\ \A q \in Slot : state'[q] = "RUNNING" => state[q] = "RUNNING"
      /\ ~ Wakeup => state'[current] # "RUNNING" /\ cpu' # "run"
      /\ Wakeup => state'[current] = "RUNNING" /\ cpu' = cpu
  <2>1. CASE Wakeup
    <3>1. state \in [Slot -> ProcState] /\ state' = Woken(state) /\ cpu' = cpu
      BY <2>1 DEF Wakeup, IInv, TypeOK
    <3> QED
      BY <1>1, <2>1, <3>1 DEF Woken, Complete4, ProcState
  <2>2. CASE Exit
    <3> DEFINE dead == [state EXCEPT ![current] = "ZOMBIE"]
    <3>1. state \in [Slot -> ProcState] /\ dead \in [Slot -> ProcState]
      BY DEF IInv, TypeOK, ProcState
    <3>2. state' = Woken(dead) \/ state' = dead
      BY <2>2 DEF Exit
    <3>3. cpu' \in {"halt", "wfi"} /\ ~ Wakeup
      BY <1>1, <2>2 DEF Exit, Wakeup, Dispatched, Calling
    <3> QED
      BY <1>1, <3>1, <3>2, <3>3 DEF Woken, Complete4, ProcState
  <2>3. CASE Sleep
    <3>1. state \in [Slot -> ProcState] /\ state' = [state EXCEPT ![current] = "SLEEPING"]
      BY <2>3 DEF Sleep, IInv, TypeOK
    <3>2. cpu' = "sched" /\ ~ Wakeup
      BY <2>3 DEF Sleep, Wakeup, Dispatched, Calling
    <3> QED
      BY <1>1, <3>1, <3>2 DEF Complete4, ProcState
  <2> QED
    BY <2>1, <2>2, <2>3
<1>3. TypeOK' /\ PageAccounting' /\ DispatchableIsComplete'
  BY <1>1, <1>2, StatesOnly DEF IInv, TypeOK
<1>4. CurrentIsLive'
  BY <1>1, <1>2 DEF CurrentIsLive, Complete4
<1>5. RunnerIsAlive'
  BY <1>1, <1>2 DEF IInv, RunnerIsAlive
<1> QED
  BY <1>3, <1>4, <1>5 DEF IInv

\* yield, called or forced by the timer.
LEMMA YieldSteps == IInv /\ (Yield \/ Timer) => IInv'
<1> SUFFICES ASSUME IInv, Yield \/ Timer PROVE IInv'
  OBVIOUS
<1>1. /\ UNCHANGED <<names, memory, current, current_index>>
      /\ state' = AfterYield /\ ret' = "none" /\ cpu' = "sched"
  BY DEF Yield, Timer
<1>2. /\ state' \in [Slot -> ProcState]
      /\ \A q \in Slot : \/ state'[q] = state[q]
                         \/ state[q] \in Complete4 /\ state'[q] \in Complete4
      /\ \A q \in Slot : state'[q] = "RUNNING" => state[q] = "RUNNING"
      /\ current # NoSlot => state'[current] # "RUNNING"
  BY <1>1 DEF AfterYield, Complete4, ProcState, IInv, TypeOK
<1>3. TypeOK' /\ PageAccounting' /\ DispatchableIsComplete'
  BY <1>1, <1>2, StatesOnly DEF IInv, TypeOK, CpuMode
<1>4. CurrentIsLive' /\ RunnerIsAlive'
  BY <1>1, <1>2 DEF IInv, TypeOK, CurrentIsLive, RunnerIsAlive, Complete4
<1> QED
  BY <1>3, <1>4 DEF IInv

\* The scheduler's loop.
LEMMA SchedulerSteps == IInv /\ Scheduler => IInv'
<1> SUFFICES ASSUME IInv, Scheduler PROVE IInv'
  OBVIOUS
<1>1. current_index \in Slot /\ NextIndex \in Slot
  BY NprocAssumption DEF IInv, TypeOK, NextIndex, Slot
<1>2. CASE Skip
  <2>1. /\ UNCHANGED <<state, names, memory, current, cpu, ret>>
        /\ current_index' \in Slot
    BY <1>1, <1>2 DEF Skip
  <2>2. TypeOK' /\ PageAccounting' /\ DispatchableIsComplete'
    BY <2>1, StatesOnly DEF IInv, TypeOK
  <2> QED
    BY <2>1, <2>2 DEF IInv, CurrentIsLive, RunnerIsAlive
<1>3. CASE Dispatch
  <2>1. /\ UNCHANGED <<names, memory, ret>>
        /\ current' = current_index /\ current_index' \in Slot
        /\ state[current_index] = "RUNNABLE" /\ cpu = "sched"
        /\ state' = [state EXCEPT ![current_index] = "RUNNING"]
        /\ cpu' \in CpuMode
    BY <1>1, <1>3 DEF Dispatch, CpuMode
  <2>2. /\ state' \in [Slot -> ProcState]
        /\ \A q \in Slot : \/ state'[q] = state[q]
                           \/ state[q] \in Complete4 /\ state'[q] \in Complete4
        /\ state'[current_index] = "RUNNING"
        /\ \A q \in Slot : q # current_index => state'[q] = state[q]
    BY <1>1, <2>1 DEF Complete4, ProcState, IInv, TypeOK
  <2>3. TypeOK' /\ PageAccounting' /\ DispatchableIsComplete'
    BY <1>1, <2>1, <2>2, StatesOnly DEF IInv, TypeOK
  <2>4. CurrentIsLive' /\ RunnerIsAlive'
    BY <2>1, <2>2 DEF CurrentIsLive, RunnerIsAlive
  <2> QED
    BY <2>3, <2>4 DEF IInv
<1> QED
  BY <1>2, <1>3 DEF Scheduler

\* Calls that fail without changing the table.
LEMMA FailedCallSteps == IInv /\ (ForkRefused \/ WaitFails \/ UNCHANGED vars) => IInv'
<1> SUFFICES ASSUME IInv, ForkRefused \/ WaitFails \/ UNCHANGED vars PROVE IInv'
  OBVIOUS
<1>1. /\ UNCHANGED <<state, names, memory, current, current_index, cpu>>
      /\ ret' \in {"none", "ok", "fail"}
  BY DEF ForkRefused, WaitFails, vars, names, memory, IInv, TypeOK
<1>2. TypeOK' /\ PageAccounting' /\ DispatchableIsComplete'
  BY <1>1, StatesOnly DEF IInv, TypeOK
<1> QED
  BY <1>1, <1>2 DEF IInv, CurrentIsLive, RunnerIsAlive

-----------------------------------------------------------------------------
(***************************************************************************)
(* The theorems                                                            *)
(***************************************************************************)

\* The invariant holds in every reachable state (all of fork, exit, wait,
\* sleep, wakeup, yield, the timer and the scheduler).
THEOREM Invariance == Spec => []IInv
<1>1. Init => IInv
  BY InitIInv
<1>2. IInv /\ [Next]_vars => IInv'
  BY ForkSucceedsStep, ForkOutOfMemoryStep, WaitReapsStep, CallSteps,
     YieldSteps, SchedulerSteps, FailedCallSteps DEF Next
<1> QED
  BY <1>1, <1>2, PTL DEF Spec

\* Every field of the table and of the allocator keeps to its values.
THEOREM TypeCorrect == Spec => []TypeOK
<1>1. IInv => TypeOK
  BY DEF IInv
<1> QED
  BY <1>1, Invariance, PTL

\* No page is lost or owned twice, whatever fork, exit and wait do and however
\* memory runs out.
THEOREM PagesAccounted == Spec => []PageAccounting
<1>1. IInv => PageAccounting
  BY DEF IInv
<1> QED
  BY <1>1, Invariance, PTL

\* The scheduler never picks a half-built process (fork's error paths).
THEOREM DispatchableComplete == Spec => []DispatchableIsComplete
<1>1. IInv => DispatchableIsComplete
  BY DEF IInv
<1> QED
  BY <1>1, Invariance, PTL

\* The process on the CPU is never freed under it (wait, free_proc).
THEOREM CurrentLive == Spec => []CurrentIsLive
<1>1. IInv => CurrentIsLive
  BY DEF IInv
<1> QED
  BY <1>1, Invariance, PTL

\* A process that has exited is a zombie until the process in its parent's slot
\* collects it: wakeup, which wakes whoever sleeps, sends none back to the
\* scheduler (exit, wait, wakeup).
THEOREM ZombiesStayDead == Spec => OnlyWaitEndsZombie
<1> DEFINE Step == \A s \in Slot : state[s] = "ZOMBIE" /\ state'[s] # "ZOMBIE" =>
                       state'[s] = "UNUSED" /\ parent[s] = current
<1>1. IInv /\ IInv' /\ [Next]_vars => Step
  <2> SUFFICES ASSUME IInv, [Next]_vars, NEW s \in Slot, state[s] = "ZOMBIE", state'[s] # "ZOMBIE"
               PROVE  state'[s] = "UNUSED" /\ parent[s] = current
    OBVIOUS
  <2>1. state \in [Slot -> ProcState]
    BY DEF IInv, TypeOK
  <2>2. CASE ForkSucceeds \/ ForkOutOfMemory
    BY <2>1, <2>2 DEF ForkSucceeds, ForkOutOfMemory, TakeSlot, IsFirstUnused
  <2>3. CASE WaitReaps
    BY <2>1, <2>3 DEF WaitReaps, IsDeadChild
  <2>4. CASE Wakeup \/ Exit \/ Sleep
    BY <2>1, <2>4 DEF Wakeup, Exit, Sleep, Dispatched, Woken
  <2>5. CASE Yield \/ Timer
    BY <2>1, <2>5 DEF Yield, Timer, AfterYield
  <2>6. CASE Scheduler
    BY <2>1, <2>6 DEF Scheduler, Skip, Dispatch
  <2>7. CASE ForkRefused \/ WaitFails \/ UNCHANGED vars
    BY <2>7 DEF ForkRefused, WaitFails, vars
  <2> QED
    BY <2>2, <2>3, <2>4, <2>5, <2>6, <2>7 DEF Next
<1> QED
  BY <1>1, Invariance, PTL DEF Spec, OnlyWaitEndsZombie

-----------------------------------------------------------------------------
(***************************************************************************)
(* Page tables                                                             *)
(*                                                                         *)
(* The page tables draw on the free pages too.  What leads to their pages  *)
(* is a function from places (a root pointer, an entry of a root, an entry *)
(* of a table below it) to pages.  The operators take the roots r and the  *)
(* memory m as parameters, for the memories within a walk.                 *)
(***************************************************************************)

\* What a place may lead to: a page of the allocator, or none.
Spot == Page \cup {NoPage}

\* Entry i of the table in page g.
EntryOf(m, g, i) == IF g \in Page THEN m[g][i] ELSE NoPage

RootPlace(s)       == <<0, s>>
MiddlePlace(s, i)  == <<1, s, i>>
LastPlace(s, i, j) == <<2, s, i, j>>

Place ==
    {RootPlace(s) : s \in Space} \cup {MiddlePlace(s, i) : s \in Space, i \in Vpn}
      \cup {LastPlace(s, i, j) : s \in Space, i \in Vpn, j \in Vpn}

Root(r, s)           == r[s]
Middle(r, m, s, i)   == EntryOf(m, r[s], i)
Last(r, m, s, i, j)  == EntryOf(m, Middle(r, m, s, i), j)
Maps(r, m, s, i, j, k) == EntryOf(m, Last(r, m, s, i, j), k)

PageAt(r, m) ==
    [x \in Place |-> IF x[1] = 0 THEN Root(r, x[2])
                     ELSE IF x[1] = 1 THEN Middle(r, m, x[2], x[3])
                     ELSE Last(r, m, x[2], x[3], x[4])]

Tables(r, m) == r \in [Space -> Spot] /\ m \in [Page -> [Vpn -> Pte]]

\* Each page that is not in f is at exactly one place, and no page in f is at one.
OnePlaceEach(at, f) ==
    /\ at \in [Place -> Spot] /\ f \in SUBSET Page
    /\ \A x, y \in Place : at[x] = at[y] /\ at[x] # NoPage => x = y
    /\ \A g \in Page : g \in f <=> \A x \in Place : at[x] # g

\* A page is put at an empty place, or taken away.
LEMMA PlaceFilled ==
    ASSUME NEW at, NEW f, OnePlaceEach(at, f), NEW x \in Place, at[x] = NoPage, NEW g \in f,
           NEW to \in [Place -> Pte], to[x] = g, \A y \in Place \ {x} : to[y] = at[y]
    PROVE  OnePlaceEach(to, f \ {g})
<1>1. f \in SUBSET Page /\ g \in Page /\ g # NoPage
  BY NoPageIsNoPage DEF OnePlaceEach
<1>5. to \in [Place -> Spot]
  BY <1>1 DEF OnePlaceEach, Spot
<1>2. \A y \in Place : at[y] # g
  BY <1>1 DEF OnePlaceEach
<1>3. \A y, z \in Place : to[y] = to[z] /\ to[y] # NoPage => y = z
  BY <1>2 DEF OnePlaceEach
<1>4. \A h \in Page : h \in f \ {g} <=> \A y \in Place : to[y] # h
  BY <1>1, <1>2, NoPageIsNoPage DEF OnePlaceEach
<1> QED
  BY <1>1, <1>3, <1>4, <1>5 DEF OnePlaceEach

LEMMA PlaceEmptied ==
    ASSUME NEW at, NEW f, OnePlaceEach(at, f), NEW x \in Place, at[x] # NoPage,
           NEW to \in [Place -> Pte], to[x] = NoPage, \A y \in Place \ {x} : to[y] = at[y]
    PROVE  OnePlaceEach(to, f \cup {at[x]})
<1>1. f \in SUBSET Page /\ at[x] \in Page
  BY DEF OnePlaceEach, Spot
<1>5. to \in [Place -> Spot]
  BY DEF OnePlaceEach, Spot
<1>2. \A y \in Place \ {x} : at[y] # at[x]
  BY DEF OnePlaceEach
<1>3. \A y, z \in Place : to[y] = to[z] /\ to[y] # NoPage => y = z
  BY DEF OnePlaceEach
<1>4. \A h \in Page : h \in f \cup {at[x]} <=> \A y \in Place : to[y] # h
  BY <1>1, <1>2, NoPageIsNoPage DEF OnePlaceEach
<1> QED
  BY <1>1, <1>3, <1>4, <1>5 DEF OnePlaceEach

\* Different places are different.
LEMMA PlacesApart ==
    /\ \A s, t : RootPlace(s) = RootPlace(t) => s = t
    /\ \A s, t, i : RootPlace(s) # MiddlePlace(t, i)
    /\ \A s, t, i, j : RootPlace(s) # LastPlace(t, i, j)
    /\ \A s, t, i, j : MiddlePlace(s, i) = MiddlePlace(t, j) => s = t /\ i = j
    /\ \A s, t, i, j, k : MiddlePlace(s, i) # LastPlace(t, j, k)
    /\ \A s, t, i, j, k, l : LastPlace(s, i, j) = LastPlace(t, k, l) => s = t /\ i = k /\ j = l
BY DEF RootPlace, MiddlePlace, LastPlace

\* The pages at the places.
LEMMA Levels ==
    ASSUME NEW r, NEW m, Tables(r, m)
    PROVE  /\ PageAt(r, m) \in [Place -> Pte]
           /\ \A s \in Space : RootPlace(s) \in Place /\ PageAt(r, m)[RootPlace(s)] = r[s]
           /\ \A s \in Space, i \in Vpn :
                 MiddlePlace(s, i) \in Place /\ PageAt(r, m)[MiddlePlace(s, i)] = Middle(r, m, s, i)
           /\ \A s \in Space, i, j \in Vpn :
                 LastPlace(s, i, j) \in Place /\ PageAt(r, m)[LastPlace(s, i, j)] = Last(r, m, s, i, j)
<1>1. \A s \in Space : r[s] \in Pte
  BY DEF Tables, Spot, Pte
<1>2. \A g \in Pte, i \in Vpn : EntryOf(m, g, i) \in Pte
  BY DEF EntryOf, Tables, Pte
<1>3. \A s \in Space, i \in Vpn : Middle(r, m, s, i) \in Pte
  BY <1>1, <1>2 DEF Middle
<1>4. \A s \in Space, i, j \in Vpn : Last(r, m, s, i, j) \in Pte
  BY <1>2, <1>3 DEF Last
<1>5. \A s \in Space : RootPlace(s) \in Place /\ PageAt(r, m)[RootPlace(s)] = r[s]
  BY DEF PageAt, Place, Root, RootPlace
<1>6. \A s \in Space, i \in Vpn :
         MiddlePlace(s, i) \in Place /\ PageAt(r, m)[MiddlePlace(s, i)] = Middle(r, m, s, i)
  BY DEF PageAt, Place, MiddlePlace
<1>7. \A s \in Space, i, j \in Vpn :
         LastPlace(s, i, j) \in Place /\ PageAt(r, m)[LastPlace(s, i, j)] = Last(r, m, s, i, j)
  BY DEF PageAt, Place, LastPlace
<1>8. \A x \in Place : PageAt(r, m)[x] \in Pte
  <2> SUFFICES ASSUME NEW x \in Place PROVE PageAt(r, m)[x] \in Pte
    OBVIOUS
  <2>1. CASE \E s \in Space : x = RootPlace(s)
    BY <1>1, <1>5, <2>1
  <2>2. CASE \E s \in Space, i \in Vpn : x = MiddlePlace(s, i)
    BY <1>3, <1>6, <2>2
  <2>3. CASE \E s \in Space, i, j \in Vpn : x = LastPlace(s, i, j)
    BY <1>4, <1>7, <2>3
  <2> QED
    BY <2>1, <2>2, <2>3 DEF Place
<1>9. PageAt(r, m) = [x \in Place |-> PageAt(r, m)[x]]
  BY DEF PageAt
<1> QED
  BY <1>5, <1>6, <1>7, <1>8, <1>9

\* Every page at a place is there once, and none of them is free.
LEMMA Apart ==
    ASSUME NEW r, NEW m, NEW f, Tables(r, m), OnePlaceEach(PageAt(r, m), f)
    PROVE  /\ \A s, t \in Space : r[s] = r[t] /\ r[s] # NoPage => s = t
           /\ \A s, t \in Space, i \in Vpn : r[s] # NoPage => r[s] # Middle(r, m, t, i)
           /\ \A s, t \in Space, i, j \in Vpn : r[s] # NoPage => r[s] # Last(r, m, t, i, j)
           /\ \A s, t \in Space, i, j \in Vpn :
                 Middle(r, m, s, i) = Middle(r, m, t, j) /\ Middle(r, m, s, i) # NoPage => s = t /\ i = j
           /\ \A s, t \in Space, i, j, k \in Vpn :
                 Middle(r, m, s, i) # NoPage => Middle(r, m, s, i) # Last(r, m, t, j, k)
           /\ \A s, t \in Space, i, j, k, l \in Vpn :
                 Last(r, m, s, i, j) = Last(r, m, t, k, l) /\ Last(r, m, s, i, j) # NoPage
                    => s = t /\ i = k /\ j = l
           /\ \A s \in Space : r[s] \in Spot \ f
           /\ \A s \in Space, i \in Vpn : Middle(r, m, s, i) \in Spot \ f
           /\ \A s \in Space, i, j \in Vpn : Last(r, m, s, i, j) \in Spot \ f
<1> DEFINE at == PageAt(r, m)
<1>1. /\ at \in [Place -> Pte]
      /\ \A s \in Space : RootPlace(s) \in Place /\ at[RootPlace(s)] = r[s]
      /\ \A s \in Space, i \in Vpn : MiddlePlace(s, i) \in Place /\ at[MiddlePlace(s, i)] = Middle(r, m, s, i)
      /\ \A s \in Space, i, j \in Vpn :
            LastPlace(s, i, j) \in Place /\ at[LastPlace(s, i, j)] = Last(r, m, s, i, j)
  BY Levels
<1>2. \A x, y \in Place : at[x] = at[y] /\ at[x] # NoPage => x = y
  BY DEF OnePlaceEach
<1>3. \A x \in Place : at[x] \in Spot \ f
  BY <1>1, NoPageIsNoPage DEF OnePlaceEach, Spot
<1> HIDE DEF at
<1>4. \A s, t \in Space : r[s] = r[t] /\ r[s] # NoPage => s = t
  BY <1>1, <1>2, PlacesApart
<1>5. \A s, t \in Space, i \in Vpn : r[s] # NoPage => r[s] # Middle(r, m, t, i)
  BY <1>1, <1>2, PlacesApart
<1>6. \A s, t \in Space, i, j \in Vpn : r[s] # NoPage => r[s] # Last(r, m, t, i, j)
  BY <1>1, <1>2, PlacesApart
<1>7. \A s, t \in Space, i, j \in Vpn :
         Middle(r, m, s, i) = Middle(r, m, t, j) /\ Middle(r, m, s, i) # NoPage => s = t /\ i = j
  BY <1>1, <1>2, PlacesApart
<1>8. \A s, t \in Space, i, j, k \in Vpn :
         Middle(r, m, s, i) # NoPage => Middle(r, m, s, i) # Last(r, m, t, j, k)
  BY <1>1, <1>2, PlacesApart
<1>9. \A s, t \in Space, i, j, k, l \in Vpn :
         Last(r, m, s, i, j) = Last(r, m, t, k, l) /\ Last(r, m, s, i, j) # NoPage
            => s = t /\ i = k /\ j = l
  BY <1>1, <1>2, PlacesApart
<1>10. /\ \A s \in Space : r[s] \in Spot \ f
       /\ \A s \in Space, i \in Vpn : Middle(r, m, s, i) \in Spot \ f
       /\ \A s \in Space, i, j \in Vpn : Last(r, m, s, i, j) \in Spot \ f
  BY <1>1, <1>3
<1> QED
  BY <1>4, <1>5, <1>6, <1>7, <1>8, <1>9, <1>10

\* Memories that differ in what is at one place, or in none.
LEMMA RootChanges ==
    ASSUME NEW r, NEW m, NEW q, NEW n, Tables(r, m), Tables(q, n), NEW s \in Space,
           \A t \in Space \ {s} : q[t] = r[t],
           \A t \in Space, i \in Vpn : Middle(q, n, t, i) = Middle(r, m, t, i),
           \A t \in Space, i, j \in Vpn : Last(q, n, t, i, j) = Last(r, m, t, i, j)
    PROVE  \A y \in Place \ {RootPlace(s)} : PageAt(q, n)[y] = PageAt(r, m)[y]
<1> SUFFICES ASSUME NEW y \in Place \ {RootPlace(s)} PROVE PageAt(q, n)[y] = PageAt(r, m)[y]
  OBVIOUS
<1>1. CASE \E t \in Space : y = RootPlace(t)
  BY <1>1, Levels
<1>2. CASE \E t \in Space, i \in Vpn : y = MiddlePlace(t, i)
  BY <1>2, Levels
<1>3. CASE \E t \in Space, i, j \in Vpn : y = LastPlace(t, i, j)
  BY <1>3, Levels
<1> QED
  BY <1>1, <1>2, <1>3 DEF Place

LEMMA MiddleChanges ==
    ASSUME NEW r, NEW m, NEW n, Tables(r, m), Tables(r, n), NEW s \in Space, NEW i \in Vpn,
           \A t \in Space, j \in Vpn : <<t, j>> # <<s, i>> => Middle(r, n, t, j) = Middle(r, m, t, j),
           \A t \in Space, j, k \in Vpn : Last(r, n, t, j, k) = Last(r, m, t, j, k)
    PROVE  \A y \in Place \ {MiddlePlace(s, i)} : PageAt(r, n)[y] = PageAt(r, m)[y]
<1> SUFFICES ASSUME NEW y \in Place \ {MiddlePlace(s, i)} PROVE PageAt(r, n)[y] = PageAt(r, m)[y]
  OBVIOUS
<1>1. CASE \E t \in Space : y = RootPlace(t)
  BY <1>1, Levels
<1>2. CASE \E t \in Space, j \in Vpn : y = MiddlePlace(t, j)
  BY <1>2, Levels
<1>3. CASE \E t \in Space, j, k \in Vpn : y = LastPlace(t, j, k)
  BY <1>3, Levels
<1> QED
  BY <1>1, <1>2, <1>3 DEF Place

LEMMA LastChanges ==
    ASSUME NEW r, NEW m, NEW n, Tables(r, m), Tables(r, n),
           NEW s \in Space, NEW i \in Vpn, NEW j \in Vpn,
           \A t \in Space, k \in Vpn : Middle(r, n, t, k) = Middle(r, m, t, k),
           \A t \in Space, k, l \in Vpn :
              <<t, k, l>> # <<s, i, j>> => Last(r, n, t, k, l) = Last(r, m, t, k, l)
    PROVE  \A y \in Place \ {LastPlace(s, i, j)} : PageAt(r, n)[y] = PageAt(r, m)[y]
<1> SUFFICES ASSUME NEW y \in Place \ {LastPlace(s, i, j)} PROVE PageAt(r, n)[y] = PageAt(r, m)[y]
  OBVIOUS
<1>1. CASE \E t \in Space : y = RootPlace(t)
  BY <1>1, Levels
<1>2. CASE \E t \in Space, k \in Vpn : y = MiddlePlace(t, k)
  BY <1>2, Levels
<1>3. CASE \E t \in Space, k, l \in Vpn : y = LastPlace(t, k, l)
  BY <1>3, Levels
<1> QED
  BY <1>1, <1>2, <1>3 DEF Place

Memory(m)   == m \in [Page -> [Vpn -> Pte]]
Zeroes      == [i \in Vpn |-> NoPage]
Zeroed(m, g)         == [m EXCEPT ![g] = Zeroes]
Written(m, h, i, x)  == [m EXCEPT ![h][i] = x]
Extended(m, h, i, g) == Zeroed(Written(m, h, i, g), g)
SameMaps(r, m, q, n) ==
    \A s \in Space, i, j, k \in Vpn : Maps(q, n, s, i, j, k) = Maps(r, m, s, i, j, k)

LEMMA ZeroedReads ==
    ASSUME NEW m, Memory(m), NEW g \in Page
    PROVE  /\ Memory(Zeroed(m, g)) /\ \A i \in Vpn : EntryOf(Zeroed(m, g), g, i) = NoPage
           /\ \A h \in Spot \ {g}, i \in Vpn : EntryOf(Zeroed(m, g), h, i) = EntryOf(m, h, i)
BY NoPageIsNoPage DEF Memory, Zeroed, Zeroes, EntryOf, Spot, Pte

LEMMA WrittenReads ==
    ASSUME NEW m, Memory(m), NEW h \in Page, NEW i \in Vpn, NEW x \in Pte
    PROVE  /\ Memory(Written(m, h, i, x)) /\ EntryOf(Written(m, h, i, x), h, i) = x
           /\ \A g \in Spot, k \in Vpn :
                 g # h \/ k # i => EntryOf(Written(m, h, i, x), g, k) = EntryOf(m, g, k)
<1> DEFINE n == Written(m, h, i, x)
<1>1. /\ n \in [Page -> [Vpn -> Pte]] /\ n[h][i] = x
      /\ \A g \in Page, k \in Vpn : g # h \/ k # i => n[g][k] = m[g][k]
  BY DEF Memory, Written
<1>2. h # NoPage
  BY NoPageIsNoPage
<1> QED
  BY <1>1, <1>2 DEF Memory, EntryOf, Spot, Pte

\* A table is hung under entry i of page h.
LEMMA ExtendedReads ==
    ASSUME NEW m, Memory(m), NEW h \in Page, NEW i \in Vpn, NEW g \in Page, g # h
    PROVE  /\ Memory(Extended(m, h, i, g)) /\ EntryOf(Extended(m, h, i, g), h, i) = g
           /\ \A k \in Vpn : EntryOf(Extended(m, h, i, g), g, k) = NoPage
           /\ \A q \in Spot \ {g}, k \in Vpn :
                 q # h \/ k # i => EntryOf(Extended(m, h, i, g), q, k) = EntryOf(m, q, k)
<1>1. PICK n : n = Written(m, h, i, g)
  OBVIOUS
<1>2. g \in Pte /\ g \in Spot /\ h \in Spot
  BY DEF Pte, Spot
<1>3. /\ Memory(n) /\ EntryOf(n, h, i) = g
      /\ \A q \in Spot, k \in Vpn : q # h \/ k # i => EntryOf(n, q, k) = EntryOf(m, q, k)
  BY <1>1, <1>2, WrittenReads
<1>4. /\ Memory(Zeroed(n, g)) /\ \A k \in Vpn : EntryOf(Zeroed(n, g), g, k) = NoPage
      /\ \A q \in Spot \ {g}, k \in Vpn : EntryOf(Zeroed(n, g), q, k) = EntryOf(n, q, k)
  BY <1>3, ZeroedReads
<1>5. Extended(m, h, i, g) = Zeroed(n, g)
  BY <1>1 DEF Extended
<1> QED
  BY <1>2, <1>3, <1>4, <1>5

-----------------------------------------------------------------------------
(***************************************************************************)
(* The changes walk, create_page_table and free_page_table make            *)
(***************************************************************************)

\* A new root, in a page with any contents, maps nothing and disturbs no space.
LEMMA RootAdded ==
    ASSUME NEW r, NEW m, NEW f, Tables(r, m), OnePlaceEach(PageAt(r, m), f),
           NEW s \in Space, r[s] = NoPage, NEW g \in f,
           NEW q \in [Space -> Spot], q[s] = g, \A t \in Space \ {s} : q[t] = r[t],
           NEW n, n = Zeroed(m, g)
    PROVE  Tables(q, n) /\ OnePlaceEach(PageAt(q, n), f \ {g}) /\ SameMaps(r, m, q, n)
<1>1. g \in Page /\ g \in Pte /\ Memory(m)
  BY DEF OnePlaceEach, Tables, Spot, Pte, Memory
<1>2. /\ Memory(n) /\ \A i \in Vpn : EntryOf(n, g, i) = NoPage
      /\ \A h \in Spot \ {g}, i \in Vpn : EntryOf(n, h, i) = EntryOf(m, h, i)
  BY <1>1, ZeroedReads
<1>4. Tables(q, n)
  BY <1>2 DEF Tables, Memory
<1>5. /\ \A t \in Space : r[t] \in Spot \ {g}
      /\ \A t \in Space, i \in Vpn : Middle(r, m, t, i) \in Spot \ {g}
      /\ \A t \in Space, i, j \in Vpn : Last(r, m, t, i, j) \in Spot \ {g}
  BY Apart
<1>6. \A t \in Space, i \in Vpn : Middle(q, n, t, i) = Middle(r, m, t, i)
  <2> SUFFICES ASSUME NEW t \in Space, NEW i \in Vpn PROVE EntryOf(n, q[t], i) = EntryOf(m, r[t], i)
    BY DEF Middle
  <2>1. CASE t = s
    BY <1>2, <2>1, NoPageIsNoPage DEF EntryOf
  <2>2. CASE t # s
    BY <1>2, <1>5, <2>2
  <2> QED
    BY <2>1, <2>2
<1>7. \A t \in Space, i, j \in Vpn : Last(q, n, t, i, j) = Last(r, m, t, i, j)
  <2> SUFFICES ASSUME NEW t \in Space, NEW i \in Vpn, NEW j \in Vpn
               PROVE  EntryOf(n, Middle(q, n, t, i), j) = EntryOf(m, Middle(r, m, t, i), j)
    BY DEF Last
  <2> QED
    BY <1>2, <1>5, <1>6
<1>8. SameMaps(r, m, q, n)
  <2> SUFFICES ASSUME NEW t \in Space, NEW i \in Vpn, NEW j \in Vpn, NEW k \in Vpn
               PROVE  EntryOf(n, Last(q, n, t, i, j), k) = EntryOf(m, Last(r, m, t, i, j), k)
    BY DEF SameMaps, Maps
  <2> QED
    BY <1>2, <1>5, <1>7
<1>9. \A y \in Place \ {RootPlace(s)} : PageAt(q, n)[y] = PageAt(r, m)[y]
  BY <1>4, <1>6, <1>7, RootChanges
<1>10. /\ RootPlace(s) \in Place /\ PageAt(r, m)[RootPlace(s)] = NoPage /\ PageAt(q, n)[RootPlace(s)] = g
       /\ PageAt(q, n) \in [Place -> Pte]
  BY <1>4, Levels
<1>11. OnePlaceEach(PageAt(q, n), f \ {g})
  BY <1>9, <1>10, PlaceFilled
<1> QED
  BY <1>4, <1>8, <1>11

\* free_page_table of a root without entries gives up one page, and no table.
LEMMA RootRemoved ==
    ASSUME NEW r, NEW m, NEW f, Tables(r, m), OnePlaceEach(PageAt(r, m), f),
           NEW s \in Space, r[s] # NoPage, \A i \in Vpn : m[r[s]][i] = NoPage,
           NEW q \in [Space -> Spot], q[s] = NoPage, \A t \in Space \ {s} : q[t] = r[t]
    PROVE  /\ Tables(q, m) /\ OnePlaceEach(PageAt(q, m), f \cup {r[s]}) /\ SameMaps(r, m, q, m)
           /\ \A i, j, k \in Vpn : Maps(r, m, s, i, j, k) = NoPage
<1>2. Tables(q, m)
  BY DEF Tables
<1>3. \A i \in Vpn : Middle(r, m, s, i) = NoPage /\ Middle(q, m, s, i) = NoPage
  BY NoPageIsNoPage DEF Middle, EntryOf
<1>4. \A t \in Space, i \in Vpn : Middle(q, m, t, i) = Middle(r, m, t, i)
  BY <1>3 DEF Middle
<1>5. \A t \in Space, i, j \in Vpn : Last(q, m, t, i, j) = Last(r, m, t, i, j)
  BY <1>4 DEF Last
<1>6. SameMaps(r, m, q, m)
  BY <1>5 DEF SameMaps, Maps
<1>7. \A i, j, k \in Vpn : Maps(r, m, s, i, j, k) = NoPage
  BY <1>3, NoPageIsNoPage DEF Maps, Last, EntryOf
<1>8. \A y \in Place \ {RootPlace(s)} : PageAt(q, m)[y] = PageAt(r, m)[y]
  BY <1>2, <1>4, <1>5, RootChanges
<1>9. /\ RootPlace(s) \in Place /\ PageAt(r, m)[RootPlace(s)] = r[s] /\ PageAt(q, m)[RootPlace(s)] = NoPage
      /\ PageAt(q, m) \in [Place -> Pte]
  BY <1>2, Levels
<1>10. OnePlaceEach(PageAt(q, m), f \cup {r[s]})
  BY <1>8, <1>9, PlaceEmptied
<1> QED
  BY <1>2, <1>6, <1>7, <1>10

\* walk hangs a new table under an empty entry of a root.
LEMMA MiddleAdded ==
    ASSUME NEW r, NEW m, NEW f, Tables(r, m), OnePlaceEach(PageAt(r, m), f),
           NEW s \in Space, r[s] # NoPage, NEW i \in Vpn, Middle(r, m, s, i) = NoPage, NEW g \in f,
           NEW n, n = Extended(m, r[s], i, g)
    PROVE  /\ Tables(r, n) /\ OnePlaceEach(PageAt(r, n), f \ {g}) /\ SameMaps(r, m, r, n)
           /\ Middle(r, n, s, i) = g
<1>1. PICK h : h = r[s]
  OBVIOUS
<1>2. /\ \A t \in Space : r[t] \in Spot \ {g} /\ (t # s => r[t] # h)
      /\ \A t \in Space, k \in Vpn : Middle(r, m, t, k) \in Spot \ {g, h}
      /\ \A t \in Space, k, l \in Vpn : Last(r, m, t, k, l) \in Spot \ {g, h}
  BY <1>1, Apart
<1>3. g \in Page /\ h \in Page /\ g # h /\ Memory(m)
  BY <1>1, <1>2 DEF OnePlaceEach, Tables, Spot, Pte, Memory
<1>4. /\ Memory(n) /\ EntryOf(n, h, i) = g /\ \A k \in Vpn : EntryOf(n, g, k) = NoPage
      /\ \A q \in Spot \ {g}, k \in Vpn : q # h \/ k # i => EntryOf(n, q, k) = EntryOf(m, q, k)
  BY <1>1, <1>3, ExtendedReads
<1>5. Tables(r, n)
  BY <1>4 DEF Tables, Memory
<1>6. Middle(r, n, s, i) = g
  BY <1>1, <1>4 DEF Middle
<1>7. \A t \in Space, k \in Vpn : <<t, k>> # <<s, i>> => Middle(r, n, t, k) = Middle(r, m, t, k)
  BY <1>2, <1>4 DEF Middle
<1>8. \A t \in Space, k, l \in Vpn : Last(r, n, t, k, l) = Last(r, m, t, k, l)
  <2> SUFFICES ASSUME NEW t \in Space, NEW k \in Vpn, NEW l \in Vpn
               PROVE  EntryOf(n, Middle(r, n, t, k), l) = EntryOf(m, Middle(r, m, t, k), l)
    BY DEF Last
  <2>1. CASE t = s /\ k = i
    BY <1>4, <1>6, <2>1, NoPageIsNoPage DEF EntryOf
  <2>2. CASE ~ (t = s /\ k = i)
    BY <1>2, <1>4, <1>7, <2>2
  <2> QED
    BY <2>1, <2>2
<1>9. SameMaps(r, m, r, n)
  BY <1>2, <1>4, <1>8 DEF SameMaps, Maps
<1>10. \A y \in Place \ {MiddlePlace(s, i)} : PageAt(r, n)[y] = PageAt(r, m)[y]
  BY <1>5, <1>7, <1>8, MiddleChanges
<1>11. /\ MiddlePlace(s, i) \in Place /\ PageAt(r, m)[MiddlePlace(s, i)] = NoPage
       /\ PageAt(r, n)[MiddlePlace(s, i)] = g /\ PageAt(r, n) \in [Place -> Pte]
  BY <1>5, <1>6, Levels
<1>12. OnePlaceEach(PageAt(r, n), f \ {g})
  BY <1>10, <1>11, PlaceFilled
<1> QED
  BY <1>5, <1>6, <1>9, <1>12

\* The same one level below.
LEMMA LastAdded ==
    ASSUME NEW r, NEW m, NEW f, Tables(r, m), OnePlaceEach(PageAt(r, m), f),
           NEW s \in Space, NEW i \in Vpn, NEW j \in Vpn, Middle(r, m, s, i) # NoPage,
           Last(r, m, s, i, j) = NoPage, NEW g \in f,
           NEW n, n = Extended(m, Middle(r, m, s, i), j, g)
    PROVE  /\ Tables(r, n) /\ OnePlaceEach(PageAt(r, n), f \ {g}) /\ SameMaps(r, m, r, n)
           /\ Last(r, n, s, i, j) = g
<1>1. PICK h : h = Middle(r, m, s, i)
  OBVIOUS
<1>2. /\ \A t \in Space : r[t] \in Spot \ {g, h}
      /\ \A t \in Space, k \in Vpn : /\ Middle(r, m, t, k) \in Spot \ {g}
                                     /\ Middle(r, m, t, k) = h => t = s /\ k = i
      /\ \A t \in Space, k, l \in Vpn : Last(r, m, t, k, l) \in Spot \ {g, h}
  BY <1>1, Apart
<1>3. g \in Page /\ h \in Page /\ g # h /\ Memory(m)
  BY <1>1, <1>2 DEF OnePlaceEach, Tables, Spot, Pte, Memory
<1>4. /\ Memory(n) /\ EntryOf(n, h, j) = g /\ \A k \in Vpn : EntryOf(n, g, k) = NoPage
      /\ \A q \in Spot \ {g}, k \in Vpn : q # h \/ k # j => EntryOf(n, q, k) = EntryOf(m, q, k)
  BY <1>1, <1>3, ExtendedReads
<1>5. Tables(r, n)
  BY <1>4 DEF Tables, Memory
<1>6. \A t \in Space, k \in Vpn : Middle(r, n, t, k) = Middle(r, m, t, k)
  BY <1>2, <1>4 DEF Middle
<1>7. Last(r, n, s, i, j) = g
  BY <1>1, <1>4, <1>6 DEF Last
<1>8. \A t \in Space, k, l \in Vpn :
         <<t, k, l>> # <<s, i, j>> => Last(r, n, t, k, l) = Last(r, m, t, k, l)
  BY <1>2, <1>4, <1>6 DEF Last
<1>9. SameMaps(r, m, r, n)
  <2> SUFFICES ASSUME NEW t \in Space, NEW k \in Vpn, NEW l \in Vpn, NEW o \in Vpn
               PROVE  EntryOf(n, Last(r, n, t, k, l), o) = EntryOf(m, Last(r, m, t, k, l), o)
    BY DEF SameMaps, Maps
  <2>1. CASE t = s /\ k = i /\ l = j
    BY <1>4, <1>7, <2>1, NoPageIsNoPage DEF EntryOf
  <2>2. CASE ~ (t = s /\ k = i /\ l = j)
    BY <1>2, <1>4, <1>8, <2>2
  <2> QED
    BY <2>1, <2>2
<1>10. \A y \in Place \ {LastPlace(s, i, j)} : PageAt(r, n)[y] = PageAt(r, m)[y]
  BY <1>5, <1>6, <1>8, LastChanges
<1>11. /\ LastPlace(s, i, j) \in Place /\ PageAt(r, m)[LastPlace(s, i, j)] = NoPage
       /\ PageAt(r, n)[LastPlace(s, i, j)] = g /\ PageAt(r, n) \in [Place -> Pte]
  BY <1>5, <1>7, Levels
<1>12. OnePlaceEach(PageAt(r, n), f \ {g})
  BY <1>10, <1>11, PlaceFilled
<1> QED
  BY <1>5, <1>7, <1>9, <1>12

\* A write to a last table changes one mapping, and no table.
LEMMA EntryWritten ==
    ASSUME NEW r, NEW m, NEW f, Tables(r, m), OnePlaceEach(PageAt(r, m), f),
           NEW s \in Space, NEW i \in Vpn, NEW j \in Vpn, NEW k \in Vpn, NEW x \in Pte,
           Last(r, m, s, i, j) # NoPage, NEW n, n = Written(m, Last(r, m, s, i, j), k, x)
    PROVE  /\ Tables(r, n) /\ OnePlaceEach(PageAt(r, n), f) /\ Maps(r, n, s, i, j, k) = x
           /\ \A t \in Space, a, b, c \in Vpn :
                 <<t, a, b, c>> # <<s, i, j, k>> => Maps(r, n, t, a, b, c) = Maps(r, m, t, a, b, c)
<1>1. PICK h : h = Last(r, m, s, i, j)
  OBVIOUS
<1>2. /\ \A t \in Space : r[t] \in Spot \ {h}
      /\ \A t \in Space, a \in Vpn : Middle(r, m, t, a) \in Spot \ {h}
      /\ \A t \in Space, a, b \in Vpn : /\ Last(r, m, t, a, b) \in Spot
                                        /\ Last(r, m, t, a, b) = h => t = s /\ a = i /\ b = j
  BY <1>1, Apart
<1>3. h \in Page /\ Memory(m)
  BY <1>1, <1>2 DEF Tables, Spot, Memory
<1>4. /\ Memory(n) /\ EntryOf(n, h, k) = x
      /\ \A q \in Spot, c \in Vpn : q # h \/ c # k => EntryOf(n, q, c) = EntryOf(m, q, c)
  BY <1>1, <1>3, WrittenReads
<1>5. Tables(r, n)
  BY <1>4 DEF Tables, Memory
<1>6. \A t \in Space, a \in Vpn : Middle(r, n, t, a) = Middle(r, m, t, a)
  BY <1>2, <1>4 DEF Middle
<1>7. \A t \in Space, a, b \in Vpn : Last(r, n, t, a, b) = Last(r, m, t, a, b)
  BY <1>2, <1>4, <1>6 DEF Last
<1>8. PageAt(r, n) = PageAt(r, m)
  <2>1. \A y \in Place \ {LastPlace(s, i, j)} : PageAt(r, n)[y] = PageAt(r, m)[y]
    BY <1>5, <1>6, <1>7, LastChanges
  <2>2. LastPlace(s, i, j) \in Place /\ PageAt(r, n)[LastPlace(s, i, j)] = PageAt(r, m)[LastPlace(s, i, j)]
    BY <1>5, <1>7, Levels
  <2>3. PageAt(r, n) \in [Place -> Pte] /\ PageAt(r, m) \in [Place -> Pte]
    BY <1>5, Levels
  <2> QED
    BY <2>1, <2>2, <2>3
<1>9. Maps(r, n, s, i, j, k) = x
  BY <1>1, <1>4, <1>7 DEF Maps
<1>10. \A t \in Space, a, b, c \in Vpn :
          <<t, a, b, c>> # <<s, i, j, k>> => Maps(r, n, t, a, b, c) = Maps(r, m, t, a, b, c)
  BY <1>2, <1>4, <1>7 DEF Maps
<1> QED
  BY <1>5, <1>8, <1>9, <1>10

-----------------------------------------------------------------------------
(***************************************************************************)
(* walk, with alloc = 1                                                    *)
(***************************************************************************)

WalkAt(h, m, f) == [at |-> h, mem |-> m, left |-> f]

\* One level down: to the table the entry names, to a new one, or nowhere.
LEMMA WalkOver ==
    ASSUME NEW m, NEW f, NEW i
    PROVE  Down(WalkAt(NoPage, m, f), i) = WalkAt(NoPage, m, f)
BY DEF Down, WalkAt

LEMMA WalkFollows ==
    ASSUME NEW h \in Page, NEW m, NEW f, NEW i, EntryOf(m, h, i) # NoPage
    PROVE  Down(WalkAt(h, m, f), i) = WalkAt(EntryOf(m, h, i), m, f)
<1>1. PICK w : w = WalkAt(h, m, f)
  OBVIOUS
<1>2. w.at = h /\ w.mem = m
  BY <1>1 DEF WalkAt
<1>3. EntryOf(m, h, i) = m[h][i]
  BY DEF EntryOf
<1>4. Down(w, i) = [w EXCEPT !.at = m[h][i]]
  BY <1>2, <1>3, NoPageIsNoPage, Zenon DEF Down
<1>5. [w EXCEPT !.at = m[h][i]] = WalkAt(m[h][i], m, f)
  BY <1>1 DEF WalkAt
<1> QED
  BY <1>1, <1>3, <1>4, <1>5, Zenon

LEMMA WalkGivesUp ==
    ASSUME NEW h \in Page, NEW m, NEW f, NEW i, EntryOf(m, h, i) = NoPage, AllocPage(f) = NoPage
    PROVE  Down(WalkAt(h, m, f), i) = WalkAt(NoPage, m, f)
<1>1. PICK w : w = WalkAt(h, m, f)
  OBVIOUS
<1>2. w.at = h /\ w.mem = m /\ w.left = f /\ m[h][i] = NoPage
  BY <1>1 DEF WalkAt, EntryOf
<1>3. Down(w, i) = [w EXCEPT !.at = NoPage]
  BY <1>2, NoPageIsNoPage, Zenon DEF Down
<1>4. [w EXCEPT !.at = NoPage] = WalkAt(NoPage, m, f)
  BY <1>1 DEF WalkAt
<1> QED
  BY <1>1, <1>3, <1>4, Zenon

LEMMA WalkBuilds ==
    ASSUME NEW h \in Page, NEW m, NEW f, NEW i, EntryOf(m, h, i) = NoPage,
           NEW g, g = AllocPage(f), g # NoPage
    PROVE  Down(WalkAt(h, m, f), i) = WalkAt(g, Extended(m, h, i, g), f \ {g})
<1>1. PICK w : w = WalkAt(h, m, f)
  OBVIOUS
<1>2. w.at = h /\ w.mem = m /\ w.left = f /\ m[h][i] = NoPage
  BY <1>1 DEF WalkAt, EntryOf
<1>3. Down(w, i) = [at   |-> g,
                    mem  |-> [m EXCEPT ![h][i] = g, ![g] = Cleared(@)],
                    left |-> f \ {g}]
  BY <1>2, NoPageIsNoPage, Zenon DEF Down
<1>4. [m EXCEPT ![h][i] = g, ![g] = Cleared(@)] = Extended(m, h, i, g)
  BY DEF Cleared, Extended, Zeroed, Written, Zeroes, NoPage
<1> QED
  BY <1>1, <1>3, <1>4, Zenon DEF WalkAt

\* What a walk leaves behind, however far it got: no table is shared or lost,
\* and every mapping is what it was.
WalkSafe(r, m, n, e) ==
    Tables(r, n) /\ OnePlaceEach(PageAt(r, n), e) /\ SameMaps(r, m, r, n)

LEMMA ToMiddle ==
    ASSUME NEW r, NEW m, NEW f, Tables(r, m), OnePlaceEach(PageAt(r, m), f),
           NEW s \in Space, r[s] # NoPage, NEW i \in Vpn
    PROVE  \E a, n, e : /\ Down(WalkAt(r[s], m, f), i) = WalkAt(a, n, e)
                        /\ WalkSafe(r, m, n, e) /\ a \in {NoPage, Middle(r, n, s, i)}
<1>1. PICK h : h = r[s]
  OBVIOUS
<1>2. h \in Page /\ EntryOf(m, h, i) = Middle(r, m, s, i)
  BY <1>1 DEF Middle, Tables, Spot
<1>3. WalkSafe(r, m, m, f)
  BY DEF WalkSafe, SameMaps
<1>4. CASE EntryOf(m, h, i) # NoPage
  <2>1. Down(WalkAt(h, m, f), i) = WalkAt(EntryOf(m, h, i), m, f)
    BY <1>2, <1>4, WalkFollows
  <2> QED
    BY <1>1, <1>2, <1>3, <2>1
<1>5. CASE EntryOf(m, h, i) = NoPage /\ AllocPage(f) = NoPage
  <2>1. Down(WalkAt(h, m, f), i) = WalkAt(NoPage, m, f)
    BY <1>2, <1>5, WalkGivesUp
  <2> QED
    BY <1>1, <1>3, <2>1
<1>6. CASE EntryOf(m, h, i) = NoPage /\ AllocPage(f) # NoPage
  <2>1. PICK g : g = AllocPage(f)
    OBVIOUS
  <2>2. g \in f /\ g # NoPage
    BY <1>6, <2>1, AllocPageFree DEF OnePlaceEach
  <2>3. PICK n : n = Extended(m, h, i, g)
    OBVIOUS
  <2>4. Down(WalkAt(h, m, f), i) = WalkAt(g, n, f \ {g})
    BY <1>2, <1>6, <2>1, <2>2, <2>3, WalkBuilds
  <2>5. Middle(r, m, s, i) = NoPage /\ n = Extended(m, r[s], i, g)
    BY <1>1, <1>2, <1>6, <2>3
  <2>6. WalkSafe(r, m, n, f \ {g}) /\ Middle(r, n, s, i) = g
    BY <2>2, <2>5, MiddleAdded DEF WalkSafe
  <2> QED
    BY <1>1, <2>4, <2>6
<1> QED
  BY <1>4, <1>5, <1>6

LEMMA ToLast ==
    ASSUME NEW r, NEW m, NEW f, Tables(r, m), OnePlaceEach(PageAt(r, m), f),
           NEW s \in Space, NEW i \in Vpn, NEW j \in Vpn, NEW h \in {NoPage, Middle(r, m, s, i)}
    PROVE  \E a, n, e : /\ Down(WalkAt(h, m, f), j) = WalkAt(a, n, e)
                        /\ WalkSafe(r, m, n, e) /\ a \in {NoPage, Last(r, n, s, i, j)}
<1>1. h # NoPage => /\ h \in Page /\ h = Middle(r, m, s, i)
                    /\ EntryOf(m, h, j) = Last(r, m, s, i, j)
  BY Apart DEF Last, Spot
<1>2. WalkSafe(r, m, m, f)
  BY DEF WalkSafe, SameMaps
<1>3. CASE h = NoPage
  <2>1. Down(WalkAt(h, m, f), j) = WalkAt(NoPage, m, f)
    BY <1>3, WalkOver
  <2> QED
    BY <1>2, <2>1
<1>4. CASE h # NoPage /\ EntryOf(m, h, j) # NoPage
  <2>1. Down(WalkAt(h, m, f), j) = WalkAt(EntryOf(m, h, j), m, f)
    BY <1>1, <1>4, WalkFollows
  <2> QED
    BY <1>1, <1>2, <1>4, <2>1
<1>5. CASE h # NoPage /\ EntryOf(m, h, j) = NoPage /\ AllocPage(f) = NoPage
  <2>1. Down(WalkAt(h, m, f), j) = WalkAt(NoPage, m, f)
    BY <1>1, <1>5, WalkGivesUp
  <2> QED
    BY <1>2, <2>1
<1>6. CASE h # NoPage /\ EntryOf(m, h, j) = NoPage /\ AllocPage(f) # NoPage
  <2>1. PICK g : g = AllocPage(f)
    OBVIOUS
  <2>2. g \in f /\ g # NoPage
    BY <1>6, <2>1, AllocPageFree DEF OnePlaceEach
  <2>3. PICK n : n = Extended(m, h, j, g)
    OBVIOUS
  <2>4. Down(WalkAt(h, m, f), j) = WalkAt(g, n, f \ {g})
    BY <1>1, <1>6, <2>1, <2>2, <2>3, WalkBuilds
  <2>5. /\ Middle(r, m, s, i) # NoPage /\ Last(r, m, s, i, j) = NoPage
        /\ n = Extended(m, Middle(r, m, s, i), j, g)
    BY <1>1, <1>6, <2>3
  <2>6. WalkSafe(r, m, n, f \ {g}) /\ Last(r, n, s, i, j) = g
    BY <2>2, <2>5, LastAdded DEF WalkSafe
  <2> QED
    BY <2>4, <2>6
<1> QED
  BY <1>3, <1>4, <1>5, <1>6

\* The whole walk to v: nothing is lost, and where it arrives is v's last table.
LEMMA WalkArrives ==
    ASSUME Tables(root, table), OnePlaceEach(PageAt(root, table), unused),
           NEW s \in Space, root[s] # NoPage, NEW v \in Vpn \X Vpn \X Vpn
    PROVE  \E a, n, e : /\ Walk(s, v) = WalkAt(a, n, e) /\ WalkSafe(root, table, n, e)
                        /\ a \in {NoPage, Last(root, n, s, v[1], v[2])}
<1>1. v[1] \in Vpn /\ v[2] \in Vpn
  OBVIOUS
<1>2. Walk(s, v) = Down(Down(WalkAt(root[s], table, unused), v[1]), v[2])
  BY DEF Walk, WalkFrom, WalkAt
<1>3. PICK h, m, f : /\ Down(WalkAt(root[s], table, unused), v[1]) = WalkAt(h, m, f)
                     /\ WalkSafe(root, table, m, f) /\ h \in {NoPage, Middle(root, m, s, v[1])}
  BY <1>1, ToMiddle
<1>4. PICK a, n, e : /\ Down(WalkAt(h, m, f), v[2]) = WalkAt(a, n, e)
                     /\ WalkSafe(root, m, n, e) /\ a \in {NoPage, Last(root, n, s, v[1], v[2])}
  BY <1>1, <1>3, ToLast DEF WalkSafe
<1>5. SameMaps(root, table, root, n)
  BY <1>3, <1>4 DEF WalkSafe, SameMaps
<1> QED
  BY <1>2, <1>3, <1>4, <1>5 DEF WalkSafe

-----------------------------------------------------------------------------
(***************************************************************************)
(* The invariant of the page tables                                        *)
(***************************************************************************)

TreeInv == Tables(root, table) /\ OnePlaceEach(PageAt(root, table), unused)

\* walk(..., 0) reads the last table and its entry.
LEMMA WalkReads ==
    ASSUME TreeInv
    PROVE  /\ \A s \in Space, v \in Vpn \X Vpn \X Vpn : LastTable(s, v) = Last(root, table, s, v[1], v[2])
           /\ \A s \in Space, v \in Vpn \X Vpn \X Vpn :
                 LastEntry(s, v) = Maps(root, table, s, v[1], v[2], v[3])
<1>1. \A g \in Spot : \A i : Entry(g, i) = EntryOf(table, g, i)
  BY NoPageIsNoPage DEF Entry, EntryOf, Spot
<1>2. PICK r, m, f : r = root /\ m = table /\ f = unused
  OBVIOUS
<1>3. /\ \A s \in Space : r[s] \in Spot
      /\ \A s \in Space, i \in Vpn : Middle(r, m, s, i) \in Spot
      /\ \A s \in Space, i, j \in Vpn : Last(r, m, s, i, j) \in Spot
  BY <1>2, Apart DEF TreeInv
<1> SUFFICES ASSUME NEW s \in Space, NEW v \in Vpn \X Vpn \X Vpn
             PROVE  /\ LastTable(s, v) = Last(r, m, s, v[1], v[2])
                    /\ LastEntry(s, v) = Maps(r, m, s, v[1], v[2], v[3])
  BY <1>2
<1>4. v[1] \in Vpn /\ v[2] \in Vpn
  OBVIOUS
<1>5. Entry(root[s], v[1]) = Middle(r, m, s, v[1])
  BY <1>1, <1>2, <1>3 DEF Middle
<1>6. LastTable(s, v) = Last(r, m, s, v[1], v[2])
  BY <1>1, <1>2, <1>3, <1>4, <1>5 DEF LastTable, Last
<1>7. LastEntry(s, v) = Maps(r, m, s, v[1], v[2], v[3])
  BY <1>1, <1>2, <1>3, <1>4, <1>6 DEF LastEntry, Maps
<1> QED
  BY <1>6, <1>7

LEMMA WalkReadsNext ==
    ASSUME TreeInv'
    PROVE  \A s \in Space, v \in Vpn \X Vpn \X Vpn :
                LastEntry(s, v)' = Maps(root', table', s, v[1], v[2], v[3])
<1>1. \A g \in Spot : \A i : (IF g = NoPage THEN NoPage ELSE table'[g][i]) = EntryOf(table', g, i)
  BY NoPageIsNoPage DEF EntryOf, Spot
<1>2. PICK r, m, f : r = root' /\ m = table' /\ f = unused'
  OBVIOUS
<1>3. /\ \A s \in Space : r[s] \in Spot
      /\ \A s \in Space, i \in Vpn : Middle(r, m, s, i) \in Spot
      /\ \A s \in Space, i, j \in Vpn : Last(r, m, s, i, j) \in Spot
  BY <1>2, Apart DEF TreeInv
<1> SUFFICES ASSUME NEW s \in Space, NEW v \in Vpn \X Vpn \X Vpn
             PROVE  LastEntry(s, v)' = Maps(r, m, s, v[1], v[2], v[3])
  BY <1>2
<1>4. v[1] \in Vpn /\ v[2] \in Vpn
  OBVIOUS
<1>5. Entry(root[s], v[1])' = Middle(r, m, s, v[1])
  BY <1>1, <1>2, <1>3 DEF Middle, Entry
<1>6. LastTable(s, v)' = Last(r, m, s, v[1], v[2])
  BY <1>1, <1>2, <1>3, <1>4, <1>5 DEF LastTable, Last, Entry
<1>7. LastEntry(s, v)' = Maps(r, m, s, v[1], v[2], v[3])
  BY <1>1, <1>2, <1>3, <1>4, <1>6 DEF LastEntry, Maps, Entry
<1> QED
  BY <1>7

LEMMA NoTablesYet ==
    ASSUME PagingInit PROVE TreeInv /\ \A s \in Space : root[s] = NoPage
<1>1. /\ root = [s \in Space |-> NoPage] /\ table \in [Page -> [Vpn -> Pte]] /\ unused = Page
  <2>1. \A p \in Page : 0 <= p
    BY DEF Page
  <2>2. InitiallyFree(0) = Page
    BY <2>1 DEF InitiallyFree
  <2> QED
    BY <2>2 DEF PagingInit
<1>2. Tables(root, table)
  BY <1>1 DEF Tables, Spot
<1>3. \A s \in Space, i \in Vpn : Middle(root, table, s, i) = NoPage
  BY <1>1, NoPageIsNoPage DEF Middle, EntryOf
<1>4. \A s \in Space, i, j \in Vpn : Last(root, table, s, i, j) = NoPage
  BY <1>3, NoPageIsNoPage DEF Last, EntryOf
<1>5. \A y \in Place : PageAt(root, table)[y] = NoPage
  <2> SUFFICES ASSUME NEW y \in Place PROVE PageAt(root, table)[y] = NoPage
    OBVIOUS
  <2>1. CASE \E t \in Space : y = RootPlace(t)
    BY <1>1, <1>2, <2>1, Levels
  <2>2. CASE \E t \in Space, i \in Vpn : y = MiddlePlace(t, i)
    BY <1>2, <1>3, <2>2, Levels
  <2>3. CASE \E t \in Space, i, j \in Vpn : y = LastPlace(t, i, j)
    BY <1>2, <1>4, <2>3, Levels
  <2> QED
    BY <2>1, <2>2, <2>3 DEF Place
<1>6. PageAt(root, table) \in [Place -> Pte]
  BY <1>2, Levels
<1>7. OnePlaceEach(PageAt(root, table), unused)
  BY <1>1, <1>5, <1>6, NoPageIsNoPage DEF OnePlaceEach, Spot
<1> QED
  BY <1>1, <1>2, <1>7 DEF TreeInv

\* create_page_table adds an empty space.
LEMMA CreateKeeps ==
    ASSUME TreeInv, NEW s \in Space, CreatePageTable(s)
    PROVE  /\ TreeInv' /\ SameMaps(root, table, root', table')
           /\ root[s] = NoPage /\ root'[s] # NoPage /\ \A t \in Space \ {s} : root'[t] = root[t]
<1>1. PICK g : g = AllocPage(unused)
  OBVIOUS
<1>2. g \in unused /\ g \in Spot /\ g # NoPage
  BY <1>1, AllocPageFree DEF TreeInv, OnePlaceEach, CreatePageTable, Spot
<1>3. /\ root[s] = NoPage /\ root' = [root EXCEPT ![s] = g]
      /\ table' = [table EXCEPT ![g] = Cleared(@)] /\ unused' = unused \ {g}
  BY <1>1 DEF CreatePageTable
<1>4. root' \in [Space -> Spot] /\ root'[s] = g /\ \A t \in Space \ {s} : root'[t] = root[t]
  BY <1>2, <1>3 DEF TreeInv, Tables
<1>5. table' = Zeroed(table, g)
  BY <1>3 DEF Cleared, Zeroed, Zeroes, NoPage
<1>6. /\ Tables(root', table') /\ OnePlaceEach(PageAt(root', table'), unused \ {g})
      /\ SameMaps(root, table, root', table')
  <2>1. PICK r, m, f, q, n : r = root /\ m = table /\ f = unused /\ q = root' /\ n = table'
    OBVIOUS
  <2>2. Tables(r, m) /\ OnePlaceEach(PageAt(r, m), f) /\ r[s] = NoPage /\ g \in f
    BY <1>2, <1>3, <2>1 DEF TreeInv
  <2>3. /\ q \in [Space -> Spot] /\ q[s] = g /\ \A t \in Space \ {s} : q[t] = r[t]
        /\ n = Zeroed(m, g)
    BY <1>4, <1>5, <2>1
  <2>4. Tables(q, n) /\ OnePlaceEach(PageAt(q, n), f \ {g}) /\ SameMaps(r, m, q, n)
    BY <2>2, <2>3, RootAdded
  <2> QED
    BY <2>1, <2>4
<1> QED
  BY <1>2, <1>3, <1>4, <1>6 DEF TreeInv

\* free_page_table gives up an empty one.
LEMMA FreeKeeps ==
    ASSUME TreeInv, NEW s \in Space, FreePageTable(s)
    PROVE  /\ TreeInv' /\ SameMaps(root, table, root', table')
           /\ root[s] # NoPage /\ root'[s] = NoPage /\ \A t \in Space \ {s} : root'[t] = root[t]
           /\ \A i, j, k \in Vpn : Maps(root, table, s, i, j, k) = NoPage
<1>1. /\ root[s] # NoPage /\ \A i \in Vpn : table[root[s]][i] = NoPage
      /\ root' = [root EXCEPT ![s] = NoPage] /\ table' = table
      /\ unused' = unused \cup ({root[s]} \cap Page)
  BY DEF FreePageTable, FreePages
<1>2. root[s] \in Page
  BY <1>1 DEF TreeInv, Tables, Spot
<1>3. root' \in [Space -> Spot] /\ root'[s] = NoPage /\ \A t \in Space \ {s} : root'[t] = root[t]
  BY <1>1 DEF TreeInv, Tables, Spot
<1>4. unused' = unused \cup {root[s]}
  BY <1>1, <1>2
<1>5. /\ Tables(root', table) /\ OnePlaceEach(PageAt(root', table), unused \cup {root[s]})
      /\ SameMaps(root, table, root', table)
      /\ \A i, j, k \in Vpn : Maps(root, table, s, i, j, k) = NoPage
  <2>1. PICK r, m, f, q : r = root /\ m = table /\ f = unused /\ q = root'
    OBVIOUS
  <2>2. /\ Tables(r, m) /\ OnePlaceEach(PageAt(r, m), f) /\ r[s] # NoPage
        /\ \A i \in Vpn : m[r[s]][i] = NoPage
    BY <1>1, <2>1 DEF TreeInv
  <2>3. q \in [Space -> Spot] /\ q[s] = NoPage /\ \A t \in Space \ {s} : q[t] = r[t]
    BY <1>3, <2>1
  <2>4. /\ Tables(q, m) /\ OnePlaceEach(PageAt(q, m), f \cup {r[s]}) /\ SameMaps(r, m, q, m)
        /\ \A i, j, k \in Vpn : Maps(r, m, s, i, j, k) = NoPage
    BY <2>2, <2>3, RootRemoved
  <2> QED
    BY <2>1, <2>4
<1> QED
  BY <1>1, <1>3, <1>4, <1>5 DEF TreeInv

\* map_page adds one mapping where there is none, or none at all.
LEMMA MapKeeps ==
    ASSUME TreeInv, NEW s \in Space, NEW v \in Vpn \X Vpn \X Vpn, NEW t \in Target, MapPage(s, v, t)
    PROVE  /\ TreeInv' /\ root' = root /\ root[s] # NoPage
           /\ \/ SameMaps(root, table, root', table')
              \/ /\ Maps(root, table, s, v[1], v[2], v[3]) = NoPage
                 /\ Maps(root', table', s, v[1], v[2], v[3]) = t
                 /\ \A z \in Space, a, b, c \in Vpn :
                       <<z, a, b, c>> # <<s, v[1], v[2], v[3]>> =>
                          Maps(root', table', z, a, b, c) = Maps(root, table, z, a, b, c)
<1>1. root[s] # NoPage /\ root' = root
  BY DEF MapPage
<1>2. v[1] \in Vpn /\ v[2] \in Vpn /\ v[3] \in Vpn
  OBVIOUS
<1>3. PICK h, n, e : /\ Walk(s, v) = WalkAt(h, n, e) /\ WalkSafe(root, table, n, e)
                     /\ h \in {NoPage, Last(root, n, s, v[1], v[2])}
  BY <1>1, WalkArrives DEF TreeInv
<1>4. /\ unused' = e
      /\ table' = IF h # NoPage /\ n[h][v[3]] = NoPage THEN [n EXCEPT ![h][v[3]] = t] ELSE n
  <2>1. PICK w : w = Walk(s, v)
    OBVIOUS
  <2>2. w.at = h /\ w.mem = n /\ w.left = e
    BY <1>3, <2>1 DEF WalkAt
  <2>3. /\ unused' = w.left
        /\ table' = IF w.at # NoPage /\ w.mem[w.at][v[3]] = NoPage
                    THEN [w.mem EXCEPT ![w.at][v[3]] = t] ELSE w.mem
    BY <2>1 DEF MapPage, IsUnmapped
  <2> QED
    BY <2>2, <2>3
<1>5. PICK r, m : r = root /\ m = table
  OBVIOUS
<1>6. /\ Tables(r, n) /\ OnePlaceEach(PageAt(r, n), e) /\ SameMaps(r, m, r, n)
      /\ h \in {NoPage, Last(r, n, s, v[1], v[2])}
  BY <1>3, <1>5 DEF WalkSafe
<1>7. CASE table' = n
  BY <1>1, <1>4, <1>5, <1>6, <1>7 DEF TreeInv
<1>8. CASE h # NoPage /\ n[h][v[3]] = NoPage /\ table' = [n EXCEPT ![h][v[3]] = t]
  <2>1. PICK o : o = Written(n, h, v[3], t)
    OBVIOUS
  <2>2. table' = o
    BY <1>8, <2>1 DEF Written
  <2>3. /\ h = Last(r, n, s, v[1], v[2]) /\ h # NoPage /\ t \in Pte
        /\ Maps(r, n, s, v[1], v[2], v[3]) = NoPage
    BY <1>6, <1>8 DEF Maps, EntryOf, Pte
  <2>4. /\ Tables(r, o) /\ OnePlaceEach(PageAt(r, o), e) /\ Maps(r, o, s, v[1], v[2], v[3]) = t
        /\ \A z \in Space, a, b, c \in Vpn :
              <<z, a, b, c>> # <<s, v[1], v[2], v[3]>> => Maps(r, o, z, a, b, c) = Maps(r, n, z, a, b, c)
    BY <1>2, <1>6, <2>1, <2>3, EntryWritten
  <2>5. \A z \in Space, a, b, c \in Vpn : Maps(r, n, z, a, b, c) = Maps(r, m, z, a, b, c)
    BY <1>6 DEF SameMaps
  <2>6. /\ Maps(r, m, s, v[1], v[2], v[3]) = NoPage
        /\ \A z \in Space, a, b, c \in Vpn :
              <<z, a, b, c>> # <<s, v[1], v[2], v[3]>> => Maps(r, o, z, a, b, c) = Maps(r, m, z, a, b, c)
    BY <1>2, <2>3, <2>4, <2>5
  <2>7. TreeInv'
    BY <1>1, <1>4, <1>5, <2>2, <2>4 DEF TreeInv
  <2> QED
    BY <1>1, <1>5, <2>2, <2>4, <2>6, <2>7
<1> QED
  BY <1>4, <1>7, <1>8

\* unmap_page takes one away.
LEMMA UnmapKeeps ==
    ASSUME TreeInv, NEW s \in Space, NEW v \in Vpn \X Vpn \X Vpn, UnmapPage(s, v)
    PROVE  /\ TreeInv' /\ root' = root /\ root[s] # NoPage
           /\ Maps(root, table, s, v[1], v[2], v[3]) # NoPage
           /\ Maps(root', table', s, v[1], v[2], v[3]) = NoPage
           /\ \A z \in Space, a, b, c \in Vpn :
                 <<z, a, b, c>> # <<s, v[1], v[2], v[3]>> =>
                    Maps(root', table', z, a, b, c) = Maps(root, table, z, a, b, c)
<1>1. PICK r, m, f : r = root /\ m = table /\ f = unused
  OBVIOUS
<1>2. PICK h : h = Last(r, m, s, v[1], v[2])
  OBVIOUS
<1>3. /\ Maps(r, m, s, v[1], v[2], v[3]) # NoPage
      /\ table' = [table EXCEPT ![h][v[3]] = NoPage] /\ root' = root /\ unused' = unused
  BY <1>1, <1>2, WalkReads DEF UnmapPage
<1>4. h # NoPage /\ r[s] # NoPage
  <2>1. h = NoPage => Maps(r, m, s, v[1], v[2], v[3]) = NoPage
    BY <1>2, NoPageIsNoPage DEF Maps, EntryOf
  <2>2. r[s] = NoPage => h = NoPage
    BY <1>2, NoPageIsNoPage DEF Last, Middle, EntryOf
  <2> QED
    BY <1>3, <2>1, <2>2
<1>5. v[1] \in Vpn /\ v[2] \in Vpn /\ v[3] \in Vpn /\ NoPage \in Pte
  BY DEF Pte
<1>6. PICK o : o = Written(m, h, v[3], NoPage)
  OBVIOUS
<1>7. table' = o /\ Tables(r, m) /\ OnePlaceEach(PageAt(r, m), f)
  BY <1>1, <1>3, <1>6 DEF Written, TreeInv
<1>8. /\ Tables(r, o) /\ OnePlaceEach(PageAt(r, o), f) /\ Maps(r, o, s, v[1], v[2], v[3]) = NoPage
      /\ \A z \in Space, a, b, c \in Vpn :
            <<z, a, b, c>> # <<s, v[1], v[2], v[3]>> => Maps(r, o, z, a, b, c) = Maps(r, m, z, a, b, c)
  BY <1>2, <1>4, <1>5, <1>6, <1>7, EntryWritten
<1>9. TreeInv'
  BY <1>1, <1>3, <1>7, <1>8 DEF TreeInv
<1>10. root = r /\ table = m /\ root' = r /\ table' = o
  BY <1>1, <1>3, <1>7
<1>11. /\ root' = root /\ root[s] # NoPage /\ Maps(root, table, s, v[1], v[2], v[3]) # NoPage
       /\ Maps(root', table', s, v[1], v[2], v[3]) = NoPage
  BY <1>3, <1>4, <1>8, <1>10
<1>12. \A z \in Space, a, b, c \in Vpn :
          <<z, a, b, c>> # <<s, v[1], v[2], v[3]>> =>
             Maps(root', table', z, a, b, c) = Maps(root, table, z, a, b, c)
  BY <1>8, <1>10
<1> QED
  BY <1>9, <1>11, <1>12, Zenon

LEMMA TreeStep ==
    ASSUME Vaddr \subseteq Vpn \X Vpn \X Vpn, NoPage \notin Target, TreeInv, [PagingNext]_pagingVars
    PROVE  TreeInv'
<1>1. ASSUME NEW s \in Space, CreatePageTable(s) PROVE TreeInv'
  BY <1>1, CreateKeeps
<1>2. ASSUME NEW s \in Space, FreePageTable(s) PROVE TreeInv'
  BY <1>2, FreeKeeps
<1>3. ASSUME NEW s \in Space, NEW v \in Vaddr, UnmapPage(s, v) PROVE TreeInv'
  <2>1. v \in Vpn \X Vpn \X Vpn
    OBVIOUS
  <2> QED
    BY <1>3, <2>1, UnmapKeeps
<1>4. ASSUME NEW s \in Space, NEW v \in Vaddr, NEW t \in Target, MapPage(s, v, t) PROVE TreeInv'
  <2>1. v \in Vpn \X Vpn \X Vpn /\ t # NoPage
    OBVIOUS
  <2> QED
    BY <1>4, <2>1, MapKeeps
<1>5. CASE UNCHANGED pagingVars
  BY <1>5 DEF pagingVars, TreeInv
<1> QED
  BY <1>1, <1>2, <1>3, <1>4, <1>5 DEF PagingNext

\* Each page is a table at one place, or free.
LEMMA TreeCounts == ASSUME TreeInv PROVE TablePages
<1>1. PICK r, m, f : r = root /\ m = table /\ f = unused
  OBVIOUS
<1>2. Tables(r, m) /\ OnePlaceEach(PageAt(r, m), f)
  BY <1>1 DEF TreeInv
<1>3. \A g : LeadsTo(g) = {s \in Space : r[s] = g}
                \cup {x \in Space \X Vpn : Middle(r, m, x[1], x[2]) = g}
                \cup {x \in Space \X Vpn \X Vpn : Last(r, m, x[1], x[2], x[3]) = g}
  <2>1. \A g \in Spot : \A i : Entry(g, i) = EntryOf(m, g, i)
    BY <1>1, NoPageIsNoPage DEF Entry, EntryOf, Spot
  <2>2. /\ \A s \in Space : r[s] \in Spot
        /\ \A s \in Space, i \in Vpn : Middle(r, m, s, i) \in Spot
    BY <1>2, Apart
  <2>3. \A x \in Space \X Vpn : Entry(root[x[1]], x[2]) = Middle(r, m, x[1], x[2])
    BY <1>1, <2>1, <2>2 DEF Middle
  <2>4. \A x \in Space \X Vpn \X Vpn :
           Entry(Entry(root[x[1]], x[2]), x[3]) = Last(r, m, x[1], x[2], x[3])
    <3> SUFFICES ASSUME NEW s \in Space, NEW i \in Vpn, NEW j \in Vpn
                 PROVE  Entry(Entry(root[s], i), j) = Last(r, m, s, i, j)
      OBVIOUS
    <3>1. Entry(root[s], i) = Middle(r, m, s, i)
      BY <1>1, <2>1, <2>2 DEF Middle
    <3> QED
      BY <2>1, <2>2, <3>1 DEF Last
  <2> QED
    BY <1>1, <2>3, <2>4 DEF LeadsTo
<1>4. ASSUME NEW g \in Page, g \in f PROVE Cardinality(LeadsTo(g)) = 0
  <2>1. /\ \A s \in Space : r[s] # g
        /\ \A x \in Space \X Vpn : Middle(r, m, x[1], x[2]) # g
        /\ \A x \in Space \X Vpn \X Vpn : Last(r, m, x[1], x[2], x[3]) # g
    BY <1>2, <1>4, Apart
  <2>2. LeadsTo(g) = {}
    BY <1>3, <2>1
  <2> QED
    BY <2>2, FS_EmptySet
<1>5. ASSUME NEW g \in Page, g \notin f PROVE \E x : LeadsTo(g) = {x}
  <2>1. PICK y \in Place : PageAt(r, m)[y] = g
    BY <1>2, <1>5 DEF OnePlaceEach
  <2>2. g # NoPage
    BY NoPageIsNoPage
  <2>3. CASE \E s \in Space : y = RootPlace(s)
    <3>1. PICK s \in Space : y = RootPlace(s)
      BY <2>3
    <3>2. r[s] = g
      BY <1>2, <2>1, <3>1, Levels
    <3>3. /\ \A t \in Space : r[t] = g => t = s
          /\ \A x \in Space \X Vpn : Middle(r, m, x[1], x[2]) # g
          /\ \A x \in Space \X Vpn \X Vpn : Last(r, m, x[1], x[2], x[3]) # g
      BY <1>2, <2>2, <3>2, Apart
    <3>4. LeadsTo(g) = {s}
      BY <1>3, <3>2, <3>3
    <3> QED
      BY <3>4
  <2>4. CASE \E s \in Space, i \in Vpn : y = MiddlePlace(s, i)
    <3>1. PICK s \in Space, i \in Vpn : y = MiddlePlace(s, i)
      BY <2>4
    <3>2. Middle(r, m, s, i) = g
      BY <1>2, <2>1, <3>1, Levels
    <3>3. /\ \A t \in Space : r[t] # g
          /\ \A x \in Space \X Vpn : Middle(r, m, x[1], x[2]) = g => x[1] = s /\ x[2] = i
          /\ \A x \in Space \X Vpn \X Vpn : Last(r, m, x[1], x[2], x[3]) # g
      BY <1>2, <2>2, <3>2, Apart
    <3>4. LeadsTo(g) = {<<s, i>>}
      BY <1>3, <3>2, <3>3
    <3> QED
      BY <3>4
  <2>5. CASE \E s \in Space, i, j \in Vpn : y = LastPlace(s, i, j)
    <3>1. PICK s \in Space, i \in Vpn, j \in Vpn : y = LastPlace(s, i, j)
      BY <2>5
    <3>2. Last(r, m, s, i, j) = g
      BY <1>2, <2>1, <3>1, Levels
    <3>3. /\ \A t \in Space : r[t] # g
          /\ \A x \in Space \X Vpn : Middle(r, m, x[1], x[2]) # g
          /\ \A x \in Space \X Vpn \X Vpn :
                Last(r, m, x[1], x[2], x[3]) = g => x[1] = s /\ x[2] = i /\ x[3] = j
      BY <1>2, <2>2, <3>2, Apart
    <3>4. LeadsTo(g) = {<<s, i, j>>}
      BY <1>3, <3>2, <3>3
    <3> QED
      BY <3>4
  <2>6. \/ \E s \in Space : y = RootPlace(s)
        \/ \E s \in Space, i \in Vpn : y = MiddlePlace(s, i)
        \/ \E s \in Space, i, j \in Vpn : y = LastPlace(s, i, j)
    BY DEF Place
  <2> QED
    BY <2>3, <2>4, <2>5, <2>6, Zenon
<1>6. \A g \in Page : Cardinality(LeadsTo(g)) = IF g \in unused THEN 0 ELSE 1
  <2>1. \A g \in Page : g \notin f => Cardinality(LeadsTo(g)) = 1
    BY <1>5, FS_Singleton
  <2> QED
    BY <1>1, <1>4, <2>1
<1> QED
  BY <1>6 DEF TablePages

\* Every page is free or a table at one place of one space.
THEOREM OneTableEach == PagingSpec => []TablePages
<1>1. PagingInit => TreeInv
  BY NoTablesYet
<1>2. TreeInv /\ [PagingNext]_pagingVars => TreeInv'
  BY TreeStep, VaddrAssumption, TargetAssumption
<1>3. TreeInv => TablePages
  BY TreeCounts
<1> QED
  BY <1>1, <1>2, <1>3, PTL DEF PagingSpec

-----------------------------------------------------------------------------
(***************************************************************************)
(* Page tables implement address maps                                      *)
(***************************************************************************)

Mapped(r, m, s)   == {u \in Vaddr : Maps(r, m, s, u[1], u[2], u[3]) # NoPage}
SpaceMap(r, m, s) == [u \in Mapped(r, m, s) |-> Maps(r, m, s, u[1], u[2], u[3])]
MapOf(r, m)       == [s \in Space |-> IF r[s] = NoPage THEN NoSpace ELSE SpaceMap(r, m, s)]

LEMMA MappingsAre ==
    ASSUME Vaddr \subseteq Vpn \X Vpn \X Vpn, TreeInv PROVE Mappings = MapOf(root, table)
<1>1. \A s \in Space, u \in Vaddr : LastEntry(s, u) = Maps(root, table, s, u[1], u[2], u[3])
  BY WalkReads
<1> QED
  BY <1>1 DEF Mappings, MapOf, SpaceMap, Mapped

LEMMA MappingsNext ==
    ASSUME Vaddr \subseteq Vpn \X Vpn \X Vpn, TreeInv' PROVE Mappings' = MapOf(root', table')
<1>1. \A s \in Space, u \in Vaddr : LastEntry(s, u)' = Maps(root', table', s, u[1], u[2], u[3])
  BY WalkReadsNext
<1> QED
  BY <1>1 DEF Mappings, MapOf, SpaceMap, Mapped

\* A space that exists has a mapping to pages.
LEMMA SpaceMapIs ==
    ASSUME Vaddr \subseteq Vpn \X Vpn \X Vpn, NEW r, NEW m, Tables(r, m), NEW s \in Space
    PROVE  SpaceMap(r, m, s) \in [Mapped(r, m, s) -> Page \cup Target] /\ Mapped(r, m, s) \in SUBSET Vaddr
<1>1. PICK at : at = PageAt(r, m)
  OBVIOUS
<1>2. \A i, j \in Vpn : Last(r, m, s, i, j) \in Pte
  BY <1>1, Levels
<1>3. \A i, j, k \in Vpn : Maps(r, m, s, i, j, k) \in Pte
  BY <1>2 DEF Maps, EntryOf, Tables, Pte
<1>4. \A u \in Mapped(r, m, s) : Maps(r, m, s, u[1], u[2], u[3]) \in Page \cup Target
  BY <1>3 DEF Mapped, Pte
<1> QED
  BY <1>4 DEF SpaceMap, Mapped

LEMMA SameSpaceMap ==
    ASSUME Vaddr \subseteq Vpn \X Vpn \X Vpn, NEW r, NEW m, NEW q, NEW n, NEW s \in Space,
           \A a, b, c \in Vpn : Maps(q, n, s, a, b, c) = Maps(r, m, s, a, b, c)
    PROVE  Mapped(q, n, s) = Mapped(r, m, s) /\ SpaceMap(q, n, s) = SpaceMap(r, m, s)
<1>1. \A u \in Vaddr : Maps(q, n, s, u[1], u[2], u[3]) = Maps(r, m, s, u[1], u[2], u[3])
  OBVIOUS
<1>2. Mapped(q, n, s) = Mapped(r, m, s)
  BY <1>1 DEF Mapped
<1>3. \A u \in Mapped(r, m, s) : u \in Vaddr
  BY DEF Mapped
<1> QED
  BY <1>1, <1>2, <1>3 DEF SpaceMap

\* s, v: all that changes, from memory m to memory n, of what is mapped; of what s maps.
OnlyAt(r, m, n, s, v) ==
    \A z \in Space, a, b, c \in Vpn :
       <<z, a, b, c>> # <<s, v[1], v[2], v[3]>> => Maps(r, n, z, a, b, c) = Maps(r, m, z, a, b, c)
OnlyAtIn(r, m, n, s, v) ==
    \A u \in Vaddr \ {v} : Maps(r, n, s, u[1], u[2], u[3]) = Maps(r, m, s, u[1], u[2], u[3])
\* v, which was not mapped, is mapped to t; v, which was mapped, is not any more.
Added(r, m, n, s, v, t) ==
    /\ Maps(r, m, s, v[1], v[2], v[3]) = NoPage /\ Maps(r, n, s, v[1], v[2], v[3]) = t
    /\ OnlyAt(r, m, n, s, v)
Removed(r, m, n, s, v) ==
    /\ Maps(r, m, s, v[1], v[2], v[3]) # NoPage /\ Maps(r, n, s, v[1], v[2], v[3]) = NoPage
    /\ OnlyAt(r, m, n, s, v)
\* The mapping f with v added, and without v.
With(f, v, t) == [w \in DOMAIN f \cup {v} |-> IF w = v THEN t ELSE f[w]]
Without(f, v) == [w \in DOMAIN f \ {v} |-> f[w]]
AddsTo(f, g, s, v, t)  == v \notin DOMAIN f[s] /\ g = [f EXCEPT ![s] = With(f[s], v, t)]
TakesFrom(f, g, s, v)  == v \in DOMAIN f[s] /\ g = [f EXCEPT ![s] = Without(f[s], v)]
\* The other spaces map what they did.
OthersSame(r, m, q, n, s) ==
    \A t \in Space \ {s} : q[t] = r[t] /\ SpaceMap(q, n, t) = SpaceMap(r, m, t)

\* The steps of an address map, on the mapping of one space.
LEMMA MapOfChanges ==
    ASSUME NEW r, NEW m, NEW q, NEW n, NEW s \in Space, q[s] # NoPage, OthersSame(r, m, q, n, s)
    PROVE  MapOf(q, n) = [MapOf(r, m) EXCEPT ![s] = SpaceMap(q, n, s)]
BY DEF MapOf, OthersSame

LEMMA MapOfEnds ==
    ASSUME NEW r, NEW m, NEW q, NEW n, NEW s \in Space, q[s] = NoPage, OthersSame(r, m, q, n, s)
    PROVE  MapOf(q, n) = [MapOf(r, m) EXCEPT ![s] = NoSpace]
BY DEF MapOf, OthersSame

LEMMA OthersKeep ==
    ASSUME Vaddr \subseteq Vpn \X Vpn \X Vpn, NEW r, NEW m, NEW q, NEW n, SameMaps(r, m, q, n),
           NEW s \in Space, \A t \in Space \ {s} : q[t] = r[t]
    PROVE  OthersSame(r, m, q, n, s)
<1> SUFFICES ASSUME NEW t \in Space \ {s} PROVE q[t] = r[t] /\ SpaceMap(q, n, t) = SpaceMap(r, m, t)
  BY DEF OthersSame
<1>1. \A a, b, c \in Vpn : Maps(q, n, t, a, b, c) = Maps(r, m, t, a, b, c)
  BY DEF SameMaps
<1>2. SpaceMap(q, n, t) = SpaceMap(r, m, t)
  BY <1>1, SameSpaceMap
<1> QED
  BY <1>2

\* The mapping of s when v is mapped to t, and when v is unmapped.
LEMMA OneAdded ==
    ASSUME NEW r, NEW m, NEW n, NEW s \in Space, NEW v \in Vaddr,
           NEW t, t # NoPage, Maps(r, n, s, v[1], v[2], v[3]) = t,
           OnlyAtIn(r, m, n, s, v)
    PROVE  SpaceMap(r, n, s) = With(SpaceMap(r, m, s), v, t)
<1>1. Mapped(r, n, s) = Mapped(r, m, s) \cup {v}
  BY NoPageIsNoPage DEF Mapped, OnlyAtIn
<1>2. \A u \in Mapped(r, m, s) \cup {v} :
         Maps(r, n, s, u[1], u[2], u[3]) = IF u = v THEN t ELSE SpaceMap(r, m, s)[u]
  <2>1. \A u \in Mapped(r, m, s) : /\ u \in Vaddr
                                   /\ SpaceMap(r, m, s)[u] = Maps(r, m, s, u[1], u[2], u[3])
    BY DEF Mapped, SpaceMap
  <2> QED
    BY <2>1 DEF OnlyAtIn
<1>3. DOMAIN SpaceMap(r, m, s) = Mapped(r, m, s)
  BY DEF SpaceMap
<1> QED
  BY <1>1, <1>2, <1>3 DEF SpaceMap, With

LEMMA OneRemoved ==
    ASSUME NEW r, NEW m, NEW n, NEW s \in Space, NEW v \in Vaddr,
           Maps(r, n, s, v[1], v[2], v[3]) = NoPage,
           OnlyAtIn(r, m, n, s, v)
    PROVE  SpaceMap(r, n, s) = Without(SpaceMap(r, m, s), v)
<1>1. Mapped(r, n, s) = Mapped(r, m, s) \ {v}
  BY DEF Mapped, OnlyAtIn
<1>2. \A u \in Mapped(r, m, s) \ {v} : Maps(r, n, s, u[1], u[2], u[3]) = SpaceMap(r, m, s)[u]
  <2>1. \A u \in Mapped(r, m, s) : /\ u \in Vaddr
                                   /\ SpaceMap(r, m, s)[u] = Maps(r, m, s, u[1], u[2], u[3])
    BY DEF Mapped, SpaceMap
  <2> QED
    BY <2>1 DEF OnlyAtIn
<1>3. DOMAIN SpaceMap(r, m, s) = Mapped(r, m, s)
  BY DEF SpaceMap
<1> QED
  BY <1>1, <1>2, <1>3 DEF SpaceMap, Without

\* create_page_table: s maps nothing, where it was not a space.
LEMMA CreateMaps ==
    ASSUME Vaddr \subseteq Vpn \X Vpn \X Vpn, NEW r, NEW m, NEW q, NEW n, SameMaps(r, m, q, n),
           NEW s \in Space, r[s] = NoPage, q[s] # NoPage, \A t \in Space \ {s} : q[t] = r[t]
    PROVE  MapOf(r, m)[s] = NoSpace /\ MapOf(q, n) = [MapOf(r, m) EXCEPT ![s] = [v \in {} |-> v]]
<1>1. \A i, j, k \in Vpn : Maps(q, n, s, i, j, k) = NoPage
  <2>1. \A i, j, k \in Vpn : Maps(r, m, s, i, j, k) = NoPage
    BY NoPageIsNoPage DEF Maps, Last, Middle, EntryOf
  <2> QED
    BY <2>1 DEF SameMaps
<1>2. Mapped(q, n, s) = {}
  BY <1>1 DEF Mapped
<1>3. SpaceMap(q, n, s) = [v \in {} |-> v]
  BY <1>2 DEF SpaceMap
<1>4. OthersSame(r, m, q, n, s)
  BY OthersKeep
<1>5. MapOf(q, n) = [MapOf(r, m) EXCEPT ![s] = SpaceMap(q, n, s)]
  BY <1>4, MapOfChanges
<1>6. MapOf(r, m)[s] = NoSpace
  BY DEF MapOf
<1> QED
  BY <1>3, <1>5, <1>6

\* free_page_table: s mapped nothing, and is a space no more.
LEMMA FreeMaps ==
    ASSUME Vaddr \subseteq Vpn \X Vpn \X Vpn, NEW r, NEW m, NEW q, NEW n, SameMaps(r, m, q, n),
           NEW s \in Space, r[s] # NoPage, q[s] = NoPage, \A t \in Space \ {s} : q[t] = r[t],
           \A i, j, k \in Vpn : Maps(r, m, s, i, j, k) = NoPage
    PROVE  DOMAIN MapOf(r, m)[s] = {} /\ MapOf(q, n) = [MapOf(r, m) EXCEPT ![s] = NoSpace]
<1>1. Mapped(r, m, s) = {}
  BY DEF Mapped
<1>2. DOMAIN MapOf(r, m)[s] = {}
  BY <1>1 DEF MapOf, SpaceMap
<1>3. OthersSame(r, m, q, n, s)
  BY OthersKeep
<1>4. MapOf(q, n) = [MapOf(r, m) EXCEPT ![s] = NoSpace]
  BY <1>3, MapOfEnds
<1> QED
  BY <1>2, <1>4

\* What an existing space maps.
LEMMA MapOfIs ==
    ASSUME Vaddr \subseteq Vpn \X Vpn \X Vpn, \A D \in SUBSET Vaddr : NoSpace \notin [D -> Page \cup Target],
           NEW r, NEW m, Tables(r, m), NEW s \in Space, r[s] # NoPage
    PROVE  /\ MapOf(r, m)[s] = SpaceMap(r, m, s) /\ MapOf(r, m)[s] # NoSpace
           /\ DOMAIN MapOf(r, m)[s] = Mapped(r, m, s)
<1>1. MapOf(r, m)[s] = SpaceMap(r, m, s)
  BY DEF MapOf
<1>2. PICK D \in SUBSET Vaddr : D = Mapped(r, m, s)
  BY DEF Mapped
<1>3. SpaceMap(r, m, s) \in [D -> Page \cup Target]
  BY <1>2, SpaceMapIs
<1>4. NoSpace \notin [D -> Page \cup Target]
  BY <1>2
<1> QED
  BY <1>1, <1>2, <1>3, <1>4

\* map_page and unmap_page: the other spaces map what they did.
LEMMA OthersMap ==
    ASSUME Vaddr \subseteq Vpn \X Vpn \X Vpn, NEW r, NEW m, NEW n, NEW s \in Space,
           NEW v \in Vpn \X Vpn \X Vpn, OnlyAt(r, m, n, s, v)
    PROVE  OthersSame(r, m, r, n, s) /\ OnlyAtIn(r, m, n, s, v)
<1>1. ASSUME NEW t \in Space \ {s} PROVE SpaceMap(r, n, t) = SpaceMap(r, m, t)
  <2>1. \A a, b, c \in Vpn : Maps(r, n, t, a, b, c) = Maps(r, m, t, a, b, c)
    BY DEF OnlyAt
  <2> QED
    BY <2>1, SameSpaceMap
<1>2. ASSUME NEW u \in Vaddr \ {v}
      PROVE  Maps(r, n, s, u[1], u[2], u[3]) = Maps(r, m, s, u[1], u[2], u[3])
  <2>1. u \in Vpn \X Vpn \X Vpn
    OBVIOUS
  <2>2. u = <<u[1], u[2], u[3]>> /\ v = <<v[1], v[2], v[3]>>
    BY <2>1
  <2>3. u[1] # v[1] \/ u[2] # v[2] \/ u[3] # v[3]
    BY <2>2
  <2>4. <<s, u[1], u[2], u[3]>> # <<s, v[1], v[2], v[3]>>
    BY <2>3
  <2> QED
    BY <2>1, <2>4 DEF OnlyAt
<1> QED
  BY <1>1, <1>2 DEF OthersSame, OnlyAtIn

\* map_page that does map: v is added.
LEMMA MapMaps ==
    ASSUME Vaddr \subseteq Vpn \X Vpn \X Vpn, NEW r, NEW m, NEW n,
           NEW s \in Space, r[s] # NoPage, NEW v \in Vaddr, NEW t, t # NoPage,
           Added(r, m, n, s, v, t)
    PROVE  AddsTo(MapOf(r, m), MapOf(r, n), s, v, t)
<1>1. v \in Vpn \X Vpn \X Vpn
  OBVIOUS
<1>2. OthersSame(r, m, r, n, s) /\ OnlyAtIn(r, m, n, s, v)
  BY <1>1, OthersMap DEF Added
<1>3. MapOf(r, m)[s] = SpaceMap(r, m, s) /\ DOMAIN MapOf(r, m)[s] = Mapped(r, m, s)
  BY DEF MapOf, SpaceMap
<1>4. SpaceMap(r, n, s) = With(SpaceMap(r, m, s), v, t)
  BY <1>2, OneAdded DEF Added
<1>5. MapOf(r, n) = [MapOf(r, m) EXCEPT ![s] = SpaceMap(r, n, s)]
  BY <1>2, MapOfChanges
<1>6. v \notin Mapped(r, m, s)
  BY DEF Mapped, Added
<1> QED
  BY <1>3, <1>4, <1>5, <1>6 DEF AddsTo

\* unmap_page: v is taken away.
LEMMA UnmapMaps ==
    ASSUME Vaddr \subseteq Vpn \X Vpn \X Vpn, NEW r, NEW m, NEW n,
           NEW s \in Space, r[s] # NoPage, NEW v \in Vaddr, Removed(r, m, n, s, v)
    PROVE  TakesFrom(MapOf(r, m), MapOf(r, n), s, v)
<1>1. v \in Vpn \X Vpn \X Vpn
  OBVIOUS
<1>2. OthersSame(r, m, r, n, s) /\ OnlyAtIn(r, m, n, s, v)
  BY <1>1, OthersMap DEF Removed
<1>3. MapOf(r, m)[s] = SpaceMap(r, m, s) /\ DOMAIN MapOf(r, m)[s] = Mapped(r, m, s)
  BY DEF MapOf, SpaceMap
<1>4. SpaceMap(r, n, s) = Without(SpaceMap(r, m, s), v)
  BY <1>2, OneRemoved DEF Removed
<1>5. MapOf(r, n) = [MapOf(r, m) EXCEPT ![s] = SpaceMap(r, n, s)]
  BY <1>2, MapOfChanges
<1>6. v \in Mapped(r, m, s)
  BY DEF Mapped, Removed
<1> QED
  BY <1>3, <1>4, <1>5, <1>6 DEF TakesFrom

\* Every call is a step of the address map, or none.
LEMMA StepIsMapStep ==
    ASSUME Vaddr \subseteq Vpn \X Vpn \X Vpn, NoPage \notin Target,
           \A D \in SUBSET Vaddr : NoSpace \notin [D -> Page \cup Target],
           TreeInv, [PagingNext]_pagingVars
    PROVE  [A!Next]_Mappings
<1>1. PICK r, m, q, n : r = root /\ m = table /\ q = root' /\ n = table'
  OBVIOUS
<1>2. Mappings = MapOf(r, m) /\ Mappings' = MapOf(q, n)
  <2>1. TreeInv'
    BY TreeStep
  <2> QED
    BY <1>1, <2>1, MappingsAre, MappingsNext
<1>3. Tables(r, m)
  BY <1>1 DEF TreeInv
<1>4. ASSUME NEW s \in Space, CreatePageTable(s) PROVE A!Create(s)
  <2>1. /\ SameMaps(r, m, q, n) /\ r[s] = NoPage /\ q[s] # NoPage
        /\ \A t \in Space \ {s} : q[t] = r[t]
    BY <1>1, <1>4, CreateKeeps
  <2>2. MapOf(r, m)[s] = NoSpace /\ MapOf(q, n) = [MapOf(r, m) EXCEPT ![s] = [v \in {} |-> v]]
    BY <2>1, CreateMaps
  <2> QED
    BY <1>2, <2>2 DEF A!Create
<1>5. ASSUME NEW s \in Space, FreePageTable(s) PROVE A!Free(s)
  <2>1. /\ SameMaps(r, m, q, n) /\ r[s] # NoPage /\ q[s] = NoPage
        /\ \A t \in Space \ {s} : q[t] = r[t]
        /\ \A i, j, k \in Vpn : Maps(r, m, s, i, j, k) = NoPage
    BY <1>1, <1>5, FreeKeeps
  <2>2. DOMAIN MapOf(r, m)[s] = {} /\ MapOf(q, n) = [MapOf(r, m) EXCEPT ![s] = NoSpace]
    BY <2>1, FreeMaps
  <2>3. MapOf(r, m)[s] # NoSpace
    BY <1>3, <2>1, MapOfIs
  <2> QED
    BY <1>2, <2>2, <2>3 DEF A!Free
<1>6. ASSUME NEW s \in Space, NEW v \in Vaddr, UnmapPage(s, v) PROVE A!Unmap(s, v)
  <2>1. v \in Vpn \X Vpn \X Vpn
    OBVIOUS
  <2>2. /\ q = r /\ r[s] # NoPage /\ Removed(r, m, n, s, v)
    BY <1>1, <1>6, <2>1, UnmapKeeps DEF OnlyAt, Removed
  <2>3. TakesFrom(MapOf(r, m), MapOf(q, n), s, v)
    BY <2>2, UnmapMaps
  <2>4. MapOf(r, m)[s] # NoSpace
    BY <1>3, <2>2, MapOfIs
  <2> QED
    BY <1>2, <2>3, <2>4 DEF A!Unmap, TakesFrom, Without
<1>7. ASSUME NEW s \in Space, NEW v \in Vaddr, NEW t \in Target, MapPage(s, v, t)
      PROVE  A!Map(s, v, t) \/ UNCHANGED Mappings
  <2>1. v \in Vpn \X Vpn \X Vpn /\ t # NoPage
    OBVIOUS
  <2>2. /\ q = r /\ r[s] # NoPage
        /\ SameMaps(r, m, r, n) \/ Added(r, m, n, s, v, t)
    BY <1>1, <1>7, <2>1, MapKeeps DEF OnlyAt, Added
  <2>3. CASE SameMaps(r, m, r, n)
    <3>1. \A z \in Space : SpaceMap(r, n, z) = SpaceMap(r, m, z)
      BY <2>3, SameSpaceMap DEF SameMaps
    <3>2. MapOf(q, n) = MapOf(r, m)
      BY <2>2, <3>1 DEF MapOf
    <3> QED
      BY <1>2, <3>2
  <2>4. CASE Added(r, m, n, s, v, t)
    <3>1. AddsTo(MapOf(r, m), MapOf(q, n), s, v, t)
      BY <2>1, <2>2, <2>4, MapMaps
    <3>2. MapOf(r, m)[s] # NoSpace
      BY <1>3, <2>2, MapOfIs
    <3> QED
      BY <1>2, <3>1, <3>2 DEF A!Map, AddsTo, With
  <2> QED
    BY <2>2, <2>3, <2>4
<1>8. CASE UNCHANGED pagingVars
  <2>1. q = r /\ n = m
    BY <1>1, <1>8 DEF pagingVars
  <2> QED
    BY <1>2, <2>1
<1> QED
  BY <1>4, <1>5, <1>6, <1>7, <1>8 DEF PagingNext, A!Next

\* At first there are no spaces.
LEMMA InitIsMapInit == ASSUME Vaddr \subseteq Vpn \X Vpn \X Vpn, PagingInit PROVE A!Init
<1>1. \A s \in Space : root[s] = NoPage
  BY NoTablesYet
<1>2. MapOf(root, table) = [s \in Space |-> NoSpace]
  BY <1>1 DEF MapOf
<1> QED
  BY <1>2, MappingsAre, NoTablesYet DEF A!Init

\* The entries with PTE_V make up an address map that only map_page and
\* unmap_page change, at their page: a map_page that gives up in the middle of
\* a walk, a table made of used memory and another space's tables change no
\* mapping.  What is mapped is any physical page, page 0 included; what
\* walk_page_table answers for that one is another matter (AnswerTellsMapped).
THEOREM ImplementsAddressMap == PagingSpec => IsAddressMap
<1>1. PagingInit => TreeInv /\ A!Init
  BY NoTablesYet, InitIsMapInit, VaddrAssumption
<1>2. TreeInv /\ [PagingNext]_pagingVars => TreeInv'
  BY TreeStep, VaddrAssumption, TargetAssumption
<1>3. TreeInv /\ [PagingNext]_pagingVars => [A!Next]_Mappings
  BY StepIsMapStep, VaddrAssumption, TargetAssumption, NoSpaceAssumption
<1> QED
  BY <1>1, <1>2, <1>3, PTL DEF PagingSpec, IsAddressMap, A!Spec

=============================================================================
