-------------------------------- MODULE Proc --------------------------------
(***************************************************************************)
(* The process table of the kernel and the calls that change it: fork,     *)
(* exit, wait, sleep and wakeup (kernel/proc/control.c), alloc_proc,       *)
(* free_proc and proc_init (kernel/proc/process.c), yield and the          *)
(* round-robin scheduler (kernel/proc/scheduler.c), and the timer branch   *)
(* of kerneltrap (kernel/trap/trap.c), with the three physical pages every *)
(* process owns.                                                           *)
(*                                                                         *)
(* One hart.  A call of the table is one action: it is entered with        *)
(* interrupts off (from the trap handler, or from kernel_main, which never *)
(* enables them).  The scheduler is stepped one table entry at a time.     *)
(***************************************************************************)
EXTENDS PhysMem, FiniteSets

CONSTANTS
    NPROC,              \* size of proc_table
    MaxPid,             \* bound on next_pid, so that runs are finite
    SchedulerReturns,   \* FALSE: as written, a process that called scheduler()
                        \*   and is chosen again goes on in the scheduler's own
                        \*   infinite loop; TRUE: it may also return from it, as
                        \*   the callers yield() and sleep() presume
    TimerOn             \* TRUE: timer interrupts may come where they are enabled

ASSUME NprocAssumption  == NPROC \in Nat \ {0}
ASSUME MaxPidAssumption == MaxPid \in Nat
ASSUME ModeAssumption   == SchedulerReturns \in BOOLEAN /\ TimerOn \in BOOLEAN

Slot     == 0 .. NPROC - 1
NoSlot   == -1                                        \* the NULL struct proc *
Resource == {"kstack", "trapframe", "pagetable"}

VARIABLES
    state,          \* state[s]: p->state of proc_table[s]
    pid,            \* pid[s]: p->pid (0 before the slot's first use)
    parent,         \* parent[s]: slot p->parent points to
    page,           \* page[s][r]: physical page behind p->kstack, ...
    free,           \* free pages of phys_bitmap
    reserved,       \* pages in use before proc_init (constant afterwards)
    current,        \* slot current_process points to
    next_pid,       \* the global next_pid
    current_index,  \* the scheduler's static current_index
    cpu,            \* what the hart executes: see CpuMode
    ret             \* how the last fork or wait returned

vars == <<state, pid, parent, page, free, reserved, current, next_pid,
          current_index, cpu, ret>>

memory == <<page, free, reserved>>
names  == <<pid, parent, next_pid>>

ProcState == {"UNUSED", "USED", "SLEEPING", "RUNNABLE", "RUNNING", "ZOMBIE"}

\* "run": code of the current process; "sched": the loop of scheduler(); then
\* the wfi loop at the end of exit(): "halt" with interrupts off, as the trap
\* of an ecall leaves them, "wfi" with interrupts on, when kernel code that has
\* released a spinlock before (spinlock.c:46) calls exit() itself (main.c:55).
CpuMode == {"run", "sched", "halt", "wfi"}

TypeOK ==
    /\ state \in [Slot -> ProcState]
    /\ pid \in [Slot -> Nat]
    /\ parent \in [Slot -> Slot \cup {NoSlot}]
    /\ page \in [Slot -> [Resource -> Page \cup {NoPage}]]
    /\ free \in SUBSET Page
    /\ reserved \in SUBSET Page
    /\ current \in Slot \cup {NoSlot}
    /\ next_pid \in Nat \ {0}
    /\ current_index \in Slot
    /\ cpu \in CpuMode
    /\ ret \in {"none", "ok", "fail"}

-----------------------------------------------------------------------------
(***************************************************************************)
(* Allocation helpers                                                      *)
(***************************************************************************)

NoPages == [r \in Resource |-> NoPage]

\* The pages fork and proc_init ask for, in their order.  Once one request
\* fails the later ones are not made; they would fail too, so they read as
\* NoPage as well.
Built(avail) ==
    LET k == AllocPage(avail)
        t == AllocPage(avail \ {k})
        g == AllocPage(avail \ {k, t})
    IN  [r \in Resource |-> IF r = "kstack" THEN k
                            ELSE IF r = "trapframe" THEN t ELSE g]

PagesOf(pages) == {pages[r] : r \in Resource}

CompleteNoPageTable(pages) == pages["trapframe"] # NoPage

\* Every page was there: fork and proc_init test each result, and the page
\* table's, asked for last, is there only when the others are.
Complete(pages) == pages["pagetable"] # NoPage

\* The first UNUSED slot of the table.
IsFirstUnused(s) ==
    /\ state[s] = "UNUSED"
    /\ \A q \in Slot : q < s => state[q] # "UNUSED"

ReleasedByKeepsTrapframe(pages) == PagesOf(pages) \ {pages["trapframe"]}

\* The pages free_proc gives back: a field that is NULL is skipped.
ReleasedBy(pages) == PagesOf(pages)

-----------------------------------------------------------------------------
(***************************************************************************)
(* Boot                                                                    *)
(***************************************************************************)

\* Pages in use when kernel_main calls proc_init: the image and the kernel
\* page tables, and the second of the two test pages, which is not given back.
InUseAtBoot(n) == (Page \ InitiallyFree(n)) \cup ({n + 1} \cap Page)

\* proc_init: alloc_proc takes slot 0 and pid 1.  When a page is missing it
\* returns early and leaves the slot USED and current_process NULL; otherwise
\* init is RUNNABLE, not RUNNING, and current.
Init ==
    /\ \E n \in 0 .. NUM_PAGES : reserved = InUseAtBoot(n)
    /\ LET pages == Built(Page \ reserved)
           booted == Complete(pages)
       IN  /\ page = [s \in Slot |-> IF s = 0 THEN pages ELSE NoPages]
           /\ free = (Page \ reserved) \ PagesOf(pages)
           /\ state = [s \in Slot |-> IF s # 0 THEN "UNUSED"
                                      ELSE IF booted THEN "RUNNABLE" ELSE "USED"]
           /\ current = IF booted THEN 0 ELSE NoSlot
    /\ pid = [s \in Slot |-> IF s = 0 THEN 1 ELSE 0]
    /\ parent = [s \in Slot |-> NoSlot]
    /\ next_pid = 2
    /\ current_index = 0
    /\ cpu = "run"
    /\ ret = "none"

-----------------------------------------------------------------------------
(***************************************************************************)
(* fork, wait, exit, sleep, wakeup                                         *)
(***************************************************************************)

\* A call made by the running code.  kernel_main runs on init's behalf while
\* init is still RUNNABLE; it only forks, waits and starts the scheduler.
Calling    == cpu = "run" /\ current # NoSlot
Dispatched == Calling /\ state[current] = "RUNNING"

\* fork with no current process, or with a full table: nothing changes.
ForkRefused ==
    /\ cpu = "run"
    /\ current = NoSlot \/ \A s \in Slot : state[s] # "UNUSED"
    /\ ret' = "fail"
    /\ UNCHANGED <<state, pid, parent, page, free, reserved, current, next_pid,
                   current_index, cpu>>

\* alloc_proc and the assignment of child->parent.
TakeSlot(s) ==
    /\ IsFirstUnused(s)
    /\ next_pid < MaxPid
    /\ pid' = [pid EXCEPT ![s] = next_pid]
    /\ next_pid' = next_pid + 1
    /\ parent' = [parent EXCEPT ![s] = current]

\* The three pages are there: the child is RUNNABLE.
ForkSucceeds ==
    /\ Calling
    /\ Complete(Built(free))
    /\ \E s \in Slot :
          /\ TakeSlot(s)
          /\ page' = [page EXCEPT ![s] = Built(free)]
          /\ free' = free \ PagesOf(Built(free))
          /\ state' = [state EXCEPT ![s] = "RUNNABLE"]
    /\ ret' = "ok"
    /\ UNCHANGED <<reserved, current, current_index, cpu>>

\* A page is missing: free_proc gives back those already taken and the slot
\* is UNUSED again; its pid is spent and its parent pointer stays.
ForkOutOfMemory ==
    /\ Calling
    /\ ~ Complete(Built(free))
    /\ \E s \in Slot :
          /\ TakeSlot(s)
          /\ page' = [page EXCEPT ![s] = NoPages]
          /\ free' = FreePages(free \ PagesOf(Built(free)), ReleasedBy(Built(free)))
          /\ state' = [state EXCEPT ![s] = "UNUSED"]
    /\ ret' = "fail"
    /\ UNCHANGED <<reserved, current, current_index, cpu>>

\* The child wait() would collect: the first ZOMBIE slot whose parent pointer
\* is the caller's slot.
IsDeadChild(s) == parent[s] = current /\ state[s] = "ZOMBIE"

\* wait finds a dead child: free_proc(child).  pid and parent are left alone.
WaitReaps ==
    /\ cpu = "run"
    /\ \E s \in Slot :
          /\ IsDeadChild(s)
          /\ \A q \in Slot : q < s => ~ IsDeadChild(q)
          /\ free' = FreePages(free, ReleasedBy(page[s]))
          /\ page' = [page EXCEPT ![s] = NoPages]
          /\ state' = [state EXCEPT ![s] = "UNUSED"]
    /\ ret' = "ok"
    /\ UNCHANGED <<names, reserved, current, current_index, cpu>>

\* wait finds none: it returns -1 at once.
WaitFails ==
    /\ cpu = "run"
    /\ \A s \in Slot : ~ IsDeadChild(s)
    /\ ret' = "fail"
    /\ UNCHANGED <<state, names, memory, current, current_index, cpu>>

WokenAll(st) ==
    [s \in Slot |-> IF st[s] \in {"SLEEPING", "ZOMBIE"} THEN "RUNNABLE" ELSE st[s]]

\* wakeup ignores its channel: the states after every sleeper of st is woken.
Woken(st) == [s \in Slot |-> IF st[s] = "SLEEPING" THEN "RUNNABLE" ELSE st[s]]

Wakeup ==
    /\ Dispatched
    /\ state' = Woken(state)
    /\ ret' = "none"
    /\ UNCHANGED <<names, memory, current, current_index, cpu>>

ExitFreesItself ==
    /\ Dispatched
    /\ state' = [state EXCEPT ![current] = "UNUSED"]
    /\ free' = FreePages(free, ReleasedBy(page[current]))
    /\ page' = [page EXCEPT ![current] = NoPages]
    /\ cpu' \in {"halt", "wfi"}
    /\ ret' = "none"
    /\ UNCHANGED <<names, reserved, current, current_index>>

\* exit: ZOMBIE, then the parent (every sleeper) is woken when there is one,
\* then the wfi loop; the scheduler is not called.  From "halt" no step leads
\* on: the hart has stopped, whoever is RUNNABLE.
Exit ==
    /\ Dispatched
    /\ LET dead == [state EXCEPT ![current] = "ZOMBIE"]
       IN  state' = IF parent[current] # NoSlot THEN Woken(dead) ELSE dead
    /\ cpu' \in {"halt", "wfi"}
    /\ ret' = "none"
    /\ UNCHANGED <<names, memory, current, current_index>>

\* sleep(chan, NULL): SLEEPING, then scheduler().
Sleep ==
    /\ Dispatched
    /\ state' = [state EXCEPT ![current] = "SLEEPING"]
    /\ cpu' = "sched"
    /\ ret' = "none"
    /\ UNCHANGED <<names, memory, current, current_index>>

-----------------------------------------------------------------------------
(***************************************************************************)
(* yield, the timer and the scheduler                                      *)
(***************************************************************************)

\* yield: only a RUNNING process is made RUNNABLE again.
AfterYield ==
    IF current # NoSlot /\ state[current] = "RUNNING"
    THEN [state EXCEPT ![current] = "RUNNABLE"]
    ELSE state

\* yield() called by the running code; kernel_main's own call of scheduler()
\* at the end of boot has the same effect, its process not being RUNNING.
Yield ==
    /\ cpu = "run"
    /\ state' = AfterYield
    /\ cpu' = "sched"
    /\ ret' = "none"
    /\ UNCHANGED <<names, memory, current, current_index>>

\* kerneltrap, timer interrupt: yield() on behalf of whatever is interrupted,
\* the wfi loop of exit() included when interrupts are on there.  No code
\* programs a timer: a tick may come, and nothing says that one will.
Timer ==
    /\ TimerOn
    /\ cpu # "halt"
    /\ state' = AfterYield
    /\ cpu' = "sched"
    /\ ret' = "none"
    /\ UNCHANGED <<names, memory, current, current_index>>

NextIndexNoWrap == current_index + 1

NextIndexRestarts ==
    IF state[current_index] = "RUNNABLE" THEN 0 ELSE (current_index + 1) % NPROC

\* The scheduler's round robin over the table.
NextIndex == (current_index + 1) % NPROC

\* One turn of the scheduler's loop on a slot it cannot run.
Skip ==
    /\ cpu = "sched"
    /\ state[current_index] # "RUNNABLE"
    /\ current_index' = NextIndex
    /\ UNCHANGED <<state, names, memory, current, cpu, ret>>

\* One turn on a RUNNABLE slot: it becomes current and RUNNING and its context
\* is restored; prev keeps the state it had.  That context lies inside this
\* loop, which goes on.
Dispatch ==
    /\ cpu = "sched"
    /\ state[current_index] = "RUNNABLE"
    /\ current' = current_index
    /\ state' = [state EXCEPT ![current_index] = "RUNNING"]
    /\ current_index' = NextIndex
    /\ cpu' = "sched" \/ (SchedulerReturns /\ cpu' = "run")
    /\ UNCHANGED <<names, memory, ret>>

Scheduler == Skip \/ Dispatch

Next ==
    \/ ForkRefused \/ ForkSucceeds \/ ForkOutOfMemory
    \/ WaitReaps \/ WaitFails
    \/ Wakeup \/ Exit \/ Sleep
    \/ Yield \/ Timer
    \/ Scheduler

Spec == Init /\ [][Next]_vars

\* The scheduler's loop runs on while the hart is in it.  Nothing is assumed of
\* processes and of the timer.
Fairness == WF_vars(Scheduler)

FairSpec == Spec /\ Fairness

-----------------------------------------------------------------------------
(***************************************************************************)
(* Properties                                                              *)
(***************************************************************************)

Owned(s) == PagesOf(page[s]) \ {NoPage}

\* No page is lost and none has two owners: after any mix of forks that fail
\* half-way, exits and waits, every page is in use since boot, free, or held
\* by exactly one process for exactly one purpose.  (README.md:297, "Every
\* alloc has matching free"; fork, free_proc, wait.)
PageAccounting ==
    /\ \A p \in Page : p \in reserved \cup free \/ \E s \in Slot : p \in Owned(s)
    /\ reserved \cap free = {}
    /\ \A s \in Slot : Owned(s) \cap (reserved \cup free) = {}
    /\ \A s, q \in Slot : s # q => Owned(s) \cap Owned(q) = {}
    /\ \A s \in Slot : \A r, z \in Resource :
          r # z /\ page[s][r] # NoPage => page[s][r] # page[s][z]

\* Whatever the scheduler may pick is complete: a RUNNABLE process never lacks
\* its kernel stack, trapframe or page table, and an UNUSED slot holds none
\* (fork's error paths, free_proc, scheduler).
DispatchableIsComplete ==
    \A s \in Slot :
        /\ state[s] \in {"RUNNABLE", "RUNNING", "SLEEPING", "ZOMBIE"}
              => NoPage \notin PagesOf(page[s])
        /\ state[s] = "UNUSED" => Owned(s) = {}

\* The slot whose stack the hart is on is never given back: no wait frees the
\* process that is current, nor a dead one before the scheduler has left it
\* (exit leaves current_process set; wait frees the slot).
CurrentIsLive == current # NoSlot => state[current] # "UNUSED"

\* A dead process stays dead until its parent slot's wait frees it; wakeup,
\* which ignores its channel, and the scheduler never revive it (exit, wait,
\* wakeup).
OnlyWaitEndsZombie ==
    [][\A s \in Slot : state[s] = "ZOMBIE" /\ state'[s] # "ZOMBIE" =>
           state'[s] = "UNUSED" /\ parent[s] = current]_vars

\* Round robin: as long as the hart comes back to the scheduler, a RUNNABLE
\* process is eventually run, whatever the others do in between (scheduler's
\* current_index; yield; the timer).
NoStarvation ==
    \A s \in Slot :
        []<>(cpu = "sched") => (state[s] = "RUNNABLE" ~> state[s] = "RUNNING")

-----------------------------------------------------------------------------
(***************************************************************************)
(* What the documentation says of the same code, and the code does not do  *)
(***************************************************************************)

\* process.h:20, "En cours d'execution sur le CPU": there is one hart, and no
\* process but the current one is RUNNING.
OneRunning == \A s \in Slot : state[s] = "RUNNING" => s = current

\* process.h:21, of PROC_ZOMBIE: "Termine, attend que son parent fasse wait()".
\* A parent is older than its children; a younger process that collects one only
\* has the slot of its parent (wait).
WaitReapsOwnChild ==
    [][\A s \in Slot : state[s] = "ZOMBIE" /\ state'[s] = "UNUSED" =>
           pid[current] < pid[s]]_vars
=============================================================================
