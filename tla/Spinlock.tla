------------------------------ MODULE Spinlock ------------------------------
(***************************************************************************)
(* Spinlocks (kernel/mem/spinlock.c), the one interrupt flag of the hart,  *)
(* and the timer branch of kerneltrap (kernel/trap/trap.c), under kernel   *)
(* code that takes locks: log_write with buf_pin, buf_get, log_begin_op    *)
(* and its sleep, log_end_op; and under the calls that allocate and free   *)
(* pages: fork and wait with interrupts off, pipe_alloc and pipe_close     *)
(* with interrupts on, after they have released a lock.                    *)
(*                                                                         *)
(* A timer interrupt comes between any two steps while interrupts are on.  *)
(* What a call does is a sequence of steps; what it does to data under its *)
(* lock is Log's, BufCache's and Files' concern, which take it to happen   *)
(* at once.  The bitmap of pages has no lock: its bytes are read and       *)
(* written in steps of their own.                                          *)
(*                                                                         *)
(* scheduler() either stays in its loop in the context that it dispatches, *)
(* as the code does, or returns to the caller, as yield() and sleep()      *)
(* presume: what is shown here is safety, of both.                         *)
(***************************************************************************)
EXTENDS PhysMem, Sequences

CONSTANTS
    NPROC,          \* processes
    Used            \* calls they make

ASSUME SpinlockAssumption ==
    /\ NPROC \in Nat \ {0}
    /\ Used \subseteq {"log_write", "buf_get", "log_begin_op", "log_end_op",
                  "fork", "wait", "pipe_alloc", "pipe_close"}

Slot   == 0 .. NPROC - 1
NoSlot == -1
Lock   == {"log", "bcache", "ftable", "pipe"}

Acq(l)   == <<"acquire", l>>
Rel(l)   == <<"release", l>>
BlockNow == <<"block", "log">>
WakeAll  == <<"wake", "none">>

\* The steps of physmem_alloc_page and of free_physical_page.
FindPage == <<"find", "none">>
TestPage == <<"test", "none">>
ReadByte == <<"read", "none">>
MarkPage == <<"mark", "none">>
FreePage == <<"free", "none">>

\* log_write's section has buf_pin's inside.
LogWrite == <<Acq("log"), Acq("bcache"), Rel("bcache"), Rel("log")>>

\* log_begin_op when it has to wait: sleep() gives the lock up and takes it
\* again.
LogBegin == <<Acq("log"), Rel("log"), BlockNow, Acq("log"), Rel("log")>>

LogEnd   == <<Acq("log"), WakeAll, Rel("log")>>
BufGet   == <<Acq("bcache"), Rel("bcache")>>

\* pipe_alloc after another file operation of the same call.
PipeAlloc ==
    <<Acq("ftable"), Rel("ftable"), FindPage, ReadByte, MarkPage, Acq("ftable"), Rel("ftable")>>

\* pipe_close of the second end.
PipeClose == <<Acq("pipe"), WakeAll, Rel("pipe"), TestPage, ReadByte, FreePage>>

\* One page of fork, and one of wait's free_proc.
Fork == <<FindPage, ReadByte, MarkPage>>
Wait == <<TestPage, ReadByte, FreePage>>

Steps == [log_write    |-> LogWrite,
          buf_get      |-> BufGet,
          log_begin_op |-> LogBegin,
          log_end_op   |-> LogEnd,
          fork         |-> Fork,
          wait         |-> Wait,
          pipe_alloc   |-> PipeAlloc,
          pipe_close   |-> PipeClose]

VARIABLES
    locked,         \* locks with lk->locked = 1
    sie,            \* interrupts are on: SIE of sstatus, or user code
    hung,           \* the hart is in the endless loop of a refused acquire or release
    current,        \* the process that runs; NoSlot: the loop of scheduler()
    looper,         \* the process in whose context that loop runs
    index,          \* the scheduler's current_index
    state,          \* state[s]: RUNNABLE, RUNNING or SLEEPING
    doing,          \* doing[s]: the call it is in
    ip,             \* ip[s]: the step of the call it is at; 0: user code
    trapped,        \* trapped[s]: a timer interrupt took it off the hart
    held,           \* held[s]: locks it has acquired and not released (history)
    found,          \* found[s]: page that it is about to mark or free
    seen,           \* seen[s]: free pages of the byte it has read of the bitmap
    own,            \* own[s]: page it got
    free,           \* free pages
    cut             \* calls preempted while about to mark or free (history)

locks == <<locked, held>>
sched == <<current, looper, index, state, trapped>>
pages == <<found, seen, own, free, cut>>
vars  == <<locks, sie, hung, sched, doing, ip, pages>>

TypeOK ==
    /\ locked \subseteq Lock
    /\ sie \in BOOLEAN /\ hung \in BOOLEAN
    /\ current \in Slot \cup {NoSlot} /\ looper \in Slot \cup {NoSlot} /\ index \in Slot
    /\ state \in [Slot -> {"RUNNABLE", "RUNNING", "SLEEPING"}]
    /\ doing \in [Slot -> Used \cup {"none"}]
    /\ ip \in [Slot -> 0 .. 7]
    /\ held \in [Slot -> SUBSET Lock]
    /\ found \in [Slot -> Page \cup {NoPage}] /\ own \in [Slot -> Page \cup {NoPage}]
    /\ seen \in [Slot -> SUBSET Page]
    /\ free \subseteq Page /\ cut \subseteq Used

Init ==
    /\ locked = {} /\ sie = FALSE /\ hung = FALSE
    /\ current = NoSlot /\ looper = NoSlot /\ index = 0
    /\ state = [s \in Slot |-> "RUNNABLE"]
    /\ doing = [s \in Slot |-> "none"]
    /\ ip = [s \in Slot |-> 0]
    /\ trapped = [s \in Slot |-> FALSE]
    /\ held = [s \in Slot |-> {}]
    /\ found = [s \in Slot |-> NoPage] /\ seen = [s \in Slot |-> {}] /\ own = [s \in Slot |-> NoPage]
    /\ free = Page /\ cut = {}

Runs(s)       == current = s /\ ~ hung
InUser(s)     == ip[s] = 0
Op(s)         == Steps[doing[s]][ip[s]]
LockOf(s)     == Op(s)[2]
AtStep(s, op) == Runs(s) /\ ~ InUser(s) /\ Op(s)[1] = op
IsLast(s)     == ip[s] = Len(Steps[doing[s]])

\* Its call is over, or goes on with the next step.
Returns(s) == ip' = [ip EXCEPT ![s] = 0] /\ doing' = [doing EXCEPT ![s] = "none"]
Passes(s)  == IF IsLast(s) THEN Returns(s) ELSE ip' = [ip EXCEPT ![s] = @ + 1] /\ UNCHANGED doing

-----------------------------------------------------------------------------
(***************************************************************************)
(* Calls and their steps                                                   *)
(***************************************************************************)

TrapEntryLeavesOn == TRUE

\* Interrupts are off after the trap of a system call.
TrapEntry == FALSE

Enter(s, c) ==
    /\ Runs(s) /\ InUser(s)
    /\ c \in {"fork", "pipe_alloc"} => own[s] = NoPage
    /\ c \in {"wait", "pipe_close"} => own[s] # NoPage
    /\ sie' = TrapEntry
    /\ doing' = [doing EXCEPT ![s] = c]
    /\ ip' = [ip EXCEPT ![s] = 1]
    /\ UNCHANGED <<locks, hung, sched, pages>>

RefusedNever(l) == FALSE

\* spinlock_acquire finds the lock taken: it prints "double acquire" and stays
\* there, whoever has the lock.
Refused(l) == l \in locked

IntrOffForgotten == sie

\* intr_off() in spinlock_acquire.
IntrOff == FALSE

\* spinlock_acquire.
Acquire(s) ==
    LET l == LockOf(s)
    IN  /\ AtStep(s, "acquire")
        /\ sie' = IntrOff
        /\ IF Refused(l)
           THEN hung' = TRUE /\ UNCHANGED <<locks, doing, ip>>
           ELSE /\ locked' = locked \cup {l}
                /\ held' = [held EXCEPT ![s] = @ \cup {l}]
                /\ Passes(s) /\ UNCHANGED hung
        /\ UNCHANGED <<sched, pages>>

\* spinlock_release: whatever else is held, interrupts go on.
Release(s) ==
    LET l == LockOf(s)
    IN  /\ AtStep(s, "release")
        /\ IF l \in locked
           THEN /\ locked' = locked \ {l}
                /\ held' = [held EXCEPT ![s] = @ \ {l}]
                /\ sie' = TRUE
                /\ Passes(s) /\ UNCHANGED hung
           ELSE hung' = TRUE /\ UNCHANGED <<locks, doing, ip, sie>>
        /\ UNCHANGED <<sched, pages>>

\* sleep() after its release: SLEEPING, scheduler().
Block(s) ==
    /\ AtStep(s, "block")
    /\ state' = [state EXCEPT ![s] = "SLEEPING"]
    /\ current' = NoSlot /\ looper' = s
    /\ Passes(s)
    /\ UNCHANGED <<locks, sie, hung, index, trapped, pages>>

\* wakeup(): every sleeper.
Wake(s) ==
    /\ AtStep(s, "wake")
    /\ state' = [t \in Slot |-> IF state[t] = "SLEEPING" THEN "RUNNABLE" ELSE state[t]]
    /\ Passes(s)
    /\ UNCHANGED <<locks, sie, hung, current, looper, index, trapped, pages>>

\* Back in user code after the last step of a call, with interrupts on.
OnAtEnd(s) == sie' = (sie \/ IsLast(s))

\* physmem_alloc_page, up to the is_page_free that answers yes; and without a
\* free page the end of the call.
Find(s) ==
    /\ AtStep(s, "find")
    /\ found' = [found EXCEPT ![s] = AllocPage(free)]
    /\ IF AllocPage(free) = NoPage THEN Returns(s) ELSE Passes(s)
    /\ sie' = (sie \/ AllocPage(free) = NoPage)
    /\ UNCHANGED <<locks, hung, sched, seen, own, free, cut>>

\* free_physical_page: nothing to do for a page that is free already.
Test(s) ==
    /\ AtStep(s, "test")
    /\ own' = [own EXCEPT ![s] = NoPage]
    /\ found' = [found EXCEPT ![s] = IF own[s] \in free THEN NoPage ELSE own[s]]
    /\ IF own[s] \in free THEN Returns(s) ELSE Passes(s)
    /\ sie' = (sie \/ own[s] \in free)
    /\ UNCHANGED <<locks, hung, sched, seen, free, cut>>

\* The bitmap has eight pages to a byte.
ByteOf(p) == {q \in Page : q \div 8 = p \div 8}

\* mark_page_allocated and mark_page_free read the page's byte ...
Read(s) ==
    /\ AtStep(s, "read")
    /\ seen' = [seen EXCEPT ![s] = free \cap ByteOf(found[s])]
    /\ Passes(s)
    /\ UNCHANGED <<locks, sie, hung, sched, found, own, free, cut>>

\* ... and write it, with the page's bit changed and the others as they were.
Written(s, bits) ==
    /\ free' = (free \ ByteOf(found[s])) \cup bits
    /\ found' = [found EXCEPT ![s] = NoPage] /\ seen' = [seen EXCEPT ![s] = {}]
    /\ Passes(s)
    /\ OnAtEnd(s)

Mark(s) ==
    /\ AtStep(s, "mark")
    /\ own' = [own EXCEPT ![s] = found[s]]
    /\ Written(s, seen[s] \ {found[s]})
    /\ UNCHANGED <<locks, hung, sched, cut>>

Free(s) ==
    /\ AtStep(s, "free")
    /\ Written(s, seen[s] \cup {found[s]})
    /\ UNCHANGED <<locks, hung, sched, own, cut>>

-----------------------------------------------------------------------------
(***************************************************************************)
(* The timer and the scheduler                                             *)
(***************************************************************************)

\* The state yield() leaves a running process in.
Yielded == "RUNNABLE"

\* A timer interrupt, which user code cannot keep off: kerneltrap, yield.
Timer ==
    /\ current # NoSlot /\ Runs(current)
    /\ sie
    /\ state' = [state EXCEPT ![current] = Yielded]
    /\ trapped' = [trapped EXCEPT ![current] = TRUE]
    /\ cut' = IF \E op \in {"read", "mark", "free"} : AtStep(current, op)
              THEN cut \cup {doing[current]} ELSE cut
    /\ sie' = FALSE
    /\ current' = NoSlot /\ looper' = current
    /\ UNCHANGED <<locks, hung, index, doing, ip, found, seen, own, free>>

\* One in the loop of scheduler() that sleep() has entered with interrupts on:
\* yield enters another loop.
TimerInLoop ==
    /\ current = NoSlot /\ ~ hung /\ sie
    /\ trapped' = [trapped EXCEPT ![looper] = TRUE]
    /\ sie' = FALSE
    /\ UNCHANGED <<locks, hung, current, looper, index, state, doing, ip, pages>>

\* The dispatched process goes on in its call.  The flag belongs to the hart: only
\* the return from a trap sets it.
GoesOn ==
    /\ current' = index
    /\ sie' = (sie \/ trapped[index] \/ InUser(index))
    /\ trapped' = [trapped EXCEPT ![index] = FALSE]
    /\ UNCHANGED looper

\* It has come back to the loop of scheduler() in its own context.
StaysInLoop == looper' = index /\ UNCHANGED <<current, sie, trapped>>

\* scheduler() looks at one entry and dispatches it if it is RUNNABLE.
Look ==
    /\ current = NoSlot /\ ~ hung
    /\ IF state[index] = "RUNNABLE"
       THEN state' = [state EXCEPT ![index] = "RUNNING"] /\ (GoesOn \/ StaysInLoop)
       ELSE UNCHANGED <<current, looper, state, sie, trapped>>
    /\ index' = (index + 1) % NPROC
    /\ UNCHANGED <<locks, hung, doing, ip, pages>>

-----------------------------------------------------------------------------
KernelStep(s) ==
    \/ Acquire(s) \/ Release(s) \/ Block(s) \/ Wake(s)
    \/ Find(s) \/ Test(s) \/ Read(s) \/ Mark(s) \/ Free(s)

Next ==
    \/ \E s \in Slot : KernelStep(s) \/ \E c \in Used : Enter(s, c)
    \/ Timer \/ TimerInLoop \/ Look

Spec == Init /\ [][Next]_vars

-----------------------------------------------------------------------------
(***************************************************************************)
(* Properties                                                              *)
(***************************************************************************)

\* A lock has at most one holder, who is the one that acquired it, across
\* preemption, sleep and nesting (spinlock_acquire, spinlock_release, sleep).
Exclusion ==
    \A l \in Lock :
        /\ \A s, t \in Slot : l \in held[s] /\ l \in held[t] => s = t
        /\ l \in locked <=> \E s \in Slot : l \in held[s]

\* The hart hangs in one case only: log_write has been preempted inside its
\* section, because the release in buf_pin turned interrupts on, and another
\* process takes the log's lock for its own.  Sections without a nested one
\* cannot be preempted (spinlock_acquire, spinlock_release).
HangNeedsNesting ==
    hung => \E s \in Slot :
               /\ s # current /\ doing[s] = "log_write"
               /\ held[s] = {"log"} /\ Op(s) = Rel("log")

\* A page is handed to two processes, is free while it is in use, or is lost, only
\* when a pipe_alloc or a pipe_close was preempted after the lock they had released
\* turned interrupts on, while about to write a byte of the bitmap; fork and wait,
\* which do the same with interrupts off, never are (physmem_alloc_page,
\* free_physical_page, pipe_close, spinlock_release).
WrongPageNeedsRelease ==
    /\ cut \subseteq {"pipe_alloc", "pipe_close"}
    /\ cut = {} =>
          /\ \A s \in Slot : own[s] \notin free
          /\ \A s, t \in Slot : own[s] # NoPage /\ own[s] = own[t] => s = t
          /\ \A p \in Page : p \in free \/ \E s \in Slot : p \in {own[s], found[s]}
=============================================================================
