--------------------------- MODULE SpinlockProofs ---------------------------
(***************************************************************************)
(* Spinlocks exclude, the hart hangs in the nested section only, and pages *)
(* go wrong only through a release that comes before: for every number of  *)
(* processes and pages, and every set of calls.                            *)
(***************************************************************************)
EXTENDS Spinlock, TLAPS

CallName == {"log_write", "buf_get", "log_begin_op", "log_end_op",
             "fork", "wait", "pipe_alloc", "pipe_close"}

\* What a process holds that is at step i of call c.
HeldAt(c, i) ==
    IF i = 0 THEN {}
    ELSE IF c = "log_write"    THEN IF i = 1 THEN {} ELSE IF i = 3 THEN {"log", "bcache"} ELSE {"log"}
    ELSE IF c = "buf_get"      THEN IF i = 2 THEN {"bcache"} ELSE {}
    ELSE IF c = "log_begin_op" THEN IF i \in {2, 5} THEN {"log"} ELSE {}
    ELSE IF c = "log_end_op"   THEN IF i \in {2, 3} THEN {"log"} ELSE {}
    ELSE IF c = "pipe_alloc"   THEN IF i \in {2, 7} THEN {"ftable"} ELSE {}
    ELSE IF c = "pipe_close"   THEN IF i \in {2, 3} THEN {"pipe"} ELSE {}
    ELSE {}

\* The place between the two releases of log_write.
Between(c, i) == c = "log_write" /\ i = 4

-----------------------------------------------------------------------------
(***************************************************************************)
(* The table of the calls: what step i of a call is, and what it does to   *)
(* what the call holds                                                     *)
(***************************************************************************)

AcquireStep(c, i) ==
    /\ i # Len(Steps[c])
    /\ Steps[c][i][2] \in Lock \ HeldAt(c, i)
    /\ HeldAt(c, i + 1) = HeldAt(c, i) \cup {Steps[c][i][2]}

ReleaseStep(c, i) ==
    /\ Steps[c][i][2] \in HeldAt(c, i)
    /\ i = Len(Steps[c]) => HeldAt(c, i) = {Steps[c][i][2]}
    /\ i # Len(Steps[c]) =>
          /\ HeldAt(c, i + 1) = HeldAt(c, i) \ {Steps[c][i][2]}
          /\ HeldAt(c, i + 1) = {} \/ Between(c, i + 1)

WakeStep(c, i) ==
    /\ i # Len(Steps[c])
    /\ HeldAt(c, i + 1) = HeldAt(c, i)
    /\ ~ Between(c, i) /\ ~ Between(c, i + 1)

FreeStep(c, i) == HeldAt(c, i) = {} /\ (i # Len(Steps[c]) => HeldAt(c, i + 1) = {})

\* Calls that run with interrupts off, those that free, where a page is looked
\* for, where it is given up, and where the bitmap is about to be read or written
\* for it.
Masked  == {"fork", "wait"}
Freeing == {"wait", "pipe_close"}

FindPlace(c, i)  == (c = "fork" /\ i = 1) \/ (c = "pipe_alloc" /\ i = 3)
TestPlace(c, i)  == (c = "wait" /\ i = 1) \/ (c = "pipe_close" /\ i = 4)
AllocPlace(c, i) == (c = "fork" /\ i \in {2, 3}) \/ (c = "pipe_alloc" /\ i \in {4, 5})
FreePlace(c, i)  == (c = "wait" /\ i \in {2, 3}) \/ (c = "pipe_close" /\ i \in {5, 6})
AboutPlace(c, i) == AllocPlace(c, i) \/ FreePlace(c, i)
HasPage(c, i)    == c \in Freeing /\ ~ FreePlace(c, i)
HasNone(c, i)    == c = "fork" \/ (c = "pipe_alloc" /\ i \in 1 .. 5)
StorePlace(c, i) ==
    \/ c \in Masked /\ i = 3
    \/ c = "pipe_alloc" /\ i = 5
    \/ c = "pipe_close" /\ i = 6

PageTable(c, i) ==
    /\ FindPlace(c, i) <=> Steps[c][i][1] = "find"
    /\ TestPlace(c, i) <=> Steps[c][i][1] = "test"
    /\ Steps[c][i][1] = "read" => AboutPlace(c, i) /\ ~ StorePlace(c, i) /\ i # Len(Steps[c])
    /\ Steps[c][i][1] = "mark" => AllocPlace(c, i) /\ StorePlace(c, i)
    /\ Steps[c][i][1] = "free" => FreePlace(c, i) /\ StorePlace(c, i) /\ i = Len(Steps[c])
    /\ AboutPlace(c, i) => Steps[c][i][1] \in {"read", "mark", "free"}

Table(c, i) ==
    /\ Len(Steps[c]) \in 2 .. 7
    /\ c \in Masked => Len(Steps[c]) = 3
    /\ PageTable(c, i)
    /\ Steps[c][i][1] = "acquire" => AcquireStep(c, i)
    /\ Steps[c][i][1] = "release" => ReleaseStep(c, i)
    /\ Steps[c][i][1] = "wake" => WakeStep(c, i)
    /\ Steps[c][i][1] \in {"block", "find", "test", "read", "mark", "free"} => FreeStep(c, i)

\* Every step of every call keeps to the table (the steps of Spinlock's calls).
LEMMA StepTable ==
    ASSUME NEW c \in CallName, NEW i \in 1 .. Len(Steps[c])
    PROVE  Table(c, i)
<1> USE DEF Table, PageTable, FindPlace, TestPlace, AllocPlace, FreePlace, AboutPlace, StorePlace, Masked,
            AcquireStep, ReleaseStep, WakeStep, FreeStep, Between, HeldAt, Lock,
            Acq, Rel, BlockNow, WakeAll, FindPage, TestPage, ReadByte, MarkPage, FreePage
<1>1. CASE c = "log_write"
  <2>1. Steps[c] = <<Acq("log"), Acq("bcache"), Rel("bcache"), Rel("log")>>
    BY <1>1, Zenon DEF Steps, LogWrite
  <2>2. Len(Steps[c]) = 4
    BY <2>1
  <2>3. PICK j \in 1 .. 4 : i = j
    BY <2>2
  <2> QED
    BY <1>1, <2>1, <2>2, <2>3
<1>2. CASE c = "buf_get"
  <2>1. Steps[c] = <<Acq("bcache"), Rel("bcache")>>
    BY <1>2, Zenon DEF Steps, BufGet
  <2>2. Len(Steps[c]) = 2
    BY <2>1
  <2>3. PICK j \in 1 .. 2 : i = j
    BY <2>2
  <2> QED
    BY <1>2, <2>1, <2>2, <2>3
<1>3. CASE c = "log_begin_op"
  <2>1. Steps[c] = <<Acq("log"), Rel("log"), BlockNow, Acq("log"), Rel("log")>>
    BY <1>3, Zenon DEF Steps, LogBegin
  <2>2. Len(Steps[c]) = 5
    BY <2>1
  <2>3. PICK j \in 1 .. 5 : i = j
    BY <2>2
  <2> QED
    BY <1>3, <2>1, <2>2, <2>3
<1>4. CASE c = "log_end_op"
  <2>1. Steps[c] = <<Acq("log"), WakeAll, Rel("log")>>
    BY <1>4, Zenon DEF Steps, LogEnd
  <2>2. Len(Steps[c]) = 3
    BY <2>1
  <2>3. PICK j \in 1 .. 3 : i = j
    BY <2>2
  <2> QED
    BY <1>4, <2>1, <2>2, <2>3
<1>5. CASE c = "fork"
  <2>1. Steps[c] = <<FindPage, ReadByte, MarkPage>>
    BY <1>5, Zenon DEF Steps, Fork
  <2>2. Len(Steps[c]) = 3
    BY <2>1
  <2>3. PICK j \in 1 .. 3 : i = j
    BY <2>2
  <2> QED
    BY <1>5, <2>1, <2>2, <2>3
<1>6. CASE c = "pipe_alloc"
  <2>1. Steps[c] = <<Acq("ftable"), Rel("ftable"), FindPage, ReadByte, MarkPage, Acq("ftable"), Rel("ftable")>>
    BY <1>6, Zenon DEF Steps, PipeAlloc
  <2>2. Len(Steps[c]) = 7
    BY <2>1
  <2>3. PICK j \in 1 .. 7 : i = j
    BY <2>2
  <2> QED
    BY <1>6, <2>1, <2>2, <2>3
<1>7. CASE c = "wait"
  <2>1. Steps[c] = <<TestPage, ReadByte, FreePage>>
    BY <1>7, Zenon DEF Steps, Wait
  <2>2. Len(Steps[c]) = 3
    BY <2>1
  <2>3. PICK j \in 1 .. 3 : i = j
    BY <2>2
  <2> QED
    BY <1>7, <2>1, <2>2, <2>3
<1>8. CASE c = "pipe_close"
  <2>1. Steps[c] = <<Acq("pipe"), WakeAll, Rel("pipe"), TestPage, ReadByte, FreePage>>
    BY <1>8, Zenon DEF Steps, PipeClose
  <2>2. Len(Steps[c]) = 6
    BY <2>1
  <2>3. PICK j \in 1 .. 6 : i = j
    BY <2>2
  <2> QED
    BY <1>8, <2>1, <2>2, <2>3
<1>9. \/ c \in {"log_write", "buf_get", "log_begin_op", "log_end_op"}
      \/ c \in {"fork", "pipe_alloc", "wait", "pipe_close"}
  BY DEF CallName
<1> HIDE DEF Table
<1> QED
  BY <1>1, <1>2, <1>3, <1>4, <1>5, <1>6, <1>7, <1>8, <1>9, Zenon

-----------------------------------------------------------------------------
(***************************************************************************)
(* The inductive invariant                                                 *)
(***************************************************************************)

Types ==
    /\ locked \subseteq Lock
    /\ doing \in [Slot -> CallName \cup {"none"}]
    /\ ip \in [Slot -> 0 .. 7]
    /\ held \in [Slot -> SUBSET Lock]

\* A process is in user code or at a step of a call.
Placed ==
    \A s \in Slot : ip[s] # 0 => doing[s] \in CallName /\ ip[s] \in 1 .. Len(Steps[doing[s]])

\* What it holds follows from where it is.
HeldFromPlace == \A s \in Slot : held[s] = HeldAt(doing[s], ip[s])

\* It can be preempted, and is away from the hart, without locks or between
\* the two releases of log_write.
Idle(s) == held[s] = {} \/ Between(doing[s], ip[s])

MaskedInside == \A s \in Slot : s = current /\ sie /\ ~ hung => Idle(s)
IdleAway     == \A s \in Slot : s # current => Idle(s)

IInv ==
    Types /\ Placed /\ HeldFromPlace /\ Exclusion /\ MaskedInside /\ IdleAway /\ HangNeedsNesting

\* The places, and who is where: what the moves below keep.
Places == Types /\ Placed
Moved(s, c, i) ==
    /\ doing' \in [Slot -> CallName \cup {"none"}] /\ ip' \in [Slot -> 0 .. 7] /\ Placed'
    /\ doing'[s] = c /\ ip'[s] = i
    /\ \A t \in Slot \ {s} : doing'[t] = doing[t] /\ ip'[t] = ip[t]

\* Where a call is that is not in user code (Placed, and the table).
LEMMA AtTable ==
    ASSUME Places, NEW s \in Slot, ip[s] # 0
    PROVE  /\ doing[s] \in CallName /\ ip[s] \in 1 .. Len(Steps[doing[s]])
           /\ Len(Steps[doing[s]]) \in 2 .. 7
           /\ Table(doing[s], ip[s])
<1>1. doing[s] \in CallName /\ ip[s] \in 1 .. Len(Steps[doing[s]])
  BY DEF Places, Placed
<1>2. Table(doing[s], ip[s])
  BY <1>1, StepTable
<1> QED
  BY <1>1, <1>2 DEF Table

\* A call that ends is in user code (the last step of each call).
LEMMA ReturnsMoves ==
    ASSUME Places, NEW s \in Slot, Returns(s)
    PROVE  Moved(s, "none", 0)
<1>1. /\ doing' \in [Slot -> CallName \cup {"none"}] /\ ip' \in [Slot -> 0 .. 7]
      /\ doing'[s] = "none" /\ ip'[s] = 0
      /\ \A t \in Slot \ {s} : doing'[t] = doing[t] /\ ip'[t] = ip[t]
  BY DEF Places, Types, Returns
<1>2. Placed'
  <2> SUFFICES ASSUME NEW t \in Slot, ip'[t] # 0
               PROVE  doing'[t] \in CallName /\ ip'[t] \in 1 .. Len(Steps[doing'[t]])
    BY DEF Placed
  <2> QED
    BY <1>1 DEF Places, Placed
<1> QED
  BY <1>1, <1>2 DEF Moved

\* A call that goes on is at its next step (every other step of each call).
LEMMA PassesMoves ==
    ASSUME Places, NEW s \in Slot, ip[s] # 0, Passes(s)
    PROVE  \/ ip[s] = Len(Steps[doing[s]]) /\ Moved(s, "none", 0)
           \/ ip[s] # Len(Steps[doing[s]]) /\ Moved(s, doing[s], ip[s] + 1)
<1>1. CASE ip[s] = Len(Steps[doing[s]])
  BY <1>1, ReturnsMoves DEF Passes, IsLast
<1>2. CASE ip[s] # Len(Steps[doing[s]])
  <2>1. ip' = [ip EXCEPT ![s] = @ + 1] /\ doing' = doing
    BY <1>2 DEF Passes, IsLast
  <2>2. /\ doing[s] \in CallName /\ ip[s] \in 1 .. Len(Steps[doing[s]])
        /\ Len(Steps[doing[s]]) \in 2 .. 7
    BY AtTable
  <2>3. ip[s] + 1 \in 1 .. Len(Steps[doing[s]]) /\ ip[s] + 1 \in 0 .. 7
    <3>1. ASSUME NEW n \in 2 .. 7, NEW i \in 1 .. n, i # n
          PROVE  i + 1 \in 1 .. n /\ i + 1 \in 0 .. 7
      BY <3>1
    <3> QED
      BY <1>2, <2>2, <3>1, Zenon
  <2>4. /\ doing' \in [Slot -> CallName \cup {"none"}] /\ ip' \in [Slot -> 0 .. 7]
        /\ doing'[s] = doing[s] /\ ip'[s] = ip[s] + 1
        /\ \A t \in Slot \ {s} : doing'[t] = doing[t] /\ ip'[t] = ip[t]
    BY <2>1, <2>3 DEF Places, Types
  <2>5. Placed'
    <3> SUFFICES ASSUME NEW t \in Slot, ip'[t] # 0
                 PROVE  doing'[t] \in CallName /\ ip'[t] \in 1 .. Len(Steps[doing'[t]])
      BY DEF Placed
    <3>1. CASE t = s
      BY <3>1, <2>2, <2>3, <2>4
    <3>2. CASE t # s
      BY <3>2, <2>4 DEF Places, Placed
    <3> QED
      BY <3>1, <3>2
  <2> QED
    BY <1>2, <2>4, <2>5 DEF Moved
<1> QED
  BY <1>1, <1>2

\* What the other processes have, and the locks, in a step that moves s alone.
\* The invariant is kept if the step changes what s holds as its place says, and
\* the hart can be preempted only where the place allows it.
LEMMA MoveKeeps ==
    ASSUME IInv, NEW s \in Slot, Runs(s), NEW c, NEW i, Moved(s, c, i),
           NEW l \in Lock,
           \/ locked' = locked /\ held' = held
           \/ /\ l \notin locked
              /\ locked' = locked \cup {l} /\ held' = [held EXCEPT ![s] = @ \cup {l}]
           \/ /\ l \in held[s]
              /\ locked' = locked \ {l} /\ held' = [held EXCEPT ![s] = @ \ {l}],
           held'[s] = HeldAt(c, i),
           sie' \/ current' # s => held'[s] = {} \/ Between(c, i),
           current' \in {s, NoSlot}, hung' = hung
    PROVE  IInv'
<1>1. Types'
  BY DEF IInv, Types, Moved
<1>2. Placed'
  BY DEF Moved
<1>3. \A t \in Slot \ {s} : held'[t] = held[t] /\ doing'[t] = doing[t] /\ ip'[t] = ip[t]
  BY DEF IInv, Types, Moved
<1>4. HeldFromPlace'
  BY <1>3 DEF IInv, HeldFromPlace, Moved
<1>5. Exclusion'
  <2>1. CASE locked' = locked /\ held' = held
    BY <2>1 DEF IInv, Exclusion
  <2>2. CASE l \notin locked /\ locked' = locked \cup {l} /\ held' = [held EXCEPT ![s] = @ \cup {l}]
    BY <2>2 DEF IInv, Exclusion, Types
  <2>3. CASE l \in held[s] /\ locked' = locked \ {l} /\ held' = [held EXCEPT ![s] = @ \ {l}]
    BY <2>3 DEF IInv, Exclusion, Types
  <2> QED
    BY <2>1, <2>2, <2>3
<1>6. \A t \in Slot \ {s} : Idle(t)'
  BY <1>3 DEF IInv, IdleAway, Idle, Runs
<1>7. sie' \/ current' # s => Idle(s)'
  BY DEF Idle, Moved
<1>8. MaskedInside' /\ IdleAway'
  BY <1>6, <1>7 DEF MaskedInside, IdleAway
<1>9. HangNeedsNesting'
  BY DEF Runs, HangNeedsNesting
<1> QED
  BY <1>1, <1>2, <1>4, <1>5, <1>8, <1>9 DEF IInv

LEMMA InitIInv == Init => IInv
<1> SUFFICES ASSUME Init PROVE IInv
  OBVIOUS
<1> QED
  BY DEF Init, IInv, Types, Placed, HeldFromPlace, HeldAt, Exclusion, MaskedInside, IdleAway,
         Idle, HangNeedsNesting

\* What a step of a call knows of its process (Op and the table).
LEMMA AtStepTable ==
    ASSUME IInv, NEW s \in Slot, NEW op, AtStep(s, op)
    PROVE  /\ Runs(s) /\ ip[s] # 0 /\ Places
           /\ held[s] = HeldAt(doing[s], ip[s])
           /\ LockOf(s) = Steps[doing[s]][ip[s]][2]
           /\ op = "acquire" => AcquireStep(doing[s], ip[s])
           /\ op = "release" => ReleaseStep(doing[s], ip[s])
           /\ op = "wake" => WakeStep(doing[s], ip[s])
           /\ op \in {"block", "find", "test", "read", "mark", "free"} => FreeStep(doing[s], ip[s])
<1>1. Runs(s) /\ ip[s] # 0 /\ Places /\ Steps[doing[s]][ip[s]][1] = op
  BY DEF IInv, Places, AtStep, InUser, Op
<1>2. Table(doing[s], ip[s])
  BY <1>1, AtTable
<1>3. LockOf(s) = Steps[doing[s]][ip[s]][2] /\ held[s] = HeldAt(doing[s], ip[s])
  BY DEF LockOf, Op, IInv, HeldFromPlace
<1> QED
  BY <1>1, <1>2, <1>3 DEF Table

\* A step that changes no lock, of a call without locks or that keeps them
\* with interrupts as they are (Block, Wake, and the steps for pages).
LEMMA LocklessKeeps ==
    ASSUME IInv, NEW s \in Slot, Runs(s), ip[s] # 0, Passes(s) \/ Returns(s),
           UNCHANGED <<locks, hung>>, current' \in {s, NoSlot},
           \/ FreeStep(doing[s], ip[s])
           \/ WakeStep(doing[s], ip[s]) /\ Passes(s) /\ sie' = sie /\ current' = current
    PROVE  IInv'
<1>1. Places /\ locked' = locked /\ held' = held /\ held[s] = HeldAt(doing[s], ip[s])
  BY DEF IInv, Places, HeldFromPlace, locks
<1>2. "log" \in Lock
  BY DEF Lock
<1>3. PICK c, i : Moved(s, c, i) /\ held'[s] = HeldAt(c, i)
                  /\ (sie' \/ current' # s => held'[s] = {} \/ Between(c, i))
  <2>1. CASE FreeStep(doing[s], ip[s])
    <3>1. HeldAt("none", 0) = {} /\ held'[s] = {}
      BY <1>1, <2>1 DEF FreeStep, HeldAt
    <3>2. Moved(s, "none", 0) \/ (ip[s] # Len(Steps[doing[s]]) /\ Moved(s, doing[s], ip[s] + 1))
      BY <1>1, ReturnsMoves, PassesMoves
    <3> QED
      BY <2>1, <3>1, <3>2 DEF FreeStep
  <2>2. CASE WakeStep(doing[s], ip[s]) /\ Passes(s) /\ sie' = sie /\ current' = current
    <3>1. Moved(s, doing[s], ip[s] + 1) /\ held'[s] = HeldAt(doing[s], ip[s] + 1)
      BY <1>1, <2>2, PassesMoves DEF WakeStep
    <3>2. current = s /\ ~ hung /\ ~ Between(doing[s], ip[s])
      BY <2>2 DEF Runs, WakeStep
    <3>3. sie => held[s] = {}
      BY <3>2 DEF IInv, MaskedInside, Idle
    <3> QED
      BY <1>1, <2>2, <3>1, <3>2, <3>3
  <2> QED
    BY <2>1, <2>2
<1> QED
  BY <1>1, <1>2, <1>3, MoveKeeps DEF locks

\* A process that takes a lock away from another one: log_write lost the hart
\* between its releases (Refused).
LEMMA RefusedNested ==
    ASSUME IInv, NEW s \in Slot, AtStep(s, "acquire"), Refused(LockOf(s))
    PROVE  \E t \in Slot : /\ t # current /\ doing[t] = "log_write"
                           /\ held[t] = {"log"} /\ Op(t) = Rel("log")
<1>1. LockOf(s) \in Lock /\ LockOf(s) \notin held[s] /\ LockOf(s) \in locked /\ current = s
  BY AtStepTable DEF AcquireStep, Refused, Runs
<1>2. PICK t \in Slot : LockOf(s) \in held[t]
  BY <1>1 DEF IInv, Exclusion
<1>3. t # current /\ Between(doing[t], ip[t])
  BY <1>1, <1>2 DEF IInv, IdleAway, Idle
<1>4. doing[t] = "log_write" /\ ip[t] = 4 /\ held[t] = HeldAt(doing[t], ip[t])
  BY <1>3 DEF Between, IInv, HeldFromPlace
<1>5. held[t] = {"log"}
  BY <1>4 DEF HeldAt
<1>6. Steps["log_write"] = LogWrite
  BY Zenon DEF Steps
<1>7. Op(t) = Rel("log")
  BY <1>4, <1>6 DEF Op, LogWrite
<1> QED
  BY <1>3, <1>4, <1>5, <1>7

LEMMA AcquireKeeps ==
    ASSUME IInv, NEW s \in Slot, Acquire(s)
    PROVE  IInv'
<1> DEFINE l == LockOf(s)
<1>1. AtStep(s, "acquire") /\ sie' = FALSE /\ current' = current
  BY DEF Acquire, IntrOff, sched
<1>2. Runs(s) /\ ip[s] # 0 /\ Places /\ AcquireStep(doing[s], ip[s])
      /\ held[s] = HeldAt(doing[s], ip[s]) /\ l = Steps[doing[s]][ip[s]][2]
  BY <1>1, AtStepTable
<1>3. CASE Refused(l)
  <2>1. hung' = TRUE /\ UNCHANGED <<locks, doing, ip, current>>
    BY <1>1, <1>3 DEF Acquire
  <2>2. PICK t \in Slot : /\ t # current /\ doing[t] = "log_write" /\ held[t] = {"log"}
                         /\ Op(t) = Rel("log")
    BY <1>1, <1>3, RefusedNested
  <2>3. doing' = doing /\ held' = held /\ current' = current /\ Op(t)' = Op(t)
    BY <2>1 DEF Op, locks
  <2>4. HangNeedsNesting'
    <3>1. /\ t # current' /\ doing'[t] = "log_write" /\ held'[t] = {"log"}
          /\ Op(t)' = Rel("log")
      BY <2>2, <2>3, Zenon
    <3> QED
      BY <3>1, Zenon DEF HangNeedsNesting
  <2> QED
    BY <2>1, <2>4 DEF IInv, Types, Placed, HeldFromPlace, Exclusion, MaskedInside, IdleAway, Idle, locks
<1>4. CASE ~ Refused(l)
  <2>1. /\ locked' = locked \cup {l} /\ held' = [held EXCEPT ![s] = @ \cup {l}]
        /\ Passes(s) /\ hung' = hung
    BY <1>4, Zenon DEF Acquire
  <2>2. Moved(s, doing[s], ip[s] + 1) /\ l \in Lock /\ l \notin locked
    BY <1>2, <1>4, <2>1, PassesMoves DEF AcquireStep, Refused
  <2>3. held'[s] = HeldAt(doing[s], ip[s] + 1)
    <3>1. held'[s] = HeldAt(doing[s], ip[s]) \cup {l}
      BY <1>2, <2>1 DEF IInv, Types
    <3>2. HeldAt(doing[s], ip[s] + 1) = HeldAt(doing[s], ip[s]) \cup {l}
      BY <1>2, Zenon DEF AcquireStep
    <3> QED
      BY <3>1, <3>2, Zenon
  <2>4. current' = s
    BY <1>1, <1>2, Zenon DEF Runs
  <2> HIDE DEF l
  <2> QED
    BY <1>1, <1>2, <2>1, <2>2, <2>3, <2>4, MoveKeeps
<1> QED
  BY <1>3, <1>4

LEMMA ReleaseKeeps ==
    ASSUME IInv, NEW s \in Slot, Release(s)
    PROVE  IInv'
<1> DEFINE l == LockOf(s)
<1>1. AtStep(s, "release") /\ current' = current
  BY DEF Release, sched
<1>2. Runs(s) /\ ip[s] # 0 /\ Places /\ ReleaseStep(doing[s], ip[s])
      /\ held[s] = HeldAt(doing[s], ip[s]) /\ l = Steps[doing[s]][ip[s]][2]
  BY <1>1, AtStepTable
<1>3. l \in held[s] /\ l \in Lock /\ l \in locked
  BY <1>2 DEF ReleaseStep, IInv, Types, Exclusion
<1>4. /\ locked' = locked \ {l} /\ held' = [held EXCEPT ![s] = @ \ {l}]
      /\ Passes(s) /\ hung' = hung
  BY <1>3 DEF Release
<1>5. PICK c, i : /\ Moved(s, c, i) /\ held'[s] = HeldAt(c, i)
                  /\ held'[s] = {} \/ Between(c, i)
  <2>1. held'[s] = HeldAt(doing[s], ip[s]) \ {l}
    BY <1>2, <1>4 DEF IInv, Types
  <2>2. HeldAt("none", 0) = {}
    BY DEF HeldAt
  <2>3. CASE ip[s] = Len(Steps[doing[s]])
    BY <1>2, <1>4, <2>1, <2>2, <2>3, PassesMoves DEF ReleaseStep
  <2>4. CASE ip[s] # Len(Steps[doing[s]])
    BY <1>2, <1>4, <2>1, <2>4, PassesMoves DEF ReleaseStep
  <2> QED
    BY <2>3, <2>4
<1>6. current' = s
  BY <1>1, <1>2 DEF Runs
<1> HIDE DEF l
<1> QED
  BY <1>2, <1>3, <1>4, <1>5, <1>6, MoveKeeps

\* A system call begins without locks (Enter).
LEMMA EnterKeeps ==
    ASSUME IInv, SpinlockAssumption, NEW s \in Slot, NEW c \in Used, Enter(s, c)
    PROVE  IInv'
<1>1. c \in CallName
  BY DEF SpinlockAssumption, CallName
<1>2. 1 \in 1 .. Len(Steps[c]) /\ HeldAt(c, 1) = {}
  <2>1. /\ Steps["log_write"] = LogWrite /\ Steps["buf_get"] = BufGet /\ Steps["fork"] = Fork
        /\ Steps["log_begin_op"] = LogBegin /\ Steps["log_end_op"] = LogEnd
        /\ Steps["pipe_alloc"] = PipeAlloc /\ Steps["wait"] = Wait /\ Steps["pipe_close"] = PipeClose
    BY Zenon DEF Steps
  <2>2. /\ Len(LogWrite) = 4 /\ Len(BufGet) = 2 /\ Len(Fork) = 3 /\ Len(Wait) = 3
        /\ Len(LogBegin) = 5 /\ Len(LogEnd) = 3 /\ Len(PipeAlloc) = 7 /\ Len(PipeClose) = 6
    BY DEF LogWrite, BufGet, Fork, Wait, LogBegin, LogEnd, PipeAlloc, PipeClose
  <2>3. Len(Steps[c]) \in 2 .. 7
    BY <1>1, <2>1, <2>2 DEF CallName
  <2>4. HeldAt(c, 1) = {}
    <3>1. 1 # 0 /\ 1 # 3 /\ 1 # 2 /\ 1 \notin {2, 5} /\ 1 \notin {2, 3} /\ 1 \notin {2, 7}
      OBVIOUS
    <3> QED
      BY <3>1, Zenon DEF HeldAt
  <2>5. 1 \in 1 .. Len(Steps[c])
    <3>1. \A n \in 2 .. 7 : 1 \in 1 .. n
      OBVIOUS
    <3> QED
      BY <2>3, <3>1, Zenon
  <2> QED
    BY <2>4, <2>5
<1>3. /\ Runs(s) /\ ip[s] = 0 /\ sie' = FALSE
      /\ doing' = [doing EXCEPT ![s] = c] /\ ip' = [ip EXCEPT ![s] = 1]
      /\ locked' = locked /\ held' = held /\ hung' = hung /\ current' = current
  BY DEF Enter, InUser, TrapEntry, locks, sched
<1>4. Moved(s, c, 1)
  <2>1. /\ doing' \in [Slot -> CallName \cup {"none"}] /\ ip' \in [Slot -> 0 .. 7]
        /\ doing'[s] = c /\ ip'[s] = 1
        /\ \A t \in Slot \ {s} : doing'[t] = doing[t] /\ ip'[t] = ip[t]
    BY <1>1, <1>3 DEF IInv, Types
  <2>2. Placed'
    <3> SUFFICES ASSUME NEW t \in Slot, ip'[t] # 0
                 PROVE  doing'[t] \in CallName /\ ip'[t] \in 1 .. Len(Steps[doing'[t]])
      BY DEF Placed
    <3>1. CASE t = s
      BY <3>1, <1>1, <1>2, <2>1
    <3>2. CASE t # s
      BY <3>2, <2>1 DEF IInv, Placed
    <3> QED
      BY <3>1, <3>2
  <2> QED
    BY <2>1, <2>2 DEF Moved
<1>5. held'[s] = HeldAt(c, 1) /\ current' = s
  <2>1. held[s] = HeldAt(doing[s], 0)
    BY <1>3 DEF IInv, HeldFromPlace
  <2> QED
    BY <1>2, <1>3, <2>1 DEF HeldAt, Runs
<1>6. "log" \in Lock
  BY DEF Lock
<1> QED
  BY <1>3, <1>4, <1>5, <1>6, MoveKeeps

\* The timer takes the hart only from a process that is Idle; the scheduler
\* dispatches one that is.
LEMMA TimerKeeps == ASSUME IInv, Timer PROVE IInv'
<1>1. /\ UNCHANGED <<locked, held, hung, doing, ip>> /\ sie' = FALSE /\ current' = NoSlot
      /\ ~ hung /\ sie
  BY DEF Timer, locks, Runs
<1>2. IdleAway'
  BY <1>1 DEF IInv, MaskedInside, IdleAway, Idle
<1> QED
  BY <1>1, <1>2 DEF IInv, Types, Placed, HeldFromPlace, Exclusion, MaskedInside, HangNeedsNesting

LEMMA LookKeeps == ASSUME IInv, Look \/ TimerInLoop PROVE IInv'
<1>1. UNCHANGED <<locked, held, hung, doing, ip>> /\ current = NoSlot /\ ~ hung
  BY DEF Look, TimerInLoop, locks
<1>2. NoSlot \notin Slot
  BY DEF NoSlot, Slot
<1>3. \A s \in Slot : Idle(s)
  BY <1>1, <1>2 DEF IInv, IdleAway
<1> QED
  BY <1>1, <1>3 DEF IInv, Types, Placed, HeldFromPlace, Exclusion, MaskedInside, IdleAway, Idle,
                    HangNeedsNesting

\* Stuttering leaves every part of the invariant alone.
LEMMA OthersKeep ==
    ASSUME IInv, UNCHANGED <<locked, held, sie, hung, current, doing, ip>>
    PROVE  IInv'
BY DEF IInv, Types, Placed, HeldFromPlace, Exclusion, MaskedInside, IdleAway, Idle,
       HangNeedsNesting, Op

LEMMA StepIInv == ASSUME SpinlockAssumption, IInv, [Next]_vars PROVE IInv'
<1>1. CASE \E s \in Slot : Acquire(s)
  BY <1>1, AcquireKeeps
<1>2. CASE \E s \in Slot : Release(s)
  BY <1>2, ReleaseKeeps
<1>3. ASSUME NEW s \in Slot, Block(s) PROVE IInv'
  BY <1>3, AtStepTable, LocklessKeeps DEF Block
<1>4. ASSUME NEW s \in Slot, Wake(s) PROVE IInv'
  BY <1>4, AtStepTable, LocklessKeeps DEF Wake, Runs
<1>5. ASSUME NEW s \in Slot, Find(s) \/ Test(s) PROVE IInv'
  BY <1>5, AtStepTable, LocklessKeeps DEF Find, Test, Runs, sched
<1>6. ASSUME NEW s \in Slot, Read(s) PROVE IInv'
  BY <1>6, AtStepTable, LocklessKeeps DEF Read, Runs, sched
<1>7. ASSUME NEW s \in Slot, Mark(s) \/ Free(s) PROVE IInv'
  BY <1>7, AtStepTable, LocklessKeeps DEF Mark, Free, Written, Runs, sched
<1>8. ASSUME NEW s \in Slot, NEW c \in Used, Enter(s, c) PROVE IInv'
  BY <1>8, EnterKeeps
<1>9. CASE UNCHANGED vars
  BY <1>9, OthersKeep DEF vars, locks, sched
<1> QED
  BY <1>1, <1>2, <1>3, <1>4, <1>5, <1>6, <1>7, <1>8, <1>9, TimerKeeps, LookKeeps
  DEF Next, KernelStep

LEMMA Invariance == Spec => []IInv
BY InitIInv, StepIInv, SpinlockAssumption, PTL DEF Spec

-----------------------------------------------------------------------------
\* A lock has one holder at most, through every preemption, sleep and nesting:
\* for every number of processes and pages and every set of calls.
THEOREM LocksExclude == Spec => []Exclusion
<1>1. IInv => Exclusion
  BY DEF IInv
<1> QED
  BY <1>1, Invariance, PTL

\* The hart hangs only over a log_write preempted between its two releases.
THEOREM HangsOnlyNested == Spec => []HangNeedsNesting
<1>1. IInv => HangNeedsNesting
  BY DEF IInv
<1> QED
  BY <1>1, Invariance, PTL

-----------------------------------------------------------------------------
(***************************************************************************)
(* The pages, and the bytes of the bitmap                                  *)
(***************************************************************************)

About(s)    == AboutPlace(doing[s], ip[s])
AtAlloc(s)  == AllocPlace(doing[s], ip[s])
AtFree(s)   == FreePlace(doing[s], ip[s])
AtStore(s)  == StorePlace(doing[s], ip[s])

\* Who runs, and the pages: one that is about to be marked or freed is a page, a
\* call that frees has one until it gives it up, and one that allocates has none
\* until it has marked it.
PageTypes ==
    /\ current \in Slot \cup {NoSlot} /\ index \in Slot
    /\ own \in [Slot -> Page \cup {NoPage}] /\ found \in [Slot -> Page \cup {NoPage}]
    /\ seen \in [Slot -> SUBSET Page] /\ free \subseteq Page
    /\ \A s \in Slot : About(s) => found[s] \in Page
    /\ \A s \in Slot : HasPage(doing[s], ip[s]) => own[s] # NoPage
    /\ \A s \in Slot : HasNone(doing[s], ip[s]) => own[s] = NoPage

\* fork and wait run with interrupts off, from the trap to their end.
MaskedStay == \A s \in Slot : doing[s] \in Masked => s = current /\ ~ sie

\* While no call has been cut, only the process that runs is about to mark or
\* free a page, what it has read of the bitmap is what is there, and every page is
\* free, with one owner, or that page.
AboutRight(s) ==
    /\ s = current
    /\ AtAlloc(s) => found[s] \in free
    /\ AtFree(s) => found[s] \notin free /\ \A t \in Slot : own[t] # found[s]
    /\ AtStore(s) => seen[s] = free \cap ByteOf(found[s])

OneOwner ==
    /\ \A s \in Slot : own[s] \notin free
    /\ \A s, t \in Slot : own[s] # NoPage /\ own[s] = own[t] => s = t
    /\ \A p \in Page : p \in free \/ \E s \in Slot : p \in {own[s], found[s]}

PagesOnce ==
    /\ OneOwner
    /\ \A s \in Slot : IF About(s) THEN AboutRight(s) ELSE found[s] = NoPage

PageInv ==
    PageTypes /\ MaskedStay /\ cut \subseteq {"pipe_alloc", "pipe_close"} /\ (cut = {} => PagesOnce)

LEMMA NotAPage == NoPage \notin Page
BY DEF NoPage, Page

\* A step of the process that runs, which is not about to change the bitmap,
\* before or after.
LEMMA QuietKeepsPages ==
    ASSUME IInv, PageInv, NEW s \in Slot, Runs(s), NEW c, NEW i, Moved(s, c, i),
           ~ About(s), ~ AboutPlace(c, i), HasPage(c, i) => own[s] # NoPage, HasNone(c, i) => own[s] = NoPage,
           c \in Masked => ~ sie' /\ current' = s,
           current' \in {s, NoSlot}, UNCHANGED <<index, pages>>
    PROVE  PageInv'
<1>1. /\ current = s /\ doing'[s] = c /\ ip'[s] = i
      /\ \A t \in Slot \ {s} : doing'[t] = doing[t] /\ ip'[t] = ip[t]
      /\ UNCHANGED <<found, seen, own, free, cut>>
  BY DEF Runs, Moved, pages
<1>2. ~ About(s)' /\ \A t \in Slot \ {s} : About(t)' = About(t)
  BY <1>1 DEF About
<1>3. MaskedStay'
  BY <1>1 DEF PageInv, MaskedStay
<1>4. PageTypes'
  BY <1>1, <1>2 DEF PageInv, PageTypes
<1>5. cut = {} => PagesOnce'
  <2> SUFFICES ASSUME cut = {} PROVE PagesOnce'
    OBVIOUS
  <2>1. PagesOnce
    BY DEF PageInv
  <2>2. OneOwner'
    BY <1>1, <2>1 DEF PagesOnce, OneOwner
  <2>3. \A t \in Slot : ~ About(t)' /\ found'[t] = NoPage
    BY <1>1, <1>2, <2>1 DEF PagesOnce, AboutRight
  <2> QED
    BY <2>2, <2>3 DEF PagesOnce
<1> QED
  BY <1>1, <1>3, <1>4, <1>5 DEF PageInv

\* Where the process is whose call goes on or ends, by the kind of step.
LEMMA StepPlaces ==
    ASSUME IInv, NEW s \in Slot, NEW op, AtStep(s, op)
    PROVE  /\ Places /\ Runs(s) /\ current = s /\ ip[s] \in 1 .. 7
           /\ op = "find" <=> FindPlace(doing[s], ip[s])
           /\ op = "test" <=> TestPlace(doing[s], ip[s])
           /\ op = "read" => About(s) /\ ~ AtStore(s) /\ ~ IsLast(s)
           /\ op = "mark" => AtAlloc(s) /\ AtStore(s)
           /\ op = "free" => AtFree(s) /\ AtStore(s) /\ IsLast(s)
           /\ About(s) => op \in {"read", "mark", "free"}
           /\ doing[s] \in Masked => ip[s] \in 1 .. 3 /\ (IsLast(s) <=> ip[s] = 3)
<1>1. Runs(s) /\ ip[s] # 0 /\ Places /\ Steps[doing[s]][ip[s]][1] = op
  BY DEF IInv, Places, AtStep, InUser, Op
<1>2. /\ doing[s] \in CallName /\ ip[s] \in 1 .. Len(Steps[doing[s]]) /\ Table(doing[s], ip[s])
      /\ Len(Steps[doing[s]]) \in 2 .. 7
  BY <1>1, AtTable
<1>3. /\ op = "find" <=> FindPlace(doing[s], ip[s])
      /\ op = "test" <=> TestPlace(doing[s], ip[s])
      /\ op = "read" => About(s) /\ ~ AtStore(s) /\ ~ IsLast(s)
      /\ op = "mark" => AtAlloc(s) /\ AtStore(s)
      /\ op = "free" => AtFree(s) /\ AtStore(s) /\ IsLast(s)
      /\ About(s) => op \in {"read", "mark", "free"}
  BY <1>1, <1>2 DEF Table, PageTable, About, AtAlloc, AtFree, AtStore, IsLast
<1>4. doing[s] \in Masked => ip[s] \in 1 .. 3 /\ (IsLast(s) <=> ip[s] = 3)
  BY <1>2 DEF Table, IsLast
<1>5. ip[s] \in 1 .. 7
  <2>1. \A n \in 2 .. 7 : \A k \in 1 .. n : k \in 1 .. 7
    OBVIOUS
  <2> QED
    BY <1>2, <2>1, Zenon
<1> QED
  BY <1>1, <1>3, <1>4, <1>5 DEF Runs

\* The steps of calls that do nothing to pages.
LEMMA LockStepsKeepPages ==
    ASSUME IInv, PageInv, NEW s \in Slot,
           Acquire(s) \/ Release(s) \/ Block(s) \/ Wake(s)
    PROVE  PageInv'
<1>1. PICK op \in {"acquire", "release", "block", "wake"} : AtStep(s, op)
  BY DEF Acquire, Release, Block, Wake
<1>2. /\ Places /\ Runs(s) /\ ip[s] \in 1 .. 7 /\ ~ About(s)
      /\ ~ FindPlace(doing[s], ip[s]) /\ ~ TestPlace(doing[s], ip[s])
      /\ doing[s] \in Masked => ip[s] \in 1 .. 3
  BY <1>1, StepPlaces
<1>3. doing[s] \notin Masked
  BY <1>2 DEF Masked, FindPlace, TestPlace, About, AboutPlace, AllocPlace, FreePlace
<1>4. UNCHANGED <<index, pages>> /\ current' \in {s, NoSlot}
  BY <1>2 DEF Acquire, Release, Block, Wake, sched, Runs
<1>5. Passes(s) \/ UNCHANGED <<doing, ip>>
  BY DEF Acquire, Release, Block, Wake
<1>6. /\ HasPage(doing[s], ip[s]) => own[s] # NoPage
      /\ HasNone(doing[s], ip[s]) => own[s] = NoPage
  BY DEF PageInv, PageTypes
<1>7. PICK c, i : /\ Moved(s, c, i) /\ ~ AboutPlace(c, i) /\ c \notin Masked
                  /\ (HasPage(c, i) => own[s] # NoPage) /\ (HasNone(c, i) => own[s] = NoPage)
  <2>1. CASE Passes(s)
    <3>1. ~ AboutPlace("none", 0) /\ "none" \notin Masked /\ ~ HasPage("none", 0) /\ ~ HasNone("none", 0)
      BY DEF AboutPlace, AllocPlace, FreePlace, Masked, HasPage, HasNone, Freeing
    <3>2. ~ AboutPlace(doing[s], ip[s] + 1)
      BY <1>2 DEF About, AboutPlace, AllocPlace, FreePlace, FindPlace, TestPlace
    <3>3. /\ HasPage(doing[s], ip[s] + 1) => HasPage(doing[s], ip[s])
          /\ HasNone(doing[s], ip[s] + 1) => HasNone(doing[s], ip[s])
      BY <1>2 DEF HasPage, HasNone, About, AboutPlace
    <3>4. ip[s] # 0
      BY <1>2
    <3>5. \/ Moved(s, "none", 0)
          \/ Moved(s, doing[s], ip[s] + 1)
      BY <1>2, <2>1, <3>4, PassesMoves
    <3> QED
      BY <1>3, <1>6, <3>1, <3>2, <3>3, <3>5
  <2>2. CASE UNCHANGED <<doing, ip>>
    <3>1. Moved(s, doing[s], ip[s])
      BY <1>2, <2>2 DEF Places, Types, Placed, Moved
    <3> QED
      BY <1>2, <1>3, <1>6, <3>1 DEF About
  <2> QED
    BY <1>5, <2>1, <2>2
<1> QED
  BY <1>2, <1>4, <1>7, QuietKeepsPages

LEMMA FirstFreeIsFree ==
    ASSUME NEW S \in SUBSET Page
    PROVE  AllocPage(S) \in S \cup {NoPage}
BY DEF AllocPage, IsFirstFree

\* What the others have, when s alone moves and only its own page changes hands.
LEMMA OthersHavePages ==
    ASSUME IInv, PageInv, NEW s \in Slot, Runs(s), NEW c, NEW i, Moved(s, c, i)
    PROVE  /\ current = s /\ doing'[s] = c /\ ip'[s] = i
           /\ About(s)' = AboutPlace(c, i) /\ AtAlloc(s)' = AllocPlace(c, i)
           /\ AtFree(s)' = FreePlace(c, i) /\ AtStore(s)' = StorePlace(c, i)
           /\ \A t \in Slot \ {s} : /\ doing'[t] = doing[t] /\ ip'[t] = ip[t] /\ doing[t] \notin Masked
                                    /\ About(t)' = About(t)
                                    /\ cut = {} => ~ About(t)
<1>1. /\ current = s /\ doing'[s] = c /\ ip'[s] = i
      /\ \A t \in Slot \ {s} : doing'[t] = doing[t] /\ ip'[t] = ip[t]
  BY DEF Runs, Moved
<1>2. \A t \in Slot \ {s} : doing[t] \notin Masked /\ (cut = {} => ~ About(t))
  BY <1>1 DEF PageInv, MaskedStay, PagesOnce, AboutRight
<1> QED
  BY <1>1, <1>2 DEF About, AtAlloc, AtFree, AtStore

\* A step that finds, gives up, reads, marks or frees a page of s, by what it
\* leaves: the parts of the invariant that are s's.
LEMMA PageStep ==
    ASSUME IInv, PageInv, NEW s \in Slot, Runs(s), NEW c, NEW i, Moved(s, c, i),
           NEW f \in Page \cup {NoPage}, NEW b \in SUBSET Page, NEW o \in Page \cup {NoPage},
           found' = [found EXCEPT ![s] = f], seen' = [seen EXCEPT ![s] = b],
           own' = [own EXCEPT ![s] = o], free' \subseteq Page,
           cut' = cut, index' = index, current' = current,
           AboutPlace(c, i) => f \in Page,
           HasPage(c, i) => o # NoPage, HasNone(c, i) => o = NoPage,
           c \in Masked => ~ sie',
           cut = {} => OneOwner' /\ (IF AboutPlace(c, i) THEN AboutRight(s)' ELSE f = NoPage)
    PROVE  PageInv'
<1>1. /\ current' = s /\ current = s /\ doing'[s] = c /\ ip'[s] = i /\ About(s)' = AboutPlace(c, i)
      /\ \A t \in Slot \ {s} : /\ doing'[t] = doing[t] /\ ip'[t] = ip[t] /\ doing[t] \notin Masked
                               /\ About(t)' = About(t)
                               /\ cut = {} => ~ About(t)
  BY OthersHavePages
<1>2. /\ own'[s] = o /\ found'[s] = f /\ seen'[s] = b
      /\ \A t \in Slot \ {s} : own'[t] = own[t] /\ found'[t] = found[t]
      /\ own' \in [Slot -> Page \cup {NoPage}] /\ found' \in [Slot -> Page \cup {NoPage}]
      /\ seen' \in [Slot -> SUBSET Page]
  BY DEF PageInv, PageTypes
<1>3. PageTypes'
  <2>1. \A t \in Slot : About(t)' => found'[t] \in Page
    BY <1>1, <1>2 DEF PageInv, PageTypes
  <2>2. \A t \in Slot : /\ HasPage(doing[t], ip[t])' => own'[t] # NoPage
                        /\ HasNone(doing[t], ip[t])' => own'[t] = NoPage
    BY <1>1, <1>2 DEF PageInv, PageTypes
  <2> QED
    BY <1>1, <1>2, <2>1, <2>2 DEF PageInv, PageTypes
<1>4. MaskedStay'
  BY <1>1 DEF MaskedStay
<1>5. cut = {} => PagesOnce'
  <2> SUFFICES ASSUME cut = {} PROVE PagesOnce'
    OBVIOUS
  <2>1. \A t \in Slot \ {s} : ~ About(t)' /\ found'[t] = NoPage
    BY <1>1, <1>2 DEF PageInv, PagesOnce
  <2> QED
    BY <1>1, <1>2, <2>1 DEF PagesOnce
<1> QED
  BY <1>3, <1>4, <1>5 DEF PageInv

\* A call that is over is nowhere near a page.
LEMMA NoPlace ==
    ~ AboutPlace("none", 0) /\ "none" \notin Masked /\ ~ HasPage("none", 0) /\ ~ HasNone("none", 0)
BY DEF AllocPlace, FreePlace, AboutPlace, Masked, Freeing, HasPage, HasNone

LEMMA FindKeepsPages == ASSUME IInv, PageInv, NEW s \in Slot, Find(s) PROVE PageInv'
<1> DEFINE g == AllocPage(free)
<1>1. /\ AtStep(s, "find") /\ found' = [found EXCEPT ![s] = g]
      /\ UNCHANGED <<seen, own, free, cut, current, index>>
      /\ (IF g = NoPage THEN Returns(s) ELSE Passes(s)) /\ sie' = (sie \/ g = NoPage)
  BY DEF Find, sched
<1>2. /\ Places /\ Runs(s) /\ current = s /\ ip[s] \in 1 .. 7 /\ FindPlace(doing[s], ip[s]) /\ ~ About(s)
      /\ doing[s] \in Masked => ip[s] \in 1 .. 3 /\ (IsLast(s) <=> ip[s] = 3)
  <2>1. ~ ("find" \in {"read", "mark", "free"})
    OBVIOUS
  <2> QED
    BY <1>1, <2>1, StepPlaces
<1>3. g \in free \cup {NoPage} /\ free \subseteq Page /\ NoPage \notin Page
  BY FirstFreeIsFree, NotAPage DEF PageInv, PageTypes
<1> HIDE DEF g
<1>4. /\ seen' = [seen EXCEPT ![s] = seen[s]] /\ own' = [own EXCEPT ![s] = own[s]]
      /\ seen[s] \in SUBSET Page /\ own[s] \in Page \cup {NoPage}
  BY <1>1 DEF PageInv, PageTypes
<1>5. cut = {} => OneOwner'
  <2> SUFFICES ASSUME cut = {} PROVE OneOwner'
    OBVIOUS
  <2>1. OneOwner /\ found[s] = NoPage /\ found \in [Slot -> Page \cup {NoPage}]
    BY <1>2 DEF PageInv, PageTypes, PagesOnce
  <2>2. \A p \in Page : p \in free' \/ \E t \in Slot : p \in {own'[t], found'[t]}
    BY <1>1, <1>3, <2>1 DEF OneOwner
  <2> QED
    BY <1>1, <2>1, <2>2 DEF OneOwner
<1>6. CASE g = NoPage
  <2>1. Moved(s, "none", 0)
    BY <1>1, <1>2, <1>6, ReturnsMoves
  <2>2. ~ AboutPlace("none", 0) /\ "none" \notin Masked /\ ~ HasPage("none", 0) /\ ~ HasNone("none", 0)
    BY NoPlace
  <2> QED
    BY <1>1, <1>2, <1>3, <1>4, <1>5, <1>6, <2>1, <2>2, PageStep
<1>7. CASE g # NoPage
  <2>1. ip[s] # Len(Steps[doing[s]])
    <3>1. Len(Steps["fork"]) = 3 /\ Len(Steps["pipe_alloc"]) = 7
      <4>1. Steps["fork"] = Fork /\ Steps["pipe_alloc"] = PipeAlloc
        BY Zenon DEF Steps
      <4> QED
        BY <4>1 DEF Fork, PipeAlloc
    <3>2. \/ ip[s] = 1 /\ Len(Steps[doing[s]]) = 3
          \/ ip[s] = 3 /\ Len(Steps[doing[s]]) = 7
      <4>1. (doing[s] = "fork" /\ ip[s] = 1) \/ (doing[s] = "pipe_alloc" /\ ip[s] = 3)
        BY <1>2 DEF FindPlace
      <4> QED
        BY <3>1, <4>1, Zenon
    <3>3. 1 # 3 /\ 3 # 7
      OBVIOUS
    <3> QED
      BY <3>2, <3>3, Zenon
  <2>2. Moved(s, doing[s], ip[s] + 1)
    BY <1>1, <1>2, <1>7, <2>1, PassesMoves
  <2>3. /\ AllocPlace(doing[s], ip[s] + 1) /\ ~ StorePlace(doing[s], ip[s] + 1)
        /\ AboutPlace(doing[s], ip[s] + 1) /\ ~ FreePlace(doing[s], ip[s] + 1)
        /\ ~ HasPage(doing[s], ip[s] + 1) /\ HasNone(doing[s], ip[s])
    BY <1>2 DEF FindPlace, AllocPlace, StorePlace, AboutPlace, FreePlace, HasPage, HasNone, Freeing, Masked
  <2>4. /\ AtAlloc(s)' /\ ~ AtFree(s)' /\ ~ AtStore(s)' /\ current' = s /\ found'[s] = g
    BY <1>1, <1>2, <2>2, <2>3, OthersHavePages DEF PageInv, PageTypes
  <2>5. AboutRight(s)'
    BY <1>1, <1>3, <1>7, <2>4 DEF AboutRight
  <2>6. doing[s] \in Masked => ~ sie'
    BY <1>1, <1>7 DEF PageInv, MaskedStay
  <2>7. own[s] = NoPage
    BY <2>3 DEF PageInv, PageTypes
  <2> QED
    <3>1. g \in Page /\ free' \subseteq Page /\ (cut = {} => OneOwner' /\ AboutRight(s)')
      BY <1>1, <1>3, <1>5, <1>7, <2>5
    <3>2. /\ found' = [found EXCEPT ![s] = g] /\ cut' = cut /\ index' = index /\ current' = current
          /\ g \in Page \cup {NoPage} /\ Runs(s)
      BY <1>1, <1>2, <3>1
    <3> QED
      BY <1>4, <2>2, <2>3, <2>6, <2>7, <3>1, <3>2, PageStep
<1> QED
  BY <1>6, <1>7

\* free_physical_page takes the page from its owner.
LEMMA TestKeepsPages == ASSUME IInv, PageInv, NEW s \in Slot, Test(s) PROVE PageInv'
<1> DEFINE done == own[s] \in free
<1>1. /\ AtStep(s, "test") /\ own' = [own EXCEPT ![s] = NoPage]
      /\ found' = [found EXCEPT ![s] = IF done THEN NoPage ELSE own[s]]
      /\ UNCHANGED <<seen, free, cut, current, index>>
      /\ (IF done THEN Returns(s) ELSE Passes(s)) /\ sie' = (sie \/ done)
  BY DEF Test, sched
<1>2. /\ Places /\ Runs(s) /\ current = s /\ ip[s] \in 1 .. 7 /\ TestPlace(doing[s], ip[s]) /\ ~ About(s)
  <2>1. ~ ("test" \in {"read", "mark", "free"})
    OBVIOUS
  <2> QED
    BY <1>1, <2>1, StepPlaces
<1>3. own[s] \in Page /\ free \subseteq Page /\ NoPage \notin Page
  <2>1. HasPage(doing[s], ip[s])
    BY <1>2 DEF TestPlace, HasPage, Freeing, FreePlace
  <2> QED
    BY <2>1, NotAPage DEF PageInv, PageTypes
<1>4. seen' = [seen EXCEPT ![s] = seen[s]] /\ seen[s] \in SUBSET Page
  BY <1>1 DEF PageInv, PageTypes
<1>5. /\ own'[s] = NoPage /\ found'[s] = (IF done THEN NoPage ELSE own[s])
      /\ \A t \in Slot \ {s} : own'[t] = own[t] /\ found'[t] = found[t]
  BY <1>1 DEF PageInv, PageTypes
<1>6. ASSUME cut = {} PROVE OneOwner' /\ ~ done
  <2>1. OneOwner /\ found[s] = NoPage
    BY <1>2, <1>6 DEF PageInv, PagesOnce
  <2>2. ~ done
    BY <2>1 DEF OneOwner
  <2>3. \A p \in Page : p \in free' \/ \E t \in Slot : p \in {own'[t], found'[t]}
    BY <1>1, <1>3, <1>5, <2>1, <2>2 DEF OneOwner
  <2>4. \A t \in Slot : own'[t] \notin free'
    BY <1>1, <1>3, <1>5, <2>1 DEF OneOwner
  <2>5. \A t, u \in Slot : own'[t] # NoPage /\ own'[t] = own'[u] => t = u
    BY <1>5, <2>1 DEF OneOwner
  <2> QED
    BY <2>2, <2>3, <2>4, <2>5 DEF OneOwner
<1>7. CASE done
  <2>1. Moved(s, "none", 0)
    BY <1>1, <1>2, <1>7, ReturnsMoves
  <2>2. ~ AboutPlace("none", 0) /\ "none" \notin Masked /\ ~ HasPage("none", 0) /\ ~ HasNone("none", 0)
    BY NoPlace
  <2>3. found' = [found EXCEPT ![s] = NoPage] /\ cut # {}
    BY <1>1, <1>6, <1>7
  <2>4. free' \subseteq Page /\ NoPage \in Page \cup {NoPage}
    BY <1>1, <1>3
  <2> HIDE DEF done
  <2> QED
    BY <1>1, <1>2, <1>4, <2>1, <2>2, <2>3, <2>4, PageStep
<1>8. CASE ~ done
  <2>1. ip[s] # Len(Steps[doing[s]])
    <3>1. Len(Steps["wait"]) = 3 /\ Len(Steps["pipe_close"]) = 6
      <4>1. Steps["wait"] = Wait /\ Steps["pipe_close"] = PipeClose
        BY Zenon DEF Steps
      <4> QED
        BY <4>1 DEF Wait, PipeClose
    <3>2. \/ ip[s] = 1 /\ Len(Steps[doing[s]]) = 3
          \/ ip[s] = 4 /\ Len(Steps[doing[s]]) = 6
      <4>1. (doing[s] = "wait" /\ ip[s] = 1) \/ (doing[s] = "pipe_close" /\ ip[s] = 4)
        BY <1>2 DEF TestPlace
      <4> QED
        BY <3>1, <4>1, Zenon
    <3>3. 1 # 3 /\ 4 # 6
      OBVIOUS
    <3> QED
      BY <3>2, <3>3, Zenon
  <2>2. Moved(s, doing[s], ip[s] + 1)
    BY <1>1, <1>2, <1>8, <2>1, PassesMoves
  <2>3. /\ FreePlace(doing[s], ip[s] + 1) /\ ~ StorePlace(doing[s], ip[s] + 1)
        /\ AboutPlace(doing[s], ip[s] + 1) /\ ~ AllocPlace(doing[s], ip[s] + 1)
        /\ ~ HasPage(doing[s], ip[s] + 1) /\ ~ HasNone(doing[s], ip[s] + 1)
    BY <1>2 DEF TestPlace, AllocPlace, StorePlace, AboutPlace, FreePlace, HasPage, HasNone, Masked
  <2>4. /\ AtFree(s)' /\ ~ AtAlloc(s)' /\ ~ AtStore(s)' /\ current' = s /\ found'[s] = own[s]
    BY <1>1, <1>2, <1>5, <1>8, <2>2, <2>3, OthersHavePages
  <2>5. cut = {} => AboutRight(s)'
    <3> SUFFICES ASSUME cut = {} PROVE AboutRight(s)'
      OBVIOUS
    <3>1. \A t \in Slot : own'[t] # own[s]
      <4>1. OneOwner
        BY DEF PageInv, PagesOnce
      <4> QED
        BY <1>3, <1>5, <4>1 DEF OneOwner
    <3> QED
      BY <1>1, <1>8, <2>4, <3>1 DEF AboutRight
  <2>6. doing[s] \in Masked => ~ sie'
    BY <1>1, <1>8 DEF PageInv, MaskedStay
  <2>7. found' = [found EXCEPT ![s] = own[s]]
    BY <1>1, <1>8
  <2> HIDE DEF done
  <2> QED
    BY <1>1, <1>2, <1>3, <1>4, <1>6, <2>2, <2>3, <2>5, <2>6, <2>7, PageStep
<1> QED
  BY <1>7, <1>8

\* The byte that mark_page_allocated and mark_page_free read.
LEMMA ReadKeepsPages == ASSUME IInv, PageInv, NEW s \in Slot, Read(s) PROVE PageInv'
<1> DEFINE b == free \cap ByteOf(found[s])
<1>1. /\ AtStep(s, "read") /\ seen' = [seen EXCEPT ![s] = b] /\ Passes(s)
      /\ UNCHANGED <<found, own, free, cut, current, index, sie>>
  BY DEF Read, sched
<1>2. /\ Places /\ Runs(s) /\ current = s /\ ip[s] \in 1 .. 7 /\ ip[s] # 0 /\ About(s)
      /\ ~ AtStore(s) /\ ~ IsLast(s)
  BY <1>1, StepPlaces
<1>3. free \subseteq Page /\ b \in SUBSET Page /\ found[s] \in Page /\ own[s] \in Page \cup {NoPage}
  BY <1>2 DEF PageInv, PageTypes
<1>4. found' = [found EXCEPT ![s] = found[s]] /\ own' = [own EXCEPT ![s] = own[s]] /\ seen'[s] = b
  BY <1>1 DEF PageInv, PageTypes
<1>5. Moved(s, doing[s], ip[s] + 1)
  BY <1>1, <1>2, PassesMoves DEF IsLast
<1>6. /\ AllocPlace(doing[s], ip[s] + 1) => AtAlloc(s)
      /\ FreePlace(doing[s], ip[s] + 1) => AtFree(s)
      /\ ~ HasPage(doing[s], ip[s] + 1) /\ (HasNone(doing[s], ip[s] + 1) => HasNone(doing[s], ip[s]))
      /\ AboutPlace(doing[s], ip[s] + 1)
  BY <1>2 DEF About, AtAlloc, AtFree, AtStore, AboutPlace, AllocPlace, FreePlace, StorePlace, HasPage, HasNone,
              Masked, Freeing
<1>7. HasNone(doing[s], ip[s] + 1) => own[s] = NoPage
  BY <1>6 DEF PageInv, PageTypes
<1>8. cut = {} => OneOwner' /\ AboutRight(s)'
  <2> SUFFICES ASSUME cut = {} PROVE OneOwner' /\ AboutRight(s)'
    OBVIOUS
  <2>1. OneOwner /\ AboutRight(s)
    BY <1>2 DEF PageInv, PagesOnce
  <2>2. OneOwner'
    BY <1>1, <2>1 DEF OneOwner
  <2>3. (AtAlloc(s)' => AtAlloc(s)) /\ (AtFree(s)' => AtFree(s))
    BY <1>2, <1>5, <1>6, OthersHavePages
  <2>4. seen'[s] = free' \cap ByteOf(found'[s])
    BY <1>1, <1>4
  <2> QED
    BY <1>1, <2>1, <2>2, <2>3, <2>4 DEF AboutRight
<1>9. doing[s] \in Masked => ~ sie'
  BY <1>1 DEF PageInv, MaskedStay
<1> HIDE DEF b
<1> QED
  BY <1>1, <1>2, <1>3, <1>4, <1>5, <1>6, <1>7, <1>8, <1>9, PageStep

\* Where a call is after it has written the byte.
LEMMA AfterStore ==
    ASSUME IInv, PageInv, NEW s \in Slot, NEW op \in {"mark", "free"}, AtStep(s, op), Passes(s),
           sie' = (sie \/ IsLast(s))
    PROVE  \E c, i : /\ Moved(s, c, i) /\ ~ AboutPlace(c, i) /\ ~ HasPage(c, i) /\ ~ HasNone(c, i)
                     /\ c \in Masked => ~ sie'
<1>1. /\ Places /\ Runs(s) /\ ip[s] \in 1 .. 7 /\ ip[s] # 0 /\ AtStore(s)
      /\ op = "mark" => AtAlloc(s)
      /\ op = "free" => IsLast(s)
      /\ doing[s] \in Masked => (IsLast(s) <=> ip[s] = 3)
  BY StepPlaces
<1>2. ~ AboutPlace("none", 0) /\ "none" \notin Masked /\ ~ HasPage("none", 0) /\ ~ HasNone("none", 0)
  BY NoPlace
<1>3. CASE IsLast(s)
  <2>1. Moved(s, "none", 0)
    BY <1>1, <1>3, ReturnsMoves DEF Passes
  <2> QED
    BY <1>2, <2>1
<1>4. CASE ~ IsLast(s)
  <2>1. Moved(s, doing[s], ip[s] + 1)
    BY <1>1, <1>4, PassesMoves DEF IsLast
  <2>2. AtAlloc(s)
    BY <1>1, <1>4
  <2>3. doing[s] \notin Masked
    BY <1>1, <1>4 DEF AtStore, StorePlace, Masked
  <2>4. /\ ~ AboutPlace(doing[s], ip[s] + 1) /\ ~ HasPage(doing[s], ip[s] + 1)
        /\ ~ HasNone(doing[s], ip[s] + 1)
    BY <1>1, <2>2, <2>3 DEF AtAlloc, AtStore, AllocPlace, FreePlace, AboutPlace, StorePlace, HasPage, HasNone,
                            Masked, Freeing
  <2> QED
    BY <2>1, <2>3, <2>4
<1> QED
  BY <1>3, <1>4

LEMMA MarkKeepsPages == ASSUME IInv, PageInv, NEW s \in Slot, Mark(s) PROVE PageInv'
<1> DEFINE p == found[s]
<1>1. /\ AtStep(s, "mark") /\ own' = [own EXCEPT ![s] = p] /\ free' = (free \ ByteOf(p)) \cup (seen[s] \ {p})
      /\ found' = [found EXCEPT ![s] = NoPage] /\ seen' = [seen EXCEPT ![s] = {}]
      /\ UNCHANGED <<cut, current, index>> /\ Passes(s) /\ sie' = (sie \/ IsLast(s))
  BY DEF Mark, Written, OnAtEnd, sched
<1>2. Runs(s) /\ current = s /\ AtAlloc(s) /\ AtStore(s) /\ About(s) /\ p \in Page
  BY <1>1, StepPlaces DEF About, AboutPlace, AtAlloc, PageInv, PageTypes
<1> HIDE DEF p
<1>3. PICK c, i : /\ Moved(s, c, i) /\ ~ AboutPlace(c, i) /\ ~ HasPage(c, i) /\ ~ HasNone(c, i)
                  /\ c \in Masked => ~ sie'
  BY <1>1, AfterStore
<1>4. free \subseteq Page /\ seen[s] \in SUBSET Page /\ free' \subseteq Page
  BY <1>1 DEF PageInv, PageTypes
<1>5. /\ own'[s] = p /\ found'[s] = NoPage
      /\ \A t \in Slot \ {s} : own'[t] = own[t] /\ found'[t] = found[t]
  BY <1>1 DEF PageInv, PageTypes
<1>6. cut = {} => OneOwner'
  <2> SUFFICES ASSUME cut = {} PROVE OneOwner'
    OBVIOUS
  <2>1. OneOwner /\ p \in free /\ seen[s] = free \cap ByteOf(p)
    BY <1>2 DEF PageInv, PagesOnce, AboutRight, p
  <2>2. free' = free \ {p}
    BY <1>1, <1>2, <2>1 DEF ByteOf
  <2>3. \A t \in Slot : own'[t] \notin free'
    BY <1>5, <2>1, <2>2 DEF OneOwner
  <2>4. \A t, u \in Slot : own'[t] # NoPage /\ own'[t] = own'[u] => t = u
    BY <1>5, <2>1 DEF OneOwner
  <2>5. \A q \in Page : q \in free' \/ \E t \in Slot : q \in {own'[t], found'[t]}
    <3> SUFFICES ASSUME NEW q \in Page, q \notin free', q # p
                 PROVE  \E t \in Slot : q \in {own'[t], found'[t]}
      BY <1>5
    <3>1. PICK t \in Slot : q \in {own[t], found[t]}
      BY <2>1, <2>2 DEF OneOwner
    <3>2. t # s
      <4>1. own[s] # q
        <5>1. HasNone(doing[s], ip[s])
          BY <1>2 DEF AtAlloc, AllocPlace, HasNone
        <5>2. own[s] = NoPage /\ NoPage \notin Page
          BY <5>1, NotAPage DEF PageInv, PageTypes
        <5> QED
          BY <5>2
      <4> QED
        BY <3>1, <4>1 DEF p
    <3> QED
      BY <1>5, <3>1, <3>2
  <2> QED
    BY <2>3, <2>4, <2>5 DEF OneOwner
<1>7. NoPage \in Page \cup {NoPage} /\ {} \in SUBSET Page
  OBVIOUS
<1> QED
  BY <1>1, <1>2, <1>3, <1>4, <1>6, <1>7, PageStep

LEMMA FreeKeepsPages == ASSUME IInv, PageInv, NEW s \in Slot, Free(s) PROVE PageInv'
<1> DEFINE p == found[s]
<1>1. /\ AtStep(s, "free") /\ free' = (free \ ByteOf(p)) \cup (seen[s] \cup {p})
      /\ found' = [found EXCEPT ![s] = NoPage] /\ seen' = [seen EXCEPT ![s] = {}]
      /\ UNCHANGED <<own, cut, current, index>> /\ Passes(s) /\ sie' = (sie \/ IsLast(s))
  BY DEF Free, Written, OnAtEnd, sched
<1>2. Runs(s) /\ current = s /\ AtFree(s) /\ AtStore(s) /\ About(s) /\ p \in Page
  BY <1>1, StepPlaces DEF About, AboutPlace, AtFree, PageInv, PageTypes
<1> HIDE DEF p
<1>3. PICK c, i : /\ Moved(s, c, i) /\ ~ AboutPlace(c, i) /\ ~ HasPage(c, i) /\ ~ HasNone(c, i)
                  /\ c \in Masked => ~ sie'
  BY <1>1, AfterStore
<1>4. free \subseteq Page /\ seen[s] \in SUBSET Page /\ free' \subseteq Page
  BY <1>1, <1>2 DEF PageInv, PageTypes
<1>5. /\ own' = [own EXCEPT ![s] = own[s]] /\ own[s] \in Page \cup {NoPage} /\ found'[s] = NoPage
      /\ \A t \in Slot \ {s} : found'[t] = found[t]
  BY <1>1 DEF PageInv, PageTypes
<1>6. cut = {} => OneOwner'
  <2> SUFFICES ASSUME cut = {} PROVE OneOwner'
    OBVIOUS
  <2>1. OneOwner /\ seen[s] = free \cap ByteOf(p) /\ \A t \in Slot : own[t] # p
    BY <1>2 DEF PageInv, PagesOnce, AboutRight, p
  <2>2. free' = free \cup {p}
    BY <1>1, <2>1
  <2>3. \A t \in Slot : own'[t] \notin free'
    BY <1>1, <2>1, <2>2 DEF OneOwner
  <2>4. \A t, u \in Slot : own'[t] # NoPage /\ own'[t] = own'[u] => t = u
    BY <1>1, <2>1 DEF OneOwner
  <2>5. \A q \in Page : q \in free' \/ \E t \in Slot : q \in {own'[t], found'[t]}
    <3> SUFFICES ASSUME NEW q \in Page, q \notin free'
                 PROVE  \E t \in Slot : q \in {own'[t], found'[t]}
      OBVIOUS
    <3>1. q \notin free /\ q # p
      BY <2>2
    <3>2. PICK t \in Slot : q \in {own[t], found[t]}
      BY <2>1, <3>1 DEF OneOwner
    <3>3. t = s => q = own[s]
      BY <3>1, <3>2 DEF p
    <3> QED
      BY <1>1, <1>5, <3>2, <3>3
  <2> QED
    BY <2>3, <2>4, <2>5 DEF OneOwner
<1>7. NoPage \in Page \cup {NoPage} /\ {} \in SUBSET Page
  OBVIOUS
<1> QED
  BY <1>1, <1>2, <1>3, <1>4, <1>5, <1>6, <1>7, PageStep

\* A timer interrupt cuts a call that is about to change the bitmap: not fork or wait.
LEMMA TimerKeepsPages == ASSUME IInv, PageInv, Timer PROVE PageInv'
<1> DEFINE s == current
           here == \E op \in {"read", "mark", "free"} : AtStep(s, op)
<1>1. /\ s \in Slot /\ Runs(s) /\ sie /\ sie' = FALSE /\ current' = NoSlot
      /\ cut' = (IF here THEN cut \cup {doing[s]} ELSE cut)
      /\ UNCHANGED <<doing, ip, index, found, seen, own, free>>
  BY DEF Timer, PageInv, PageTypes
<1> HIDE DEF s
<1>2. \A t \in Slot : doing[t] \notin Masked
  BY <1>1 DEF PageInv, MaskedStay
<1>3. here <=> About(s)
  <2>1. here => About(s)
    BY <1>1, StepPlaces DEF About, AboutPlace, AtAlloc, AtFree
  <2>2. ASSUME About(s) PROVE here
    <3>1. ip[s] # 0 /\ Places
      <4>1. ip[s] \in 2 .. 6
        BY <2>2 DEF About, AboutPlace, AllocPlace, FreePlace
      <4> QED
        BY <4>1 DEF IInv, Places
    <3>2. Steps[doing[s]][ip[s]][1] \in {"read", "mark", "free"}
      BY <1>1, <2>2, <3>1, AtTable DEF Table, PageTable, About
    <3> QED
      BY <1>1, <3>1, <3>2 DEF AtStep, InUser, Op
  <2> QED
    BY <2>1, <2>2
<1>4. About(s) => doing[s] \in {"pipe_alloc", "pipe_close"}
  BY <1>1, <1>2 DEF About, AboutPlace, AllocPlace, FreePlace, Masked
<1> HIDE DEF here
<1>5. cut' \subseteq {"pipe_alloc", "pipe_close"} /\ (cut' = {} => cut = {} /\ ~ About(s))
  BY <1>1, <1>3, <1>4 DEF PageInv
<1>6. \A t \in Slot : About(t)' = About(t)
  BY <1>1 DEF About
<1>7. cut' = {} => PagesOnce'
  <2> SUFFICES ASSUME cut' = {} PROVE PagesOnce'
    OBVIOUS
  <2>1. PagesOnce /\ ~ About(s)
    BY <1>5 DEF PageInv
  <2>2. \A t \in Slot : ~ About(t)' /\ found'[t] = NoPage
    BY <1>1, <1>6, <2>1 DEF PagesOnce, AboutRight, s
  <2>3. OneOwner'
    BY <1>1, <2>1 DEF PagesOnce, OneOwner
  <2> QED
    BY <2>2, <2>3 DEF PagesOnce
<1>8. PageTypes'
  BY <1>1, <1>6 DEF PageInv, PageTypes
<1>9. MaskedStay'
  BY <1>1, <1>2 DEF MaskedStay
<1> QED
  BY <1>5, <1>7, <1>8, <1>9 DEF PageInv

LEMMA LookKeepsPages ==
    ASSUME IInv, PageInv, SpinlockAssumption, Look \/ TimerInLoop
    PROVE  PageInv'
<1>1. /\ current = NoSlot /\ current' \in {NoSlot, index} /\ index' \in {index, (index + 1) % NPROC}
      /\ UNCHANGED <<doing, ip, found, seen, own, free, cut>>
  BY DEF Look, GoesOn, StaysInLoop, TimerInLoop, pages
<1>2. index' \in Slot /\ NoSlot \notin Slot
  BY <1>1 DEF PageInv, PageTypes, SpinlockAssumption, Slot, NoSlot
<1>3. \A t \in Slot : doing[t] \notin Masked
  BY <1>1, <1>2 DEF PageInv, MaskedStay
<1>4. MaskedStay'
  BY <1>1, <1>3 DEF MaskedStay
<1>5. \A t \in Slot : About(t)' = About(t)
  BY <1>1 DEF About
<1>6. PageTypes'
  BY <1>1, <1>2, <1>5 DEF PageInv, PageTypes
<1>7. cut = {} => PagesOnce'
  <2> SUFFICES ASSUME cut = {} PROVE PagesOnce'
    OBVIOUS
  <2>1. PagesOnce
    BY DEF PageInv
  <2>2. \A t \in Slot : ~ About(t)' /\ found'[t] = NoPage
    BY <1>1, <1>2, <1>5, <2>1 DEF PagesOnce, AboutRight
  <2>3. OneOwner'
    BY <1>1, <2>1 DEF PagesOnce, OneOwner
  <2> QED
    BY <2>2, <2>3 DEF PagesOnce
<1> QED
  BY <1>1, <1>4, <1>6, <1>7 DEF PageInv

LEMMA EnterKeepsPages ==
    ASSUME IInv, PageInv, SpinlockAssumption, NEW s \in Slot, NEW c \in Used, Enter(s, c)
    PROVE  PageInv'
<1>1. /\ Runs(s) /\ sie' = FALSE /\ UNCHANGED <<current, index, pages>> /\ current = s /\ ip[s] = 0
      /\ doing' = [doing EXCEPT ![s] = c] /\ ip' = [ip EXCEPT ![s] = 1]
  BY DEF Enter, TrapEntry, sched, Runs, InUser
<1>2. IInv'
  BY EnterKeeps
<1>3. Moved(s, c, 1)
  BY <1>1, <1>2 DEF IInv, Types, Moved
<1>4. ~ About(s) /\ ~ AboutPlace(c, 1)
  BY <1>1 DEF About, AboutPlace, AllocPlace, FreePlace
<1>5. (HasPage(c, 1) => own[s] # NoPage) /\ (HasNone(c, 1) => own[s] = NoPage)
  BY DEF Enter, HasPage, HasNone, Freeing
<1> QED
  BY <1>1, <1>3, <1>4, <1>5, QuietKeepsPages

LEMMA StepPageInv == ASSUME SpinlockAssumption, IInv, PageInv, [Next]_vars PROVE PageInv'
<1>1. ASSUME NEW s \in Slot, KernelStep(s) PROVE PageInv'
  BY <1>1, LockStepsKeepPages, FindKeepsPages, TestKeepsPages, ReadKeepsPages, MarkKeepsPages, FreeKeepsPages
     DEF KernelStep
<1>2. CASE UNCHANGED vars
  <2>1. /\ UNCHANGED <<doing, ip, index, current, sie, found, seen, own, free, cut>>
        /\ \A t \in Slot : About(t)' = About(t)
    BY <1>2 DEF vars, sched, pages, About
  <2>2. PageTypes' /\ MaskedStay'
    BY <2>1 DEF PageInv, PageTypes, MaskedStay
  <2>3. PagesOnce => PagesOnce'
    BY <2>1 DEF PagesOnce, OneOwner, AboutRight, AtAlloc, AtFree, AtStore
  <2> QED
    BY <2>1, <2>2, <2>3 DEF PageInv
<1> QED
  BY <1>1, <1>2, EnterKeepsPages, TimerKeepsPages, LookKeepsPages DEF Next

\* A page has two owners, is free while it has one, or is lost, only when pipe_alloc
\* or pipe_close was preempted while about to change the bitmap: the release before
\* had turned interrupts on.  fork and wait never are (physmem_alloc_page,
\* free_physical_page, pipe_close, spinlock_release).
THEOREM WrongPagesNeedRelease == Spec => []WrongPageNeedsRelease
<1>1. Init => PageInv
  <2> SUFFICES ASSUME Init PROVE PageInv
    OBVIOUS
  <2>1. \A s \in Slot : doing[s] = "none" /\ ip[s] = 0 /\ own[s] = NoPage /\ found[s] = NoPage
    BY DEF Init
  <2>2. \A s \in Slot : ~ About(s) /\ ~ HasPage(doing[s], ip[s]) /\ ~ HasNone(doing[s], ip[s])
                        /\ doing[s] \notin Masked
    BY <2>1 DEF About, AboutPlace, AllocPlace, FreePlace, HasPage, HasNone, Freeing, Masked
  <2>3. PageTypes
    BY <2>2, SpinlockAssumption DEF Init, PageTypes, Slot
  <2>4. OneOwner
    BY <2>1, NotAPage DEF Init, OneOwner
  <2> QED
    BY <2>1, <2>2, <2>3, <2>4 DEF Init, PageInv, MaskedStay, PagesOnce
<1>2. IInv /\ PageInv /\ [Next]_vars => PageInv'
  BY StepPageInv, SpinlockAssumption
<1>3. PageInv => WrongPageNeedsRelease
  BY DEF PageInv, PagesOnce, OneOwner, WrongPageNeedsRelease
<1> QED
  BY <1>1, <1>2, <1>3, Invariance, PTL DEF Spec

=============================================================================
