------------------------------- MODULE Output -------------------------------
(***************************************************************************)
(* From printf, printk, panic, u_printf and u_write to the serial line:    *)
(* the system-call path of kernel/trap/trap.c and kernel/sys/syscall.c,    *)
(* uart_putchar, and the external interrupts, whose handler prints too.    *)
(*                                                                         *)
(* One hart runs a thread, in kernel or user code, and on top of it the    *)
(* handler of external interrupts; a timer tick gives the hart to another  *)
(* process, which prints too.  The entry code that saves and restores      *)
(* registers around kerneltrap is not in the repository; it is taken to do *)
(* so, to turn interrupts off and back on.  The calls that reach the       *)
(* process table (fork, exit, wait, sleep, yield) are Proc's.              *)
(***************************************************************************)
EXTENDS Format

CONSTANTS
    Numbers,        \* numbers that are printed
    Numeric,        \* conversions printf is called with
    Bufs,           \* texts a program writes; NULL is the null pointer
    Counts,         \* values of its n
    Fds,            \* and of its fd
    Pid,            \* pid of the running process
    CallNumbers,    \* numbers in a7, without those of Proc and SYS_write
    SchedulerReturns,   \* scheduler() returns to its callers: in the code it does not
    Acknowledges,   \* the handler satisfies the device: in the code it does not
    MaxCalls        \* bound on calls

NSYSCALLS == 9
SYS_read  == 4
SYS_write == 5
SYS_getpid == 6
ProcCalls == {1, 2, 3, 7, 8}    \* fork, exit, wait, sleep, yield

ASSUME OutputAssumption ==
    /\ Numbers \subseteq Int /\ Counts \subseteq Int /\ Fds \subseteq Int
    /\ CallNumbers \subseteq Int \ (ProcCalls \cup {SYS_write})
    /\ Bufs \subseteq Seq(STRING) /\ \A buf \in Bufs \ {NULL}, n \in Counts : n <= Len(buf)
    /\ SchedulerReturns \in BOOLEAN /\ Acknowledges \in BOOLEAN /\ MaxCalls \in Nat

UART0_IRQ   == 10
VIRTIO0_IRQ == 1
Sources     == {UART0_IRQ, VIRTIO0_IRQ}

NoChar  == <<>>     \* the transmit register holds nothing
Handler == 0        \* who stores: the handler, the other process, or a call's number
Other   == -1

VARIABLES
    at,             \* where the thread is
    call,           \* its call: kind, conversion, number, and u_write's arguments
    rest,           \* what its u_printf has left to write
    todo,           \* what is left of the text it gives to uart_putchar
    handed,         \* what of the call's text has been stored in the register
    ret,            \* result of its last call
    sie,            \* interrupts are on in the thread
    hat,            \* where the handler is
    htodo,          \* what is left of its message
    claimed,        \* the source it has claimed
    asserted,       \* sources whose devices ask for an interrupt
    serving,        \* sources claimed and not completed
    away,           \* a tick has given the hart to the other process
    oat,            \* where that is in uart_putchar
    thr,            \* transmit register: NoChar, or <<who, character>>
    line,           \* characters of the call that have left the register
    cut,            \* the handler ran between a test and its store (history)
    parted,         \* a tick came between a test and its store (history)
    lost,           \* whose characters were overwritten (history)
    calls           \* calls so far

thread  == <<at, call, rest, todo, handed, ret, sie>>
handler == <<hat, htodo, claimed>>
plic    == <<asserted, serving>>
other   == <<away, oat>>
uart    == <<thr, line>>
history == <<cut, parted, lost>>
outputVars == <<thread, handler, plic, other, uart, history, calls>>

\* "user": in a user function, before its next ecall.  "test", "store": in
\* uart_putchar.  "halted": in halt().
NoCall == [kind |-> "none", op |-> "none", v |-> 0, read |-> 0, fd |-> 0, n |-> 0, buf |-> NULL]

OutputTypeOK ==
    /\ at \in {"idle", "user", "test", "store", "halted"}
    /\ call.kind \in {"none", "printf", "printk", "panic", "u_printf", "write", "number"}
    /\ sie \in BOOLEAN
    /\ hat \in {"none", "claim", "test", "store", "complete"}
    /\ claimed \in Sources \cup {0}
    /\ asserted \subseteq Sources /\ serving \subseteq Sources
    /\ away \in BOOLEAN /\ oat \in {"idle", "test", "store"}
    /\ (thr = NoChar \/ thr[1] \in -1 .. MaxCalls)
    /\ lost \subseteq -1 .. MaxCalls

OutputInit ==
    /\ at = "idle" /\ call = NoCall /\ rest = <<>> /\ todo = <<>> /\ handed = <<>>
    /\ ret = 0 /\ sie = FALSE
    /\ hat = "none" /\ htodo = <<>> /\ claimed = 0
    /\ asserted = {} /\ serving = {}
    /\ away = FALSE /\ oat = "idle"
    /\ thr = NoChar /\ line = <<>>
    /\ cut = FALSE /\ parted = FALSE /\ lost = {}
    /\ calls = 0

\* The PLIC holds a source back from its claim to its completion.
Pending == asserted \ serving

\* The hart takes an interrupt before its next instruction.
Interrupted == sie /\ Pending # {}
ThreadRuns  == hat = "none" /\ ~ away /\ ~ Interrupted

-----------------------------------------------------------------------------
(***************************************************************************)
(* Calls                                                                   *)
(***************************************************************************)

Word == [op |-> "char", c |-> "w"]      \* the words of a message
Conv(op) == [op |-> op, width |-> 0, zero |-> FALSE]

\* How a caller passes a number: an int is extended, a long is not.
Passed(op, v) == IF op \in {"d", "i", "u", "x", "X"} THEN Register(v) ELSE ToUint64(v)

Begins(c) ==
    /\ ThreadRuns /\ at = "idle" /\ calls < MaxCalls
    /\ call' = c
    /\ calls' = calls + 1
    /\ handed' = <<>> /\ line' = <<>>
    /\ UNCHANGED <<handler, plic, other, thr, history>>

\* Text goes to uart_putchar, character by character.
Puts(text) == todo' = text /\ at' = IF text = <<>> THEN "idle" ELSE "test"

\* Kernel code prints, with interrupts on if it has released a spinlock before.
KernelPrint(kind, op, v) ==
    LET fmt  == <<Word, Conv(op)>>
        args == <<Passed(op, v)>>
    IN  /\ Begins([NoCall EXCEPT !.kind = kind, !.op = op, !.v = v, !.read = v])
        /\ Puts(IF kind = "printf" THEN Printf(fmt, args) ELSE Vprintk(fmt, args))
        /\ ret' = IF kind = "printk" THEN PrintkCount(1, fmt[2], args[1]) ELSE ret
        /\ sie' \in BOOLEAN
        /\ rest' = <<>>

\* panic, after panic_set_context: it leaves interrupts as they are.
Panic(line_no) ==
    /\ Begins([NoCall EXCEPT !.kind = "panic", !.v = line_no, !.read = line_no])
    /\ Puts(<<"w">> \o PanicLine(line_no) \o <<"w">>)
    /\ sie' \in BOOLEAN
    /\ rest' = <<>> /\ UNCHANGED ret

\* u_printf, called with v, reads its arguments from the memory behind its
\* parameter fmt, where the caller has put none: it finds any number.
UserPrint(v, found) ==
    /\ Begins([NoCall EXCEPT !.kind = "u_printf", !.op = "d", !.v = v, !.read = found])
    /\ rest' = UPrintf(<<Word, Conv("d")>>, <<Register(found)>>)
    /\ at' = "user" /\ sie' = TRUE
    /\ UNCHANGED <<todo, ret>>

UserWrite(fd, buf, n) ==
    /\ Begins([NoCall EXCEPT !.kind = "write", !.fd = fd, !.buf = buf, !.n = n])
    /\ at' = "user" /\ sie' = TRUE
    /\ rest' = <<>> /\ UNCHANGED <<todo, ret>>

UserCall(num) ==
    /\ Begins([NoCall EXCEPT !.kind = "number", !.v = num])
    /\ at' = "user" /\ sie' = TRUE
    /\ rest' = <<>> /\ UNCHANGED <<todo, ret>>

-----------------------------------------------------------------------------
(***************************************************************************)
(* System calls: ecall, kerneltrap, syscall                                *)
(***************************************************************************)

WritesAnything(fd, buf, n) == buf # NULL /\ n > 0

\* sys_write's test.
MayWrite(fd, buf, n) == fd \in {1, 2} /\ buf # NULL /\ n > 0

\* sys_write: all of the text before it returns n.
Write(fd, buf, n) ==
    IF MayWrite(fd, buf, n)
    THEN /\ todo' = SubSeq(buf, 1, n) /\ at' = "test" /\ ret' = n /\ sie' = FALSE
    ELSE /\ ret' = -1 /\ at' = "idle" /\ UNCHANGED <<todo, sie>>

\* syscall: the table has a handler for 1 .. NSYSCALLS - 1; another number is
\* printed, with the pid, and the result is -1.
Dispatch(num) ==
    CASE num = SYS_read   -> ret' = -1 /\ at' = "idle" /\ UNCHANGED <<todo, sie>>
      [] num = SYS_getpid -> ret' = Pid /\ at' = "idle" /\ UNCHANGED <<todo, sie>>
      [] num <= 0 \/ num >= NSYSCALLS ->
            /\ todo' = Printf(<<Word, Conv("d"), Word, Conv("d")>>,
                              <<Register(num), Register(Pid)>>)
            /\ at' = "test" /\ ret' = -1 /\ sie' = FALSE

\* The thread executes ecall: u_putchar of the next character of u_printf, or
\* the call itself.
Ecall ==
    /\ ThreadRuns /\ at = "user"
    /\ CASE call.kind = "u_printf" -> Write(1, <<Head(rest)>>, 1) /\ rest' = Tail(rest)
         [] call.kind = "write"    -> Write(call.fd, call.buf, call.n) /\ UNCHANGED rest
         [] call.kind = "number"   -> Dispatch(call.v) /\ UNCHANGED rest
    /\ UNCHANGED <<handler, plic, other, uart, history, calls, call, handed>>

-----------------------------------------------------------------------------
(***************************************************************************)
(* uart_putchar and the device                                             *)
(***************************************************************************)

SeesAnything == TRUE

\* The loop of uart_putchar ends: THRE is set.
SeesRoom == thr = NoChar

\* A store of c; what it finds in the register is lost.
Store(who, c) ==
    /\ thr' = <<who, c>>
    /\ lost' = IF thr = NoChar THEN lost ELSE lost \cup {thr[1]}

PutTest ==
    /\ ThreadRuns /\ at = "test" /\ SeesRoom
    /\ at' = "store"
    /\ UNCHANGED <<call, rest, todo, handed, ret, sie, handler, plic, other, uart, history, calls>>

\* Where the thread goes on after the last character: back to user mode, with
\* interrupts, out of printf, or into halt().
After ==
    IF call.kind = "panic" THEN "halted" ELSE IF rest # <<>> THEN "user" ELSE "idle"

PutStore ==
    /\ ThreadRuns /\ at = "store"
    /\ Store(calls, Head(todo))
    /\ handed' = Append(handed, Head(todo))
    /\ todo' = Tail(todo)
    /\ IF Len(todo) > 1 THEN at' = "test" /\ UNCHANGED sie
       ELSE /\ at' = After
            /\ sie' = (sie \/ call.kind \in {"u_printf", "write", "number"})
    /\ UNCHANGED <<call, rest, ret, handler, plic, other, line, cut, parted, calls>>

\* The device sends the character.
Send ==
    /\ thr # NoChar
    /\ thr' = NoChar
    /\ line' = IF thr[1] = calls THEN Append(line, thr[2]) ELSE line
    /\ UNCHANGED <<thread, handler, plic, other, history, calls>>

-----------------------------------------------------------------------------
(***************************************************************************)
(* External interrupts: kerneltrap's branch for cause 9, and the PLIC      *)
(***************************************************************************)

\* A device asks for an interrupt, until it is satisfied.
Raise(src) ==
    /\ src \notin asserted
    /\ asserted' = asserted \cup {src}
    /\ UNCHANGED <<thread, handler, serving, other, uart, history, calls>>

Running == IF away THEN oat ELSE at

\* The thread is interrupted where it has interrupts on, the other process
\* anywhere.
Take ==
    /\ hat = "none" /\ Pending # {} /\ (sie \/ away)
    /\ hat' = "claim"
    /\ cut' = (cut \/ Running = "store")
    /\ UNCHANGED <<thread, htodo, claimed, plic, other, uart, parted, lost, calls>>

Message(src) == IF src = UART0_IRQ THEN <<"U", "n">> ELSE <<"V", "n">>

\* plic_claim: the lowest number among equal priorities.
Claim ==
    LET src == CHOOSE s \in Pending : \A t \in Pending : s <= t
    IN  /\ hat = "claim"
        /\ serving' = serving \cup {src}
        /\ claimed' = src
        /\ htodo' = Message(src)
        /\ hat' = "test"
        /\ UNCHANGED <<thread, asserted, other, uart, history, calls>>

HandlerTest ==
    /\ hat = "test" /\ SeesRoom
    /\ hat' = "store"
    /\ UNCHANGED <<thread, htodo, claimed, plic, other, uart, history, calls>>

HandlerStore ==
    /\ hat = "store"
    /\ Store(Handler, Head(htodo))
    /\ htodo' = Tail(htodo)
    /\ hat' = IF Len(htodo) > 1 THEN "test" ELSE "complete"
    /\ UNCHANGED <<thread, claimed, plic, other, line, cut, parted, calls>>

\* plic_complete of what was claimed.  The handler has neither read the UART nor
\* acknowledged the disk's interrupt: the source, still asserted, interrupts again.
StillServed == serving \ {claimed}

Complete ==
    /\ hat = "complete"
    /\ serving' = StillServed
    /\ asserted' = IF Acknowledges THEN asserted \ {claimed} ELSE asserted
    /\ claimed' = 0
    /\ hat' = "none"
    /\ UNCHANGED <<thread, htodo, other, uart, history, calls>>

-----------------------------------------------------------------------------
(***************************************************************************)
(* Timer interrupts: kerneltrap's branch for cause 5                       *)
(***************************************************************************)

\* yield gives the hart to the other process, which prints; a tick there gives
\* it back to the thread if scheduler() returns.  External interrupts come first.
Tick ==
    /\ IF away THEN hat = "none" /\ SchedulerReturns ELSE ThreadRuns /\ sie
    /\ away' = ~ away
    /\ parted' = (parted \/ Running = "store")
    /\ UNCHANGED <<thread, handler, plic, oat, uart, cut, lost, calls>>

OtherRuns == away /\ hat = "none"

OtherBegins ==
    /\ OtherRuns /\ oat = "idle"
    /\ oat' = "test"
    /\ UNCHANGED <<thread, handler, plic, away, uart, history, calls>>

OtherTest ==
    /\ OtherRuns /\ oat = "test" /\ SeesRoom
    /\ oat' = "store"
    /\ UNCHANGED <<thread, handler, plic, away, uart, history, calls>>

OtherStore ==
    /\ OtherRuns /\ oat = "store"
    /\ Store(Other, "o")
    /\ oat' = "idle"
    /\ UNCHANGED <<thread, handler, plic, away, line, cut, parted, calls>>

-----------------------------------------------------------------------------
ThreadStep  == Ecall \/ PutTest \/ PutStore
HandlerStep == Take \/ Claim \/ HandlerTest \/ HandlerStore \/ Complete
OtherStep   == OtherBegins \/ OtherTest \/ OtherStore

OutputNext ==
    \/ \E kind \in {"printf", "printk"}, op \in Numeric, v \in Numbers :
          /\ kind = "printf" \/ op \in {"d", "u", "x"}
          /\ KernelPrint(kind, op, v)
    \/ \E v \in Numbers : Panic(ToInt(v))
    \/ \E v, found \in Numbers : UserPrint(v, found)
    \/ \E fd \in Fds, buf \in Bufs, n \in Counts : UserWrite(fd, buf, n)
    \/ \E num \in CallNumbers : UserCall(num)
    \/ ThreadStep \/ Send
    \/ \E src \in Sources : Raise(src)
    \/ HandlerStep
    \/ Tick \/ OtherStep

OutputSpec == OutputInit /\ [][OutputNext]_outputVars

\* The hart goes on, and the UART sends what it is given.
OutputFairSpec == OutputSpec /\ WF_outputVars(ThreadStep) /\ WF_outputVars(HandlerStep) /\ WF_outputVars(Send)

-----------------------------------------------------------------------------
(***************************************************************************)
(* Properties                                                              *)
(***************************************************************************)

\* The number a row of digits stands for.
Number(base, s) == FoldLeft(LAMBDA acc, c : acc * base + ValueOf(c), 0, s)

IsDigits(base, s) ==
    /\ s # <<>>
    /\ \A i \in 1 .. Len(s) : \E d \in 1 .. base : Chars[d] = s[i]
    /\ s[1] = "0" => Len(s) = 1

\* s writes v in decimal, as u_atoi reads it.
Decimal(s, v) ==
    /\ IF v < 0 THEN s[1] = "-" /\ IsDigits(10, Tail(s)) /\ Number(10, Tail(s)) = -v
       ELSE IsDigits(10, s) /\ Number(10, s) = v
    /\ v \in IntMin .. -IntMin - 1 => UAtoi(s) = v

Hexadecimal(s, v) == IsDigits(16, s) /\ Number(16, s) = v

\* The number that a conversion, given v, should show.
Meant(op, v) ==
    IF op \in {"d", "i"} THEN ToInt(v)
    ELSE IF op = "ld" THEN ToInt64(v)
    ELSE IF op \in {"u", "x", "X"} THEN ToUint(v) ELSE ToUint64(v)

\* What %d does not show, and, of printf, %u and %x, which read a long where an
\* int was passed.
Unshown(kind, op, v) ==
    \/ op = "d" /\ ToInt(v) = IntMin
    \/ kind = "printf" /\ op \in {"u", "x"} /\ ToUint(v) >= IntW \div 2

\* What has left the UART when a call is over.
Out == at \in {"idle", "halted"} /\ call.kind # "none" /\ (thr = NoChar \/ thr[1] # calls)
Body == Tail(line)

\* A number stands on the line as conversion op of a printer shows it.
Shows(kind, op, v) ==
    IF op \in {"d", "ld", "u", "lu"} THEN Decimal(Body, Meant(op, v))
    ELSE IF kind = "printk" THEN Hexadecimal(Body, Meant(op, v))
    ELSE /\ SubSeq(Body, 1, 2) = <<"0", "x">>
         /\ Hexadecimal(SubSeq(Body, 3, Len(Body)), Meant(op, v))

\* When a call is over, the number its printer has read stands on the serial line,
\* complete, in order and readable, with exactly these exceptions: the smallest
\* int with %d, and, with printf's %u and %x, an int from 2^31 on.  The line number
\* of a panic is readable if there is one.  From the conversion through system calls
\* to the device (print_int, print_uint64, print_hex, printk_write_uint, u_itoa,
\* sys_write, uart_putchar).  A process that comes back from a tick to its store
\* may destroy it, for which scheduler() must return.
Told ==
    Out /\ ~ (SchedulerReturns /\ parted) =>
        CASE call.kind \in {"printf", "printk", "u_printf"} ->
                Shows(call.kind, call.op, call.read) <=> ~ Unshown(call.kind, call.op, call.read)
          [] call.kind = "panic" /\ call.read > 0 ->
                Decimal(SubSeq(Body, 1, Len(Body) - 1), call.read)
          [] OTHER -> TRUE

\* A write that returns n has handed over exactly the n characters, one that
\* returns -1 none; every other result is that of the call's number
\* (sys_write, syscall).
ResultOfCall ==
    at = "idle" =>
        CASE call.kind = "write" ->
                \/ ret = call.n /\ handed = SubSeq(call.buf, 1, call.n) /\ call.fd \in {1, 2}
                \/ ret = -1 /\ handed = <<>> /\ (call.fd \notin {1, 2} \/ call.n <= 0 \/ call.buf = NULL)
          [] call.kind = "number" -> IF call.v = SYS_getpid THEN ret = Pid ELSE ret = -1
          [] OTHER -> TRUE

\* What a call has stored is on the line, in the order it was stored, or in the
\* register for the last of it.
Delivered == handed = IF thr # NoChar /\ thr[1] = calls THEN Append(line, thr[2]) ELSE line

\* The only characters lost are the handler's, and only after a cut.
OnlyHandlers == lost # {} => cut /\ lost = {Handler}

\* A character is overwritten in the transmit register only after an interrupt
\* between the test of THRE and the store.  After one that runs the handler, the
\* lost characters are the handler's, and what a call has stored arrives complete
\* and in order; only a process that comes back from a tick to its store
\* overwrites those of another, and for that scheduler() must return
\* (uart_putchar, kerneltrap).
LostOnlyIfCut == (SchedulerReturns /\ parted) \/ (OnlyHandlers /\ Delivered)

-----------------------------------------------------------------------------
(***************************************************************************)
(* What the repository says and the code does not do                       *)
(***************************************************************************)

\* printf shows a signed int ("%d - entier décimal signé", console.c:143); the
\* smallest one stays negative in print_int.
SignedShown ==
    Out /\ call.kind = "printf" /\ call.op = "d" => Decimal(Body, ToInt(call.v))

\* u_printf shows the argument it was called with ("Accès aux arguments
\* variadiques manuellement", ulibc.c:130); it shows what it finds behind fmt.
ArgumentShown ==
    Out /\ call.kind = "u_printf" /\ ~ Unshown("u_printf", "d", call.v) =>
        Decimal(Body, ToInt(call.v))

\* A call from which no tick takes the hart comes to its end although devices
\* interrupt, for an interrupt that was completed is over ("Signaler au PLIC que
\* l'interruption a été traitée", plic.c:53); its source stays asserted.
TextEnds == [](~ away) => (at \in {"user", "test", "store"} ~> at \in {"idle", "halted"})
=============================================================================
