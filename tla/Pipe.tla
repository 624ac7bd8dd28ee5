-------------------------------- MODULE Pipe --------------------------------
(***************************************************************************)
(* A pipe of kernel/fs/pipe.c: the circular buffer, its two counters of    *)
(* fixed width, and the processes that read, write and close it.           *)
(*                                                                         *)
(* pi->lock is held, with interrupts off, from the entry of pipe_read or   *)
(* pipe_write to its return or to a call of sleep(), which releases it;    *)
(* each such stretch is one action.  Before the first read and after the   *)
(* last close nothing of the pipe is used.                                 *)
(***************************************************************************)
EXTENDS Integers, Sequences

CONSTANTS
    Readers, Writers,   \* processes that hold the read end, the write end
    Byte,               \* values of a byte
    PIPESIZE,           \* size of the buffer
    Width,              \* the counters are kept modulo Width (2^32 for uint32)
    MaxCall,            \* bytes one call may ask for
    MaxBytes            \* bound on the bytes ever written, so that runs are finite

ASSUME PipeAssumption ==
    /\ PIPESIZE \in Nat \ {0} /\ Width \in Nat /\ MaxCall \in Nat /\ MaxBytes \in Nat
    /\ Width > PIPESIZE /\ Width % PIPESIZE = 0
    /\ Readers \cap Writers = {}

Index   == 0 .. PIPESIZE - 1
Counter == 0 .. Width - 1
Procs   == Readers \cup Writers

VARIABLES
    data,           \* pi->data
    nread, nwrite,  \* pi->nread, pi->nwrite
    readopen, writeopen,
    pc,             \* pc[p]: where process p is
    todo,           \* todo[w]: bytes a pipe_write has still to copy
    want,           \* want[r]: bytes a pipe_read was asked for
    delivered,      \* bytes the last pipe_read returned
    total           \* bytes accepted by pipe_write calls so far

vars == <<data, nread, nwrite, readopen, writeopen, pc, todo, want, delivered, total>>

ends  == <<readopen, writeopen>>
calls == <<todo, want, total>>

\* "call": entering the function, or woken inside it and about to test again;
\* "presleep": sleep() has released pi->lock and not yet set SLEEPING.
PcSet == {"idle", "call", "presleep", "asleep", "closed"}

Calls(S) == UNION {[1 .. n -> S] : n \in 1 .. MaxCall}

TypeOK ==
    /\ data \in [Index -> Byte]
    /\ nread \in Counter /\ nwrite \in Counter
    /\ readopen \in BOOLEAN /\ writeopen \in BOOLEAN
    /\ pc \in [Procs -> PcSet]
    /\ todo \in [Writers -> Seq(Byte)]
    /\ want \in [Readers -> 0 .. MaxCall]
    /\ delivered \in Seq(Byte) /\ Len(delivered) <= MaxCall
    /\ total \in 0 .. MaxBytes

Init ==
    /\ \E b \in Byte : data = [i \in Index |-> b]
    /\ nread = 0 /\ nwrite = 0
    /\ readopen = TRUE /\ writeopen = TRUE
    /\ pc = [p \in Procs |-> "idle"]
    /\ todo = [w \in Writers |-> <<>>]
    /\ want = [r \in Readers |-> 0]
    /\ delivered = <<>>
    /\ total = 0

-----------------------------------------------------------------------------
(***************************************************************************)
(* Sleeping and waking                                                     *)
(***************************************************************************)

\* wakeup() ignores its channel: every sleeper tests its condition again.
Woken(at) == [p \in Procs |-> IF at[p] = "asleep" THEN "call" ELSE at[p]]

\* The rest of sleep(): SLEEPING, scheduler().
FallAsleep(p) ==
    /\ pc[p] = "presleep"
    /\ pc' = [pc EXCEPT ![p] = "asleep"]
    /\ UNCHANGED <<data, nread, nwrite, ends, calls, delivered>>

\* A wakeup() elsewhere in the kernel, on any channel.
OtherWakeup ==
    /\ \E p \in Procs : pc[p] = "asleep"
    /\ pc' = Woken(pc)
    /\ UNCHANGED <<data, nread, nwrite, ends, calls, delivered>>

-----------------------------------------------------------------------------
(***************************************************************************)
(* pipe_write                                                              *)
(***************************************************************************)

\* Bytes in the buffer; the counters are unsigned.
InBuffer == (nwrite - nread) % Width

SpaceOffByOne == PIPESIZE - InBuffer + 1

\* The write loop stops at nwrite == nread + PIPESIZE.
Space == PIPESIZE - InBuffer

Smaller(a, b) == IF a <= b THEN a ELSE b

WriteCall(w, s) ==
    /\ pc[w] = "idle"
    /\ total + Len(s) <= MaxBytes
    /\ pc' = [pc EXCEPT ![w] = "call"]
    /\ todo' = [todo EXCEPT ![w] = s]
    /\ total' = total + Len(s)
    /\ UNCHANGED <<data, nread, nwrite, ends, want, delivered>>

\* The buffer after k bytes of s were stored from position nwrite on.
Stored(s, k) ==
    [j \in Index |-> LET i == (j - nwrite) % PIPESIZE
                     IN  IF i < k THEN s[i + 1] ELSE data[j]]

\* Copy what fits.
CopyIn(w, k) ==
    /\ data' = Stored(todo[w], k)
    /\ nwrite' = (nwrite + k) % Width
    /\ todo' = [todo EXCEPT ![w] = SubSeq(@, k + 1, Len(@))]

\* Everything fits: wake the readers and return n.
WriteReturns(w) ==
    /\ pc[w] = "call"
    /\ Len(todo[w]) <= Space
    /\ CopyIn(w, Len(todo[w]))
    /\ pc' = Woken([pc EXCEPT ![w] = "idle"])
    /\ UNCHANGED <<nread, ends, want, delivered, total>>

\* The buffer fills up with bytes left to write: wake the readers and sleep.
WriteWaits(w) ==
    /\ pc[w] = "call"
    /\ Len(todo[w]) > Space /\ readopen
    /\ CopyIn(w, Space)
    /\ pc' = [Woken(pc) EXCEPT ![w] = "presleep"]
    /\ UNCHANGED <<nread, ends, want, delivered, total>>

\* The buffer fills up and no reader is left: return -1.
WriteFails(w) ==
    /\ pc[w] = "call"
    /\ Len(todo[w]) > Space /\ ~ readopen
    /\ data' = Stored(todo[w], Space)
    /\ nwrite' = (nwrite + Space) % Width
    /\ todo' = [todo EXCEPT ![w] = <<>>]
    /\ pc' = [pc EXCEPT ![w] = "idle"]
    /\ UNCHANGED <<nread, ends, want, delivered, total>>

-----------------------------------------------------------------------------
(***************************************************************************)
(* pipe_read                                                               *)
(***************************************************************************)

ReadCall(r, n) ==
    /\ pc[r] = "idle"
    /\ pc' = [pc EXCEPT ![r] = "call"]
    /\ want' = [want EXCEPT ![r] = n]
    /\ UNCHANGED <<data, nread, nwrite, ends, todo, delivered, total>>

\* The test of pipe_read's waiting loop.
MustWait == nread = nwrite /\ writeopen

ReadWaits(r) ==
    /\ pc[r] = "call"
    /\ MustWait
    /\ pc' = [pc EXCEPT ![r] = "presleep"]
    /\ UNCHANGED <<data, nread, nwrite, ends, calls, delivered>>

\* Bytes the copying loop yields: it runs while nread < nwrite.
Readable(n) == IF nread < nwrite THEN Smaller(n, nwrite - nread) ELSE 0

\* Copy what is there, wake the writers, return the number of bytes.
ReadReturns(r) ==
    /\ pc[r] = "call"
    /\ ~ MustWait
    /\ LET k == Readable(want[r])
       IN  /\ delivered' = [i \in 1 .. k |-> data[(nread + i - 1) % PIPESIZE]]
           /\ nread' = (nread + k) % Width
    /\ pc' = Woken([pc EXCEPT ![r] = "idle"])
    /\ UNCHANGED <<data, nwrite, ends, calls>>

-----------------------------------------------------------------------------
(***************************************************************************)
(* pipe_close, called when the last descriptor of an end is closed: nobody *)
(* is inside a call on that end.                                           *)
(***************************************************************************)

EndIdle(S) == \A p \in S : pc[p] = "idle"

CloseEnd(S) == Woken([p \in Procs |-> IF p \in S THEN "closed" ELSE pc[p]])

CloseWrite ==
    /\ writeopen /\ EndIdle(Writers)
    /\ writeopen' = FALSE
    /\ pc' = CloseEnd(Writers)
    /\ UNCHANGED <<data, nread, nwrite, readopen, calls, delivered>>

CloseRead ==
    /\ readopen /\ EndIdle(Readers)
    /\ readopen' = FALSE
    /\ pc' = CloseEnd(Readers)
    /\ UNCHANGED <<data, nread, nwrite, writeopen, calls, delivered>>

-----------------------------------------------------------------------------
WriteStep(w) == WriteReturns(w) \/ WriteWaits(w) \/ WriteFails(w) \/ FallAsleep(w)
ReadStep(r)  == ReadReturns(r) \/ ReadWaits(r) \/ FallAsleep(r)

Next ==
    \/ \E w \in Writers : WriteStep(w) \/ \E s \in Calls(Byte) : WriteCall(w, s)
    \/ \E r \in Readers : ReadStep(r) \/ \E n \in 1 .. MaxCall : ReadCall(r, n)
    \/ CloseWrite \/ CloseRead
    \/ OtherWakeup

Spec == Init /\ [][Next]_vars

\* A process inside a call is scheduled until it sleeps or returns.
FairSpec ==
    /\ Spec
    /\ \A w \in Writers : WF_vars(WriteStep(w))
    /\ \A r \in Readers : WF_vars(ReadStep(r))

-----------------------------------------------------------------------------
(***************************************************************************)
(* Properties                                                              *)
(***************************************************************************)

\* The bytes between the two counters, in order.
Contents == [i \in 1 .. InBuffer |-> data[(nread + i - 1) % PIPESIZE]]

\* The pipe is a queue: no byte is lost, repeated or reordered, whatever the
\* number of readers and writers and wherever a long write is interrupted, and
\* a read returns nothing only at end of file (pipe_write, pipe_read,
\* pipe_close; the circular index and the counters).
Queue == INSTANCE Channel WITH queue <- Contents, Capacity <- PIPESIZE

IsQueue == Queue!Spec

-----------------------------------------------------------------------------
(***************************************************************************)
(* What the code says of itself and does not do                            *)
(***************************************************************************)

\* pipe.c:7, "Si le buffer est plein, pipe_write() dort. Si vide, pipe_read()
\* dort": nobody sleeps on in a pipe that has data and room for its call.
SleepOnlyWhenNeeded ==
    \A r \in Readers :
        pc[r] = "asleep" /\ nread # nwrite ~> pc[r] # "asleep" \/ nread = nwrite

\* pipe.c:71, "Reveiller les lecteurs bloques": once the write end is closed,
\* a read under way ends, wherever in pipe_read and sleep() the reader is.
ReadsEndAfterClose ==
    \A r \in Readers :
        ~ writeopen /\ pc[r] \in {"call", "presleep", "asleep"}
            ~> pc[r] \in {"idle", "closed"}
=============================================================================
