------------------------------- MODULE Format -------------------------------
(***************************************************************************)
(* Numbers and formats as the three printers of Lithium write them: printf *)
(* of kernel/io/console.c, vprintk of kernel/io/printk.c, u_printf of      *)
(* user/ulibc/ulibc.c; and u_atoi, which reads a number back.              *)
(*                                                                         *)
(* A text is a sequence of characters.  A format is a sequence of          *)
(* directives: a character of its own, or a conversion with what stands    *)
(* between % and its letter.  Arguments are registers: numbers modulo      *)
(* 2^LongBits, or texts.  Every % is followed by its conversion.           *)
(***************************************************************************)
EXTENDS Integers, Sequences, SequencesExt

CONSTANTS
    IntBits,        \* bits of an int
    LongBits        \* bits of a register

ASSUME BitsAssumption ==
    IntBits \in Nat \ {0, 1} /\ LongBits \in Nat /\ LongBits >= IntBits

IntW  == 2^IntBits
LongW == 2^LongBits

Signed(n, w) == IF n % w < w \div 2 THEN n % w ELSE (n % w) - w

ToInt(n)    == Signed(n, IntW)
ToUint(n)   == n % IntW
ToInt64(n)  == Signed(n, LongW)
ToUint64(n) == n % LongW
IntMin      == -(2^(IntBits - 1))

\* A 32-bit argument, signed or not, as it is passed: sign-extended.
Register(n) == ToUint64(ToInt(n))

\* C's division by a positive number, towards zero.
Quot(n, d) == IF n >= 0 THEN n \div d ELSE -((-n) \div d)
Rem(n, d)  == n - d * Quot(n, d)

Chars == <<"0", "1", "2", "3", "4", "5", "6", "7", "8", "9", "a", "b", "c", "d", "e", "f">>

\* '0' + d; for a negative d something that is no digit.
NoDigit  == "("
Digit(d) == IF d < 0 THEN NoDigit ELSE Chars[d + 1]

\* The remainders the conversion loops collect, the lowest first, in a loop
\* that makes its first turn whatever n is.
LowFirst[b \in {10, 16}, n \in Int] ==
    <<Rem(n, b)>> \o (IF Quot(n, b) > 0 THEN LowFirst[b, Quot(n, b)] ELSE <<>>)

\* What the loops write back to front.
Written(ds) == [i \in 1 .. Len(ds) |-> Digit(ds[Len(ds) + 1 - i])]

Repeat(c, n) == [i \in 1 .. n |-> c]
Sign(n)      == IF n < 0 THEN <<"-">> ELSE <<>>

\* n = -n for a negative int: IntMin stays.
Negated(n) == IF n < 0 THEN ToInt(-n) ELSE n

-----------------------------------------------------------------------------
(***************************************************************************)
(* console.c                                                               *)
(***************************************************************************)

PrintIntWhile(n) ==
    Sign(n) \o (IF n = 0 THEN <<>> ELSE Written(LowFirst[10, Negated(n)]))

\* A do loop, so that zero has its digit.
PrintInt(n) == Sign(n) \o Written(LowFirst[10, Negated(n)])

PrintUint64(n) == IF n = 0 THEN <<"0">> ELSE Written(LowFirst[10, n])

\* -n as a uint64 is right for every n.
PrintInt64(n) == Sign(n) \o PrintUint64(IF n < 0 THEN ToUint64(-n) ELSE n)

PrintHex(n) == <<"0", "x">> \o Written(LowFirst[16, n])

\* One directive of printf, with its argument.
PrintfOne(d, arg) ==
    CASE d.op = "char"           -> <<d.c>>
      [] d.op = "s"              -> arg
      [] d.op = "d"              -> PrintInt(ToInt(arg))
      [] d.op \in {"u", "lu", "zu"} -> PrintUint64(arg)
      [] d.op \in {"x", "lx", "p"}  -> PrintHex(arg)
      [] d.op = "ld"             -> PrintInt64(ToInt64(arg))

-----------------------------------------------------------------------------
(***************************************************************************)
(* printk.c                                                                *)
(***************************************************************************)

\* The width pads nothing but a zero.
Padded(width, pad) == Repeat(pad, width - 1) \o <<"0">>

\* printk_write_int, of what vprintk has made positive, except for IntMin: that
\* gets a second sign.
PrintkWriteInt(n, base, width, pad) ==
    IF n = 0 THEN Padded(width, pad) ELSE Sign(n) \o Written(LowFirst[base, Negated(n)])

PrintkWriteUint(n, base, width, pad) ==
    IF n = 0 THEN Padded(width, pad) ELSE Written(LowFirst[base, n])

NULL       == <<"NULL">>
Shown(str) == IF str = NULL THEN <<"(null)">> ELSE str

\* One directive of vprintk: what it writes.
PrintkOne(d, arg) ==
    LET pad == IF d.zero THEN "0" ELSE " "
    IN  CASE d.op = "char"         -> <<d.c>>
          [] d.op = "s"            -> Shown(arg)
          [] d.op = "c"            -> <<arg>>
          [] d.op \in {"d", "i"}   ->
                Sign(ToInt(arg)) \o PrintkWriteInt(Negated(ToInt(arg)), 10, d.width, pad)
          [] d.op = "u"            -> PrintkWriteUint(ToUint(arg), 10, d.width, pad)
          [] d.op \in {"x", "X"}   -> PrintkWriteUint(ToUint(arg), 16, d.width, pad)
          [] d.op = "p"            -> <<"0", "x">> \o PrintkWriteUint(ToUint(arg), 16, 8, "0")

\* The count vprintk returns, after a directive: the width for the number, one
\* for a %u or %x without, and a lone zero starts it again.
PrintkCount(count, d, arg) ==
    LET v == ToInt(arg)
    IN  CASE d.op = "p"               -> count + 10
          [] d.op \in {"u", "x", "X"} -> count + Max({d.width, 1})
          [] d.op \in {"d", "i"}      ->
                IF d.width > 0 THEN count + Len(Sign(v)) + d.width
                ELSE IF v = 0 THEN 1
                ELSE count + Len(Sign(v)) + (IF v = IntMin THEN 0 ELSE Len(LowFirst[10, Negated(v)]))
          [] OTHER                    -> count + Len(PrintkOne(d, arg))

-----------------------------------------------------------------------------
(***************************************************************************)
(* ulibc.c and kpanic.c                                                    *)
(***************************************************************************)

\* u_itoa, whose loop makes no turn for IntMin.
UItoa(n) ==
    IF n = 0 THEN <<"0">>
    ELSE Sign(n) \o (IF Negated(n) > 0 THEN Written(LowFirst[10, Negated(n)]) ELSE <<>>)

\* The digits at the start of a text, and u_atoi's loop over them.
IsDecimal(c) == \E i \in 1 .. 10 : Chars[i] = c
DigitsOf(s)  == IF \A i \in 1 .. Len(s) : IsDecimal(s[i]) THEN s
                ELSE SubSeq(s, 1, SelectInSeq(s, LAMBDA c : ~ IsDecimal(c)) - 1)
ValueOf(c)   == (CHOOSE i \in 1 .. 16 : Chars[i] = c) - 1

UAtoi(s) ==
    LET neg  == s # <<>> /\ s[1] = "-"
        rest == IF neg THEN Tail(s) ELSE s
        n    == FoldLeft(LAMBDA acc, c : ToInt(acc * 10 + ValueOf(c)), 0, DigitsOf(rest))
    IN  IF neg THEN ToInt(-n) ELSE n

\* One directive of u_printf.
UPrintfOne(d, arg) ==
    CASE d.op = "char" -> <<d.c>>
      [] d.op = "d"    -> UItoa(ToInt(arg))
      [] d.op = "s"    -> Shown(arg)
      [] d.op = "c"    -> <<arg>>
      [] d.op = "x"    -> IF arg = 0 THEN <<"0">> ELSE Written(LowFirst[16, arg])

\* What a call of one of the printers writes: each conversion takes the next
\* argument.
ArgNo(fmt, i) == Cardinality({j \in 1 .. i : fmt[j].op # "char"})
Whole(One(_, _), fmt, args) ==
    FlattenSeq([i \in 1 .. Len(fmt) |->
                   One(fmt[i], IF fmt[i].op = "char" THEN 0 ELSE args[ArgNo(fmt, i)])])

Printf(fmt, args)  == Whole(PrintfOne, fmt, args)
Vprintk(fmt, args) == Whole(PrintkOne, fmt, args)
UPrintf(fmt, args) == Whole(UPrintfOne, fmt, args)

\* The line number panic writes: none when it is not positive.
PanicLine(n) == IF n > 0 THEN Written(LowFirst[10, n]) ELSE <<>>
=============================================================================
