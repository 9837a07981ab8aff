-------------------------------- MODULE Printf --------------------------------
(***************************************************************************)
(* printf of src/kernel/stdio.cpp and itos of src/utils/stdlib.cpp, called *)
(* by the only writer of a console, and the other calls it may make.  A    *)
(* format is a sequence of directives, each with its argument.             *)
(***************************************************************************)
EXTENDS Console, SequencesExt

CONSTANTS
  Writer,
  BufferLength,    \* BUF_LEN, 32 in the code
  IntWidth,        \* the bits of an int, 32
  Picture,         \* what the text memory holds at first
  Formats, Strings, Points, Glyphs,   \* bounds: the arguments of the calls
  MaxCalls         \* bound: the calls of a behaviour

\* r to the power of n.
Power(r, n) == LET power[k \in Nat] == IF k = 0 THEN 1 ELSE r * power[k - 1] IN power[n]

NUL == 0
Unset == 256   \* in memory that was never written: no character
Characters == 1 .. 255
Ints == -Power(2, IntWidth - 1) .. Power(2, IntWidth - 1) - 1

\* "end" is a % behind which the format ends, "other" an unknown letter.
Directives ==
  [kind : {"literal", "c"}, arg : [1 .. 1 -> Characters]]
    \cup [kind : {"s"}, arg : Seq(Characters)]
    \cup [kind : {"d", "x"}, arg : [1 .. 1 -> Ints]]
    \cup [kind : {"%", "other", "end"}, arg : {<<>>}]

ASSUME PrintfAssumption ==
  /\ Writers = {Writer}
  /\ BufferLength \in Nat \ {0} /\ IntWidth \in Nat \ {0} /\ MaxCalls \in Nat
  /\ Picture \in [Cells -> Nat] /\ Blank \in Nat
  /\ Formats \subseteq Seq(Directives) /\ Strings \subseteq Seq(Characters)
  /\ Points \subseteq Nat \X Nat /\ Glyphs \subseteq Nat

VARIABLES
  at,        \* "idle", in the "loop" of printf or at a "string" argument, or
             \* "last": what is printed or moved now ends the call
  call,      \* history: the text this call or the last one stands for
  fmt,       \* what is left of the format,
  number,    \* and of the digits of the directive in hand
  argument,  \* the string of a %s, until the buffer is flushed
  buffer, idx,
  counter,   \* what the call returns
  calls,     \* bound: calls made
  before     \* history: screen and cursor before the character in progress
printfVars == <<at, call, fmt, number, argument, buffer, idx, counter, calls>>
vars == <<consoleVars, printfVars, before>>

-----------------------------------------------------------------------------
\* itos: the digits, lowest first, then reversed.

DigitChar(d) == IF d > 9 THEN d - 10 + 65 ELSE d + 48

Digits(num, mod) ==
  LET digits[n \in Nat] ==
        IF n = 0 THEN <<>> ELSE <<DigitChar(n % mod)>> \o digits[n \div mod]
  IN digits[num]

Itos(num, mod) == IF num = 0 THEN <<48>> ELSE Reverse(Digits(num, mod))

Unsigned(n) == n % Power(2, IntWidth)
Radix(kind) == IF kind = "d" THEN 10 ELSE 16

\* A negative int is negated for %d only, which leaves the smallest one as it
\* is; itos takes it as unsigned.
Magnitude(kind, n) == Unsigned(IF n < 0 /\ kind = "d" THEN -n ELSE n)

\* What the number should look like: the digit of weight radix^k is the k-th
\* from the right, and the first one is not 0.
Numeral(kind, n) ==
  LET r == Radix(kind)
      m == IF kind = "d" /\ n < 0 THEN -n ELSE n % Power(2, IntWidth)
      places == CHOOSE p \in 1 .. IntWidth :
                  m < Power(r, p) /\ \A q \in 1 .. IntWidth : m < Power(r, q) => p <= q
  IN (IF kind = "d" /\ n < 0 THEN <<45>> ELSE <<>>)
       \o [k \in 1 .. places |-> DigitChar((m \div Power(r, places - k)) % r)]

\* The text a format stands for.
Shown(d) ==
  CASE d.kind \in {"literal", "c", "s"} -> d.arg
    [] d.kind = "%" -> <<37>>
    [] d.kind \in {"d", "x"} -> Numeral(d.kind, d.arg[1])
    [] OTHER -> <<>>

Expand(f) == FlattenSeq([k \in DOMAIN f |-> Shown(f[k])])

-----------------------------------------------------------------------------
\* The characters of a string in memory.
CString(b) ==
  LET end == CHOOSE k \in DOMAIN b : b[k] = NUL /\ \A j \in 0 .. k - 1 : b[j] # NUL
  IN [k \in 1 .. end |-> b[k - 1]]

\* The buffer's first n characters are printed.
Flush(b, n) ==
  /\ buffer' = [b EXCEPT ![n] = NUL]
  /\ PrintString(Writer, CString(buffer'))

\* Mutant: the buffer is found full one character late.
AddToBufferLate(c) ==
  LET b == [buffer EXCEPT ![idx] = c]
  IN IF idx = BufferLength
     THEN Flush(b, idx) /\ idx' = 0
     ELSE buffer' = b /\ idx' = idx + 1 /\ UNCHANGED consoleVars

AddToBuffer(c) ==
  LET b == [buffer EXCEPT ![idx] = c]
  IN IF idx + 1 = BufferLength
     THEN Flush(b, idx + 1) /\ idx' = 0
     ELSE buffer' = b /\ idx' = idx + 1 /\ UNCHANGED consoleVars

InLoop == at = "loop" /\ pc[Writer] = "idle"

Directive(kinds) ==
  /\ InLoop /\ number = <<>>
  /\ fmt # <<>> /\ Head(fmt).kind \in kinds
  /\ fmt' = Tail(fmt)

\* Where the screen and the cursor are whole.
Remember ==
  before' = IF Settled THEN [screen |-> screen, cursor |-> Cursor] ELSE before

Begin(shown) ==
  /\ at = "idle" /\ calls < MaxCalls
  /\ calls' = calls + 1 /\ call' = shown /\ counter' = 0
  /\ Remember

CallPrintf(f) ==
  /\ Begin(Expand(f))
  /\ at' = "loop" /\ fmt' = f /\ idx' = 0
  /\ UNCHANGED <<consoleVars, number, argument, buffer>>

\* Ordinary characters, %% and %c.
Character ==
  /\ Directive({"literal", "%", "c"})
  /\ AddToBuffer(IF Head(fmt).kind = "%" THEN 37 ELSE Head(fmt).arg[1])
  /\ UNCHANGED <<at, call, number, argument, counter, calls, before>>

String ==
  /\ Directive({"s"})
  /\ Flush(buffer, idx) /\ idx' = 0
  /\ argument' = Head(fmt).arg /\ at' = "string"
  /\ UNCHANGED <<call, number, counter, calls, before>>

StringArgument ==
  /\ at = "string" /\ PrintString(Writer, argument)
  /\ argument' = <<>> /\ at' = "loop"
  /\ UNCHANGED <<call, fmt, number, buffer, idx, counter, calls, before>>

Number ==
  /\ Directive({"d", "x"})
  /\ LET d == Head(fmt)
         n == d.arg[1]
     IN /\ number' = Itos(Magnitude(d.kind, n), Radix(d.kind))
        /\ IF n < 0 /\ d.kind = "d" THEN AddToBuffer(45)
           ELSE UNCHANGED <<consoleVars, buffer, idx>>
  /\ UNCHANGED <<at, call, argument, counter, calls, before>>

NumberDigit ==
  /\ InLoop /\ number # <<>>
  /\ AddToBuffer(Head(number)) /\ number' = Tail(number)
  /\ UNCHANGED <<at, call, fmt, argument, counter, calls, before>>

\* A letter that is no directive is skipped, and so is a % at the end.
Unknown ==
  /\ Directive({"other", "end"})
  /\ UNCHANGED <<consoleVars, at, call, number, argument, buffer, idx, counter, calls, before>>

LastFlush ==
  /\ InLoop /\ number = <<>> /\ fmt = <<>>
  /\ Flush(buffer, idx) /\ at' = "last"
  /\ UNCHANGED <<call, fmt, number, argument, idx, counter, calls, before>>

\* print(str) returns the characters it printed.
Printed ==
  /\ PrintReturns(Writer) /\ counter' = counter + count[Writer]
  /\ UNCHANGED <<at, call, fmt, number, argument, buffer, idx, calls, before>>

Return ==
  /\ at = "last" /\ pc[Writer] = "idle" /\ at' = "idle"
  /\ UNCHANGED <<consoleVars, call, fmt, number, argument, buffer, idx, counter, calls, before>>

\* print(str) itself, also by the system call write.
CallPrint(s) ==
  /\ Begin(s) /\ PrintString(Writer, s) /\ at' = "last"
  /\ UNCHANGED <<fmt, number, argument, buffer, idx>>

CallMoveCursor(p) ==
  /\ Begin(<<>>) /\ MoveTo(Writer, p[1], p[2]) /\ at' = "last"
  /\ UNCHANGED <<fmt, number, argument, buffer, idx>>

CallPrintAt(p, c) ==
  /\ Begin(<<>>) /\ PrintAt(Writer, p[1], p[2], c)
  /\ UNCHANGED <<at, fmt, number, argument, buffer, idx>>

ConsoleStep == Step(Writer) /\ Remember /\ UNCHANGED printfVars

Init ==
  /\ ConsoleInit /\ screen = Picture
  /\ \E n \in 0 .. Size - 1 : register = [high |-> n \div Base, low |-> n % Base]
  /\ at = "idle" /\ call = <<>> /\ fmt = <<>> /\ number = <<>> /\ argument = <<>>
  /\ buffer = [k \in 0 .. BufferLength |-> Unset] /\ idx = 0
  /\ counter = 0 /\ calls = 0
  /\ before = [screen |-> screen, cursor |-> Cursor]

Progress ==
  \/ Character \/ String \/ StringArgument \/ Number \/ NumberDigit \/ Unknown
  \/ LastFlush \/ Printed \/ Return \/ ConsoleStep

Call ==
  \/ \E f \in Formats : CallPrintf(f)
  \/ \E s \in Strings : CallPrint(s)
  \/ \E p \in Points : CallMoveCursor(p) \/ \E c \in Glyphs : CallPrintAt(p, c)

\* All calls that the bound admits have returned.
Done == at = "idle" /\ calls = MaxCalls /\ UNCHANGED vars

Next == Progress \/ Call \/ Done

\* A thread that prints gets the processor again and again.
Spec == Init /\ [][Next]_vars /\ WF_vars(Progress)

-----------------------------------------------------------------------------
\* The buffer is never filled beyond its 32 characters, what is printed of it
\* was put there and ends at its NUL (stdio.cpp:169-186, 239, 269), and a call
\* returns the number of characters it was to show.
PrintfTypeOK ==
  /\ screen \in [Cells -> Nat] /\ index \in Halves
  /\ register \in [Halves -> 0 .. Base - 1]
  /\ pc \in [Writers -> Steps] /\ text \in [Writers -> Seq(Characters)]
  /\ position \in [Writers -> 0 .. Size] /\ cell \in [Writers -> 0 .. Size]
  /\ idx \in 0 .. BufferLength - 1 /\ buffer \in [0 .. BufferLength -> Nat]
  /\ call \in Seq(Characters) /\ counter \in Nat /\ (at = "idle" => counter = Len(call))

\* The text that was asked for and is not on the screen yet.
Todo ==
  IF at \in {"loop", "string"}
  THEN text[Writer] \o argument \o [k \in 1 .. idx |-> buffer[k - 1]] \o number
         \o Expand(fmt)
  ELSE text[Writer]

AllTexts == {Expand(f) : f \in Formats} \cup Strings

T == INSTANCE Teletype WITH
       shown <- IF Settled THEN screen ELSE before.screen,
       cursor <- IF Settled THEN Cursor ELSE before.cursor,
       todo <- Todo,
       Texts <- AllTexts

\* Whatever the port accesses, the copying of rows and the flushes of the
\* buffer look like in between, the one writer of a console sees its text
\* appear in order, scrolled where it must be, numbers and all, and in the end
\* all of it; nothing else on the screen changes (stdio.cpp:21-273,
\* stdlib.cpp:11-40).
ImplementsTeletype == T!Spec
=============================================================================
