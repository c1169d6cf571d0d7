------------------------------- MODULE Format -------------------------------
(***************************************************************************)
(* Numbers and words as text: vdprintf and vdscanf (libc/src/stdio), itoa, *)
(* and kvprintf (kernel/src/kutils.c), which formats like vdprintf.  One   *)
(* process prints to a file or a pipe, another scans what was printed.     *)
(*                                                                         *)
(* An int has WIDTH bits.  Characters are strings of length one, a format  *)
(* is a sequence of them.                                                  *)
(***************************************************************************)
EXTENDS Integers, Sequences, FiniteSets

CONSTANTS
    WIDTH,      \* bits of an int
    LIMIT,      \* INT_MAX as the number of characters printed
    ROOM,       \* bytes the file takes before a write fails
    Lines,      \* a sequence of what is printed and how it is read: [out, args, in, want]
    PRINTS      \* bound on the number of calls of printf

VARIABLES
    file,       \* what was written
    offset,     \* how much of it has been read
    sent,       \* history: the calls of printf that succeeded
    ret,        \* what the last printf returned, and the length of what it wrote
    got         \* what the calls of scanf have assigned

vars == <<file, offset, sent, ret, got>>

Digits == <<"0", "1", "2", "3", "4", "5", "6", "7", "8", "9", "a", "b", "c", "d", "e", "f">>
Value(c) == IF \E i \in 1..16 : Digits[i] = c THEN (CHOOSE i \in 1..16 : Digits[i] = c) - 1 ELSE 16
Spaces == {" ", "nl"}
EOF == "eof"

Unsigned(n) == n % 2^WIDTH
Signed(n) == IF Unsigned(n) < 2^(WIDTH - 1) THEN Unsigned(n) ELSE Unsigned(n) - 2^WIDTH

Least(S) == CHOOSE x \in S : \A y \in S : x <= y

-----------------------------------------------------------------------------
(* The digits of an unsigned number, the first one first. *)
RECURSIVE DigitsOf(_, _)
DigitsOf(n, radix) ==
    IF n = 0 THEN << >> ELSE Append(DigitsOf(n \div radix, radix), Digits[(n % radix) + 1])

itoa(num, radix) ==
    IF num = 0 THEN <<"0">>
    ELSE IF radix = 10 /\ num < 0 THEN <<"-">> \o DigitsOf(Unsigned(-num), 10)
    ELSE DigitsOf(Unsigned(num), radix)

RECURSIVE Divisions(_, _)
Divisions(n, radix) == IF n > 0 THEN 1 + Divisions(n \div radix, radix) ELSE 0

intlen_unsigned(num, radix) ==     \* mutant: no room for the sign
    IF num = 0 THEN 1
    ELSE IF radix = 10 /\ num < 0 THEN Divisions(Unsigned(-num), 10)
    ELSE Divisions(Unsigned(num), radix)

(* The room that is made for the digits, and how many of them are printed. *)
intlen(num, radix) ==
    IF num = 0 THEN 1
    ELSE IF radix = 10 /\ num < 0 THEN 1 + Divisions(Unsigned(-num), 10)
    ELSE Divisions(Unsigned(num), radix)

Radix(conversion) == CASE conversion = "b" -> 2 [] conversion = "d" -> 10 [] conversion = "x" -> 16

-----------------------------------------------------------------------------
(* The piece of the output that the format asks for at position i, with     *)
(* where the format goes on, and whether the first argument is used up.     *)
Piece(fmt, i, args) ==
    LET from == IF fmt[i] = "%" THEN i + 1 ELSE i
        end  == Least({j \in from + 1..Len(fmt) + 1 : j > Len(fmt) \/ fmt[j] = "%"})
        conv == fmt[i + 1]
        Used(text) == [text |-> text, next |-> i + 2, used |-> TRUE]
    IN IF fmt[i] # "%" \/ (i < Len(fmt) /\ fmt[i + 1] = "%")
       THEN [text |-> SubSeq(fmt, from, end - 1), next |-> end, used |-> FALSE]
       ELSE CASE i < Len(fmt) /\ conv = "c" -> Used(<<args[1]>>)
              [] i < Len(fmt) /\ conv = "s" -> Used(IF args[1] = << >> THEN <<"(null)">> ELSE args[1])
              [] i < Len(fmt) /\ conv \in {"b", "d", "x"} ->
                    Used(SubSeq(itoa(args[1], Radix(conv)), 1, intlen(args[1], Radix(conv))))
              [] OTHER -> [text |-> SubSeq(fmt, i, Len(fmt)), next |-> Len(fmt) + 1, used |-> FALSE]

(* vdprintf from position i on: each piece is one write, which may find no *)
(* room for all of it.                                                     *)
RECURSIVE PrintFrom(_, _, _, _, _)
PrintFrom(fmt, i, args, text, room) ==
    LET p == Piece(fmt, i, args)
    IN IF i > Len(fmt) THEN [ret |-> Len(text), text |-> text]
       ELSE IF LIMIT - Len(text) < Len(p.text) THEN [ret |-> -1, text |-> text]
       ELSE IF room < Len(text) + Len(p.text)
            THEN [ret |-> -1, text |-> text \o SubSeq(p.text, 1, room - Len(text))]
       ELSE PrintFrom(fmt, p.next, IF p.used THEN Tail(args) ELSE args, text \o p.text, room)

Printf(l) ==
    LET r == PrintFrom(l.out, 1, l.args, << >>, ROOM - Len(file))
    IN /\ Len(sent) < PRINTS
       /\ ret.value # -1                            \* the writer gives up after an error
       /\ file' = file \o r.text
       /\ ret' = [value |-> r.ret, length |-> Len(r.text)]
       /\ sent' = IF r.ret = -1 THEN sent ELSE Append(sent, l)
       /\ UNCHANGED <<offset, got>>

-----------------------------------------------------------------------------
(* The scanner: at is the character that stream_getc gives next, and read   *)
(* how many have been taken from the file, one more than at - 1 when a      *)
(* character was given back.                                                *)
CharAt(i) == IF i <= Len(file) THEN file[i] ELSE EOF
Upto(i) == IF i <= Len(file) THEN i ELSE Len(file)

(* The first character from i on that is not of a kind. *)
Beyond(i, kind) == Least({j \in i..Len(file) + 1 : j > Len(file) \/ file[j] \notin kind})

(* The scanner after a run of characters: the one behind it is given back. *)
GivenBack(st, j) == [st EXCEPT !.at = j, !.read = IF Upto(j) > @ THEN Upto(j) ELSE @]

Number(i, j, radix) ==
    LET RECURSIVE Of(_)
        Of(k) == IF k < i THEN 0 ELSE (radix * Of(k - 1)) + Value(file[k])
    IN Unsigned(Of(j - 1))

Assign(st, v) == [st EXCEPT !.assigned = Append(@, v), !.i = @ + 2]
Stop(st) == [st EXCEPT !.stop = TRUE]

ScanDecimal(st) ==
    LET sign == CharAt(st.at) \in {"-", "+"}
        from == IF sign THEN st.at + 1 ELSE st.at
        to   == Beyond(from, {Digits[k] : k \in 1..10})
        num  == Number(from, to, 10)
        back == GivenBack(st, to)
    IN IF CharAt(st.at) = EOF \/ to = from THEN Stop(back)
       ELSE Assign(back, Signed(IF CharAt(st.at) = "-" THEN -num ELSE num))

ScanHex(st) ==
    LET prefix == CharAt(st.at) = "0" /\ CharAt(st.at + 1) \in {"x", "X"}
        from   == IF prefix THEN st.at + 2 ELSE st.at
        to     == Beyond(from, {Digits[k] : k \in 1..16})
        back   == GivenBack(st, to)
    IN IF CharAt(st.at) = EOF \/ to = from THEN Stop(back)
       ELSE Assign(back, Signed(Number(from, to, 16)))

ScanString(st) ==
    LET to == Least({j \in st.at..Len(file) + 1 : j > Len(file) \/ file[j] \in Spaces})
    IN IF to = st.at THEN Stop(st) ELSE Assign(GivenBack(st, to), SubSeq(file, st.at, to - 1))

ScanChar(st) ==
    IF CharAt(st.at) = EOF THEN Stop(st)
    ELSE Assign([st EXCEPT !.at = @ + 1, !.read = IF st.at > @ THEN st.at ELSE @], CharAt(st.at))

(* A character of the format that must be there, a '%' included. *)
Literal(st, c, len) ==
    IF CharAt(st.at) = c
    THEN [st EXCEPT !.at = @ + 1, !.read = IF st.at > @ THEN st.at ELSE @, !.i = @ + len]
    ELSE Stop(GivenBack(st, st.at))

SkipSpaces(st) == GivenBack(st, Beyond(st.at, Spaces))

(* vdscanf: one turn of its loop. *)
Turn(st, fmt) ==
    LET f == fmt[st.i]
        conv == IF st.i < Len(fmt) THEN fmt[st.i + 1] ELSE "nul"
    IN CASE f \in Spaces                -> [SkipSpaces(st) EXCEPT !.i = @ + 1]
         [] f # "%" /\ f \notin Spaces  -> Literal(st, f, 1)
         [] f = "%" /\ conv = "%"       -> Literal(st, "%", 2)
         [] f = "%" /\ conv = "c"       -> ScanChar(st)
         [] f = "%" /\ conv = "s"       -> ScanString(SkipSpaces(st))
         [] f = "%" /\ conv = "d"       -> ScanDecimal(SkipSpaces(st))
         [] f = "%" /\ conv = "x"       -> ScanHex(SkipSpaces(st))
         [] OTHER                       -> Stop(st)

RECURSIVE ScanFrom(_, _)
ScanFrom(st, fmt) ==
    IF st.stop \/ st.i > Len(fmt) THEN st ELSE ScanFrom(Turn(st, fmt), fmt)

(* The reader scans what was printed, call by call.  The character that is  *)
(* given back belongs to the call and is gone when it returns.              *)
Scanf ==
    /\ Len(got) < Len(sent)
    /\ LET l  == sent[Len(got) + 1]
           st == ScanFrom([at |-> offset + 1, read |-> offset, i |-> 1, assigned |-> << >>,
                           stop |-> FALSE], l.in)
       IN /\ offset' = st.read
          /\ got' = Append(got, st.assigned)
    /\ UNCHANGED <<file, sent, ret>>

-----------------------------------------------------------------------------
Init ==
    /\ file = << >> /\ offset = 0
    /\ sent = << >> /\ got = << >>
    /\ ret = [value |-> 0, length |-> 0]

Next == (\E k \in DOMAIN Lines : Printf(Lines[k])) \/ Scanf

-----------------------------------------------------------------------------
(* What printf has printed in one call scanf reads back in one, the numbers *)
(* at both ends of an int included, in whatever order the two take turns:   *)
(* the string that a number is put together in has exactly the room it      *)
(* needs, and the character a call of scanf loses is a separator.  And      *)
(* printf returns the number of characters written unless it has failed.    *)
ScannedAsPrinted ==
    /\ \A k \in 1..Len(got) : got[k] = sent[k].want
    /\ ret.value \in {-1, ret.length}
=============================================================================
