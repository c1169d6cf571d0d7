----------------------------- MODULE MCConsole -----------------------------
(***************************************************************************)
(* Console for TLC: keys of each kind and their codes, screens of three    *)
(* rows of two, lines of up to five characters, ints of four bits.         *)
(***************************************************************************)
EXTENDS Console
AllKeys == {"a", "one", "shift", "caps", "right", "print", "pause"}
Strays == {0, 64}
Tag == <<"b">>
Close == <<"a">>
Block == [i \in 0..7 |-> CASE i = 0 -> "1" [] i = 1 -> "=" [] i = 2 -> "p" [] OTHER -> "nul"]
Ints == <<-8, -1, 0, 7, 5>>
Call(fmt, args, in, want) == [out |-> fmt, args |-> args, in |-> in, want |-> want]
PrintedLines ==
    [i \in 1..5 |-> Call(<<"%", "d", " ">>, <<Ints[i]>>, <<"%", "d">>, <<Ints[i]>>)]
    \o [i \in 1..5 |-> Call(<<"%", "x", "nl">>, <<Ints[i]>>, <<"%", "x">>, <<Ints[i]>>)]
    \o [i \in 1..2 |-> LET n == <<-8, 0>>[i] IN
            Call(<<"a", "%", "%", "%", "d", "%", "c">>, <<n, " ">>,
                  <<"a", "%", "%", "%", "d", "%", "c">>, <<n, " ">>)]
    \o [i \in 1..2 |-> LET n == <<2, 7>>[i]
                           binary == << <<"1", "0">>, <<"1", "1", "1">> >>[i] IN
            Call(<<"%", "s", " ", "%", "b", " ">>, <<<<"z", "9">>, n>>,
                  <<"%", "s", " ", "%", "s">>, <<<<"z", "9">>, binary>>)]
    \o <<Call(<<"%", "s", " ">>, << << >> >>, <<"%", "s">>, << <<"(null)">> >>),
         Call(<<"%", "q">>, << >>, <<"%", "%", "q">>, << >>),
         Call(<<"%", "c">>, <<"c">>, <<"%", "c">>, <<"c">>)>>
=====
