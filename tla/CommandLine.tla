---------------------------- MODULE CommandLine ----------------------------
(***************************************************************************)
(* From the keys to the arguments of a program: keroshell                  *)
(* (shell/src/main.c), strtok, the blocks of strings that spawn hands to   *)
(* process_new (kernel/src/process/process.c), and what the program finds  *)
(* in argv and in its environment (coreutils/echo.c, getenv).              *)
(*                                                                         *)
(* The characters are few: "p" is the one file in /bin (echo), "e" stands  *)
(* for the word exit, "1" is an argument, a digit and the name of a        *)
(* variable.  spawn with attach returns when the program has exited; keys  *)
(* that are struck meanwhile wait in the pipe of the standard input.       *)
(***************************************************************************)
EXTENDS Integers, Sequences, FiniteSets

CONSTANTS
    BUFFER,      \* bytes of buffer: 4096 in the code
    ARGS_MAX,    \* ARGS_MAX_LEN
    MAX_LINE,    \* bound on the length of a line, below BUFFER - 1
    KEYS,        \* bound on the keys struck
    Environment  \* the block of strings the shell was started with

VARIABLES
    buffer, buffer_ptr,   \* of the shell
    exit_code,
    shell,                \* "prompt", "attached", "exited" or "fault"
    args_buffer,          \* of process.c
    argv, envp,           \* of the program that was spawned last
    terminal,             \* what is on the terminal's last line
    printed,              \* what the program has printed
    line,                 \* history: the line as the user has edited it
    reached,              \* history: the most characters buffer has held
    keys                  \* history: the number of keys struck

vars == <<buffer, buffer_ptr, exit_code, shell, args_buffer, argv, envp, terminal, printed,
          line, reached, keys>>

NUL == "nul"
Printable == {"p", "e", "1", "$", " "}
PROMPT == ">"

Least(S) == CHOOSE x \in S : \A y \in S : x <= y

(* The string that starts at position i of a block. *)
StringAt(block, i) ==
    LET end == Least({j \in DOMAIN block : j >= i /\ block[j] = NUL})
    IN [k \in 1..end - i |-> block[i + k - 1]]

-----------------------------------------------------------------------------
(* strtok(buf, " ") from position p: the block with the word's end marked,  *)
(* where the word starts (-1 for none), and where to go on.                 *)
Strtok(buf, p) ==
    LET start == Least({j \in DOMAIN buf : j >= p /\ buf[j] # " "})
        end   == Least({j \in DOMAIN buf : j >= start /\ buf[j] \in {" ", NUL}})
    IN IF buf[start] = NUL THEN [buf |-> buf, word |-> -1, next |-> start]
       ELSE [buf  |-> [buf EXCEPT ![end] = NUL],
             word |-> start,
             next |-> IF buf[end] = " " THEN end + 1 ELSE end]

(* while(strtok(NULL, " ")); *)
RECURSIVE SplitRest(_, _)
SplitRest(buf, p) ==
    LET t == Strtok(buf, p) IN IF t.word = -1 THEN buf ELSE SplitRest(t.buf, t.next)

(* atoi, of digits. *)
Digit(c) == CASE c = "1" -> 1 [] c = "e" -> 101 - 48 [] c = "p" -> 112 - 48 [] c = "$" -> 36 - 48
                 [] c = " " -> 32 - 48
RECURSIVE atoi(_)
atoi(s) == IF s = << >> THEN 0
           ELSE (10 * atoi(SubSeq(s, 1, Len(s) - 1))) + Digit(s[Len(s)])

-----------------------------------------------------------------------------
CopyDoubleNull_single(dest, src) ==     \* mutant: copies one string
    LET last == Least({i \in DOMAIN src : src[i] = NUL})
    IN [i \in DOMAIN dest |-> IF i <= last THEN src[i] ELSE dest[i]]

(* copy_double_null(dest, src, max_len) *)
CopyDoubleNull(dest, src) ==
    LET max == Cardinality(DOMAIN dest)
        pairs == {i \in 1..max - 1 : src[i] = NUL /\ src[i - 1] = NUL}
        last  == IF pairs = {} THEN max - 1 ELSE Least(pairs)
    IN [i \in DOMAIN dest |-> IF i <= last THEN src[i] ELSE dest[i]]

(* parse_null_separated_strings: the strings from position i on.  One that  *)
(* has no room for its NUL and for another behind it is left out.           *)
RECURSIVE ParseFrom(_, _)
ParseFrom(block, i) ==
    LET max  == Cardinality(DOMAIN block)
        nuls == {j \in DOMAIN block : j >= i /\ j < max - 1 /\ block[j] = NUL}
        end  == Least(nuls)
    IN IF nuls = {} THEN << >>
       ELSE <<StringAt(block, i)>> \o
            (IF block[end + 1] = NUL THEN << >> ELSE ParseFrom(block, end + 1))

ParseNullSeparatedStrings(block) == IF block[0] = NUL THEN << >> ELSE ParseFrom(block, 0)

-----------------------------------------------------------------------------
(* getenv(name): of the first string that is the name, '=' and a value. *)
getenv(name) ==
    LET n == Len(name)
        hits == {i \in 1..Len(envp) :
                    /\ Len(envp[i]) > n
                    /\ SubSeq(envp[i], 1, n) = name
                    /\ envp[i][n + 1] = "="}
    IN IF hits = {} THEN <<"(null)">>
       ELSE LET s == envp[Least(hits)] IN SubSeq(s, n + 2, Len(s))

(* echo: print_token of every argument. *)
PrintToken(s) == IF s[1] # "$" THEN s ELSE getenv(Tail(s))

EchoRuns ==
    /\ shell = "attached"
    /\ printed' = [i \in 1..Len(argv) - 1 |-> PrintToken(argv[i + 1])]
    /\ shell' = "prompt"
    /\ terminal' = <<PROMPT>>
    /\ line' = << >>
    /\ UNCHANGED <<buffer, buffer_ptr, exit_code, args_buffer, argv, envp, reached, keys>>

-----------------------------------------------------------------------------
Strike == keys < KEYS /\ keys' = keys + 1 /\ shell = "prompt"

Character(c) ==
    /\ Strike
    /\ Len(line) < MAX_LINE
    /\ buffer' = [buffer EXCEPT ![buffer_ptr] = c]
    /\ buffer_ptr' = buffer_ptr + 1
    /\ terminal' = Append(terminal, c)
    /\ line' = Append(line, c)
    /\ reached' = IF buffer_ptr' > reached THEN buffer_ptr' ELSE reached
    /\ UNCHANGED <<exit_code, shell, args_buffer, argv, envp, printed>>

(* '\b'; the terminal takes a character back. *)
Backspace ==
    /\ Strike
    /\ line' = IF line # << >> THEN SubSeq(line, 1, Len(line) - 1) ELSE line
    /\ IF buffer_ptr > 0
       THEN /\ buffer_ptr' = buffer_ptr - 1
            /\ terminal' = SubSeq(terminal, 1, Len(terminal) - 1)
       ELSE UNCHANGED <<buffer_ptr, terminal>>
    /\ UNCHANGED <<buffer, exit_code, shell, args_buffer, argv, envp, printed, reached>>

(* syscall_spawn(prog, true, buffer, environment_pointer[0], true, ..): the *)
(* arguments are the buffer from its start, as strtok has left it.          *)
Spawn(buf) ==
    /\ args_buffer' = CopyDoubleNull(args_buffer, buf)
    /\ argv' = ParseNullSeparatedStrings(args_buffer')
    /\ envp' = ParseNullSeparatedStrings(Environment)
    /\ shell' = "attached"

(* process_prompt, with the NUL behind the line, and the next prompt. *)
ProcessPrompt ==
    LET first == Strtok([buffer EXCEPT ![buffer_ptr] = NUL], 0)
        prog  == StringAt(first.buf, first.word)
        code  == Strtok(first.buf, first.next)
        split == SplitRest(first.buf, first.next)
    IN \/ /\ first.word = -1                    \* strcmp(NULL, "exit")
          /\ shell' = "fault"
          /\ buffer' = first.buf
          /\ UNCHANGED <<buffer_ptr, exit_code, args_buffer, argv, envp, terminal, line>>
       \/ /\ first.word # -1 /\ prog = <<"e">>
          /\ buffer' = code.buf
          /\ exit_code' = IF code.word = -1 THEN exit_code ELSE atoi(StringAt(code.buf, code.word))
          /\ shell' = "exited"
          /\ buffer_ptr' = 0
          /\ UNCHANGED <<args_buffer, argv, envp, terminal, line>>
       \/ /\ first.word # -1 /\ prog = <<"p">>
          /\ buffer' = split
          /\ Spawn(split)
          /\ buffer_ptr' = 0
          /\ UNCHANGED <<exit_code, terminal, line>>
       \/ /\ first.word # -1 /\ prog \notin {<<"e">>, <<"p">>}       \* open fails
          /\ buffer' = split
          /\ buffer_ptr' = 0
          /\ terminal' = <<PROMPT>>
          /\ line' = << >>
          /\ UNCHANGED <<exit_code, shell, args_buffer, argv, envp>>

Enter ==
    /\ Strike
    /\ IF buffer_ptr > 0 THEN ProcessPrompt
       ELSE /\ terminal' = <<PROMPT>>
            /\ UNCHANGED <<buffer, buffer_ptr, exit_code, shell, args_buffer, argv, envp, line>>
    /\ UNCHANGED <<printed, reached>>

-----------------------------------------------------------------------------
Init ==
    /\ buffer = [i \in 0..BUFFER - 1 |-> NUL] /\ buffer_ptr = 0
    /\ exit_code = 0
    /\ shell = "prompt"
    /\ args_buffer = [i \in 0..ARGS_MAX - 1 |-> IF i = 0 THEN "s" ELSE NUL]   \* keroshell's own
    /\ argv = << >> /\ envp = << >>
    /\ terminal = <<PROMPT>> /\ printed = << >>
    /\ line = << >> /\ reached = 0 /\ keys = 0

Next ==
    \/ \E c \in Printable : Character(c)
    \/ Backspace
    \/ Enter
    \/ EchoRuns

-----------------------------------------------------------------------------
(* The words of a line, each of which ends before a space or the end. *)
Starts(s) == {i \in 1..Len(s) : s[i] # " " /\ (i = 1 \/ s[i - 1] = " ")}
WordAt(s, i) ==
    LET end == Least({j \in i..Len(s) + 1 : j > Len(s) \/ s[j] = " "}) IN SubSeq(s, i, end - 1)
Nth(S, k) == CHOOSE x \in S : Cardinality({y \in S : y <= x}) = k
Words(s) == [k \in 1..Cardinality(Starts(s)) |-> WordAt(s, Nth(Starts(s), k))]

(* No space at the front and no two in a row. *)
Tidy(s) == \A i \in 1..Len(s) : s[i] = " " => i > 1 /\ s[i - 1] # " "

IsPrefixOf(s, t) == Len(s) <= Len(t) /\ SubSeq(t, 1, Len(s)) = s

(* The terminal shows the line that is in the buffer, which is the one the  *)
(* user has edited, however it was edited.                                  *)
LineShown ==
    shell = "prompt" =>
        /\ terminal = <<PROMPT>> \o line
        /\ line = [i \in 1..buffer_ptr |-> buffer[i - 1]]

(* A program is started with the words of the line, and exit gets its       *)
(* second.  Three things the code leaves open are visible here.  A line     *)
(* that does not fit ARGS_MAX_LEN loses its last words.  Behind a line      *)
(* shorter than one before it there is a single NUL, so that words of an    *)
(* older line may follow.  And strtok marks one space of several, so that   *)
(* a word then starts with a space.                                         *)
WordsArrive ==
    /\ shell = "exited" => exit_code = (IF Len(Words(line)) = 1 THEN 0 ELSE atoi(Words(line)[2]))
    /\ shell = "attached" /\ Tidy(line) =>
        CASE Len(line) >= ARGS_MAX - 1 -> IsPrefixOf(argv, Words(line))
          [] Len(line) = reached /\ Len(line) < ARGS_MAX - 1 -> argv = Words(line)
          [] OTHER -> IsPrefixOf(Words(line), argv)

(* echo prints its words, and in place of $NAME what the shell's            *)
(* environment says, which every program inherits.                          *)
EchoPrints ==
    [][shell = "attached" /\ shell' = "prompt" /\ argv = Words(line) =>
          printed' = [i \in 1..Len(argv) - 1 |->
                        CASE argv[i + 1][1] # "$" -> argv[i + 1]
                          [] argv[i + 1] = <<"$", "1">> -> <<"p">>
                          [] OTHER -> <<"(null)">>]]_vars
=============================================================================
