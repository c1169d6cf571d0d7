------------------------------- MODULE Console -------------------------------
(***************************************************************************)
(* The console from the keys to the screen: the keyboard, whose keys go to *)
(* the standard input; the shell, which reads it and starts programs; the  *)
(* printf and scanf that programs use; and the screen, which shows the     *)
(* standard output and the kernel's own messages.  They share no state     *)
(* (the pipes between them are the subject of module Pipe), so a behaviour *)
(* exercises one of them.                                                  *)
(***************************************************************************)
EXTENDS Keyboard

CONSTANTS
    COLS, ROWS, Letters, OPEN, TAG, CLOSE, CHUNK, PREINIT,              \* see Screen
    BUFFER, ARGS_MAX, MAX_LINE, KEYS, Environment,                      \* see CommandLine
    WIDTH, LIMIT, ROOM, Lines, PRINTS                                   \* see Format

VARIABLES
    stage,            \* the part that this behaviour exercises
    screen, text,
    buffer, buffer_ptr, exit_code, shell, args_buffer, argv, envp, terminal, printed, line, reached, keys,
    file, offset, sent, ret, got

Display == INSTANCE Screen
Shell == INSTANCE CommandLine
Stdio == INSTANCE Format

screenVars == <<screen, text>>
shellVars == <<buffer, buffer_ptr, exit_code, shell, args_buffer, argv, envp, terminal, printed,
               line, reached, keys>>
stdioVars == <<file, offset, sent, ret, got>>
consoleVars == <<stage, vars, screenVars, shellVars, stdioVars>>

ConsoleInit ==
    /\ stage \in {"keyboard", "screen", "shell", "stdio"}
    /\ Init /\ (stage # "keyboard" => queue = << >>)
    /\ Display!Init /\ Shell!Init /\ Stdio!Init

KeyboardStep(A) == stage = "keyboard" /\ A /\ UNCHANGED <<stage, screenVars, shellVars, stdioVars>>
ScreenStep(A) == stage = "screen" /\ A /\ UNCHANGED <<stage, vars, shellVars, stdioVars>>
ShellStep(A) == stage = "shell" /\ A /\ UNCHANGED <<stage, vars, screenVars, stdioVars>>
StdioStep(A) == stage = "stdio" /\ A /\ UNCHANGED <<stage, vars, screenVars, shellVars>>

(* The shell ends with exit or a fault, the screen is followed as long as   *)
(* what is printed is plain, and calls of printf are bounded.               *)
Rest == (stage \in {"shell", "stdio"} \/ ~text.plain) /\ UNCHANGED consoleVars

ConsoleNext ==
    \/ KeyboardStep(Next) \/ ScreenStep(Display!Next)
    \/ ShellStep(Shell!Next) \/ StdioStep(Stdio!Next)
    \/ Rest

(* The processor takes interrupts, the timer ticks, and kproc_stdin is      *)
(* scheduled again after each.                                              *)
ConsoleSpec ==
    /\ ConsoleInit /\ [][ConsoleNext]_consoleVars
    /\ WF_consoleVars(KeyboardStep(Irq))
    /\ WF_consoleVars(KeyboardStep(Tick))
    /\ WF_consoleVars(KeyboardStep(Check \/ Halt \/ Take))

-----------------------------------------------------------------------------
(* The thread that waits gets a key that is struck after it began to wait,  *)
(* or the part of one that a further key leaves, and gets one if there is   *)
(* one: see Keyboard.                                                       *)
KeyHandedOver == NewKey /\ KeyIsTaken

(* The screen shows the text that was printed, as long as it is plain, and  *)
(* the framebuffer's cursor once, where it is: see Screen.                  *)
ScreenShows == Display!ShowsText /\ Display!OneCursor

(* The terminal shows the line that is edited, a program is started with    *)
(* its words, and echo prints them with variables replaced: see             *)
(* CommandLine.                                                             *)
CommandArrives == [](Shell!LineShown /\ Shell!WordsArrive) /\ Shell!EchoPrints

(* scanf reads what printf has printed: see Format. *)
ScannedAsPrinted == Stdio!ScannedAsPrinted
=============================================================================
