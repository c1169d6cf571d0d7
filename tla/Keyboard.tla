------------------------------ MODULE Keyboard ------------------------------
(***************************************************************************)
(* The keyboard driver kernel/src/driver/kbd.c with the layout of          *)
(* kernel/src/locale.c, the dispatch of IRQ 1 in kernel/src/system/isr.c,  *)
(* and the kernel thread kernel/src/kproc/stdin.c that waits for keys and  *)
(* writes their characters to the standard input.                          *)
(*                                                                         *)
(* The keyboard sends the bytes of scancode set 1; each raises IRQ 1 and   *)
(* is handled with interrupts off.  The thread runs with interrupts on: a  *)
(* key, or the timer tick that lets it go on after hlt, can come between   *)
(* any two of its steps.                                                   *)
(***************************************************************************)
EXTENDS Integers, Sequences, FiniteSets

CONSTANTS
    Keys,         \* keys of the keyboard, a subset of DOMAIN Code
    STRAY,        \* what keycode[0x7a], past the end of the table, may hold
    EVENTS        \* bound on the number of key presses and releases

ASSUME KeyboardAssumption == EVENTS \in Nat /\ STRAY \subseteq 0..127

-----------------------------------------------------------------------------
(* keycode[] and keycode_extended_byte[]: row * 16 + column for the key of  *)
(* a scancode, 0 where the tables have nothing.                             *)
keycode == [c \in 0..127 |->
    CASE c \in 2..14  -> 16 + c - 1       \* 1 to backspace
      [] c \in 15..27 -> 32 + c - 15      \* tab to ]
      [] c = 28       -> 60               \* enter
      [] c = 29       -> 80               \* left control
      [] c \in 30..40 -> 48 + c - 29      \* a to '
      [] c = 41       -> 16               \* `
      [] c = 42       -> 64               \* left shift
      [] c = 43       -> 45               \* \
      [] c \in 44..54 -> 64 + c - 43      \* z to right shift
      [] c = 56       -> 82               \* left alt
      [] c = 57       -> 83               \* space
      [] c = 58       -> 48               \* caps lock
      [] c \in 59..68 -> c - 58           \* F1 to F10
      [] c = 70       -> 97               \* scroll lock
      [] c \in 87..88 -> c - 76           \* F11, F12
      [] OTHER        -> 0]

keycode_extended_byte == [c \in 0..127 |->
    CASE c = 29 -> 87 [] c = 56 -> 84                                  \* right control, alt
      [] c = 71 -> 100 [] c = 73 -> 101 [] c = 79 -> 103 [] c = 81 -> 104
      [] c = 72 -> 112 [] c = 75 -> 113 [] c = 77 -> 115 [] c = 80 -> 114  \* arrows
      [] c = 82 -> 99 [] c = 83 -> 102                                 \* insert, delete
      [] c = 91 -> 81 [] c = 92 -> 85 [] c = 93 -> 86                  \* gui, apps
      [] OTHER -> 0]

(* The keycodes of kbd.h. *)
KBD_KEYCODE(group, column) == 16 * group + column

LSHIFT == KBD_KEYCODE(4, 0)
RSHIFT == KBD_KEYCODE(4, 11)
CAPSLOCK == KBD_KEYCODE(3, 0)
SCROLLLOCK == KBD_KEYCODE(6, 1)
PRINTSCREEN == KBD_KEYCODE(6, 0)
PAUSE == KBD_KEYCODE(6, 2)
RIGHT == KBD_KEYCODE(7, 3)

EXTENDED == 224           \* KBD_EXTENDED_BYTE
PAUSE_1ST == 225          \* KBD_PAUSE_SCANCODE_1ST
PRINT_PRESSED == 42       \* KBD_PRINTSCREEN_PRESSED_SCANCODE_2ND
PRINT_RELEASED == 183     \* KBD_PRINTSCREEN_RELEASED_SCANCODE_2ND
ACK == 250                \* KBD_ACK

(* keymap and keymap_shift: the characters of a row of keys.  NUL is what a *)
(* key without a character has.                                             *)
NUL == "NUL"
Plain ==
    [r \in 0..7 |->
        CASE r = 1 -> <<"`","1","2","3","4","5","6","7","8","9","0","-","=","\\b">>
          [] r = 2 -> <<"\\t","q","w","e","r","t","y","u","i","o","p","[","]","\\">>
          [] r = 3 -> <<NUL,"a","s","d","f","g","h","j","k","l",";","'","\\n">>
          [] r = 4 -> <<NUL,"z","x","c","v","b","n","m",",",".","/">>
          [] r = 5 -> <<NUL,NUL,NUL," ">>
          [] OTHER -> << >>]
Shifted ==
    [r \in 0..7 |->
        CASE r = 1 -> <<"~","!","@","#","$","%","^","&","*","(",")","_","+">>
          [] r = 2 -> <<NUL,"Q","W","E","R","T","Y","U","I","O","P","{","}","|">>
          [] r = 3 -> <<NUL,"A","S","D","F","G","H","J","K","L",":","\"">>
          [] r = 4 -> <<NUL,"Z","X","C","V","B","N","M","<",">","?">>
          [] OTHER -> << >>]

(* locale_map_key *)
MapKey(kcode, shift) ==
    LET row == (IF shift THEN Shifted ELSE Plain)[kcode \div 16]
    IN IF kcode % 16 < Len(row) THEN row[(kcode % 16) + 1] ELSE NUL

(* The test mapped >= 0x61 && mapped <= 0x7a, and mapped -= 32. *)
LetterKeys == 33..42 \cup 49..57 \cup 65..71
IsLower(kcode, shift) == ~shift /\ kcode \in LetterKeys
Upper(kcode) == Shifted[kcode \div 16][(kcode % 16) + 1]

-----------------------------------------------------------------------------
VARIABLES
    queue,                \* bytes the controller has for the kernel
    down,                 \* keys that are held down
    typed,                \* history: what each press and release should give
    handler,              \* the routine of IRQ 1: kbd_handler or kbd_trash_int_handler
    left,                 \* interrupts kbd_trash_int_handler has yet to discard
    extended_byte,
    key_pressed,          \* keycodes held down
    capslock_on,
    current_key,
    latest_key_handled,
    decoded,              \* history: the keys the handler has put in current_key
    astray,               \* history: bytes of a key were read as an answer, or an
                          \* answer has released a key that is held
    pc,                   \* where kproc_stdin is
    since,                \* history: Len(decoded) when its wait began
    taken,                \* history: current_key when its wait ended
    out                   \* history: the key presses it was given

driver == <<handler, left, extended_byte, key_pressed, capslock_on, current_key>>
vars == <<queue, down, typed, driver, latest_key_handled, decoded, astray, pc, since, taken, out>>

Key(k, m, r) == [keycode |-> k, mapped |-> m, released |-> r]

(* The keyboard (external): the bytes of a key's press and release. *)
Code == [a |-> 30, one |-> 2, enter |-> 28, shift |-> 42, rshift |-> 54, caps |-> 58,
         right |-> 77, print |-> 0, pause |-> 0]

ASSUME KeysAssumption == Keys \subseteq DOMAIN Code

Bytes(k, released) ==
    LET up == IF released THEN 128 ELSE 0
    IN CASE k = "right" -> <<EXTENDED, Code[k] + up>>
         [] k = "pause" -> IF released THEN << >> ELSE <<PAUSE_1ST, 29, 69, PAUSE_1ST, 157, 197>>
         [] k = "print" -> IF released THEN <<EXTENDED, PRINT_RELEASED, EXTENDED, 170>>
                           ELSE <<EXTENDED, PRINT_PRESSED, EXTENDED, 55>>
         [] OTHER -> <<Code[k] + up>>

-----------------------------------------------------------------------------
(* The character kbd_handler gives a key, with pressed the keycodes held    *)
(* down and caps the state of caps lock.                                    *)
Mapped(kcode, pressed, caps) ==
    LET shift == pressed \cap {LSHIFT, RSHIFT} # {}
    IN IF shift /\ (~IsLower(kcode, FALSE) \/ ~caps) THEN MapKey(kcode, TRUE)
       ELSE IF caps /\ IsLower(kcode, FALSE) /\ ~shift THEN Upper(kcode)
       ELSE MapKey(kcode, FALSE)

(* The bytes left when kbd_set_led has had its answer: it reads, and drops, *)
(* whatever comes before the first of the two acknowledgements.  RESEND     *)
(* makes it send the command again, three times at most; it is not heeded   *)
(* here, since the answers that follow are the same.                        *)
AfterLed == <<ACK>>

Discard(cnt) == handler' = "trash" /\ left' = cnt

Store(key) ==
    /\ current_key' = key
    /\ decoded' = Append(decoded, key)

(* kbd_handler for Pause: five more bytes follow. *)
PausePressed_four ==     \* mutant: only four of them are dropped
    /\ Discard(4)
    /\ Store(Key(PAUSE, NUL, FALSE))
    /\ extended_byte' = FALSE
    /\ queue' = Tail(queue)
    /\ UNCHANGED <<key_pressed, capslock_on, latest_key_handled, astray>>

PausePressed ==
    /\ Discard(5)
    /\ Store(Key(PAUSE, NUL, FALSE))
    /\ extended_byte' = FALSE
    /\ queue' = Tail(queue)
    /\ UNCHANGED <<key_pressed, capslock_on, latest_key_handled, astray>>

(* kbd_handler for Print Screen: a second prefix and byte follow.  The key  *)
(* is marked in key_pressed by its place in the table, 0x6e, not its        *)
(* keycode.                                                                 *)
PrintScreen(b) ==
    /\ key_pressed' = IF b = PRINT_PRESSED THEN key_pressed \cup {110} ELSE key_pressed \ {110}
    /\ Discard(2)
    /\ Store(Key(PRINTSCREEN, NUL, b = PRINT_RELEASED))
    /\ extended_byte' = FALSE
    /\ queue' = Tail(queue)
    /\ UNCHANGED <<capslock_on, latest_key_handled, astray>>

(* kbd_handler for any other key. *)
OrdinaryKey(b) ==
    LET released == b >= 128
        scancode == b % 128
    IN \E kcode \in IF scancode > 88 /\ ~extended_byte THEN STRAY
                    ELSE {IF extended_byte THEN keycode_extended_byte[scancode] ELSE keycode[scancode]} :
       LET pressed == IF released THEN key_pressed \ {kcode} ELSE key_pressed \cup {kcode}
           led     == kcode \in {CAPSLOCK, SCROLLLOCK} /\ ~released
           caps    == IF kcode = CAPSLOCK /\ ~released THEN ~capslock_on ELSE capslock_on
           key     == Key(kcode, Mapped(kcode, pressed, caps), released)
       IN /\ astray' = (astray \/ (led /\ Len(queue) > 1) \/ (b = ACK /\ kcode \in key_pressed))
          /\ key_pressed' = pressed
          /\ capslock_on' = caps
          /\ queue' = IF led THEN AfterLed ELSE Tail(queue)
          /\ current_key' = key
          /\ decoded' = IF b = ACK THEN decoded ELSE Append(decoded, key)
          /\ latest_key_handled' = FALSE
          /\ extended_byte' = FALSE
          /\ UNCHANGED <<handler, left>>

Prefix ==
    /\ extended_byte' = TRUE
    /\ queue' = Tail(queue)
    /\ UNCHANGED <<handler, left, key_pressed, capslock_on, current_key, latest_key_handled, decoded, astray>>

(* kbd_trash_int_handler *)
Trash ==
    /\ queue' = Tail(queue)
    /\ left' = left - 1
    /\ handler' = IF left = 1 THEN "kbd" ELSE "trash"
    /\ UNCHANGED <<extended_byte, key_pressed, capslock_on, current_key, latest_key_handled, decoded, astray>>

(* isr_handler for IRQ 1; the thread, if it has halted, goes on. *)
Irq ==
    /\ queue # << >>
    /\ LET b == Head(queue)
       IN CASE handler = "trash" -> Trash
            [] handler = "kbd" /\ b = EXTENDED -> Prefix
            [] handler = "kbd" /\ b = PAUSE_1ST -> PausePressed
            [] handler = "kbd" /\ extended_byte /\ b \in {PRINT_PRESSED, PRINT_RELEASED} -> PrintScreen(b)
            [] OTHER -> OrdinaryKey(b)
    /\ pc' = IF pc = "hlt" THEN "check" ELSE pc
    /\ UNCHANGED <<down, typed, since, taken, out>>

(* The timer's interrupt. *)
Tick_masked ==     \* mutant: the thread halts with interrupts disabled
    /\ pc = "hlt"
    /\ UNCHANGED vars

Tick ==
    /\ pc = "hlt"
    /\ pc' = "check"
    /\ UNCHANGED <<queue, down, typed, driver, latest_key_handled, decoded, astray, since, taken, out>>

-----------------------------------------------------------------------------
(* A key is pressed or released (external).  What should come of it: its    *)
(* keycode, and a letter in the case that shift and caps lock ask for or    *)
(* another character as shift asks for it.                                  *)
Presses(k) == Cardinality({i \in 1..Len(typed) : typed[i].name = k /\ ~typed[i].released})

Expected(k, released) ==
    LET kcode == CASE k = "right" -> RIGHT [] k = "pause" -> PAUSE [] k = "print" -> PRINTSCREEN
                   [] OTHER -> keycode[Code[k]]
        held  == IF released THEN down \ {k} ELSE down \cup {k}
        shift == held \cap {"shift", "rshift"} # {}
        caps  == (Presses("caps") + (IF k = "caps" /\ ~released THEN 1 ELSE 0)) % 2 = 1
        big   == IF kcode \in LetterKeys THEN shift # caps ELSE shift
    IN [name |-> k, keycode |-> kcode, mapped |-> MapKey(kcode, big), released |-> released]

Type(k, released) ==
    /\ Len(typed) < EVENTS
    /\ released <=> k \in down
    /\ k = "pause" => ~released
    /\ queue' = queue \o Bytes(k, released)
    /\ down' = IF released THEN down \ {k} ELSE IF k = "pause" THEN down ELSE down \cup {k}
    /\ typed' = Append(typed, Expected(k, released))
    /\ UNCHANGED <<driver, latest_key_handled, decoded, astray, pc, since, taken, out>>

-----------------------------------------------------------------------------
(* kproc_stdin and kbd_wait_key.  A write to the standard input may block   *)
(* for as long as the pipe is full.                                         *)
Goto(from, to) == pc = from /\ pc' = to

WaitBegins ==
    /\ Goto("idle", "check")
    /\ latest_key_handled' = TRUE
    /\ since' = Len(decoded)
    /\ UNCHANGED <<queue, down, typed, driver, decoded, astray, taken, out>>

Check ==
    /\ pc = "check"
    /\ pc' = IF latest_key_handled THEN "halting" ELSE "take"
    /\ UNCHANGED <<queue, down, typed, driver, latest_key_handled, decoded, astray, since, taken, out>>

Halt ==
    /\ Goto("halting", "hlt")
    /\ UNCHANGED <<queue, down, typed, driver, latest_key_handled, decoded, astray, since, taken, out>>

Take ==
    /\ Goto("take", "copy")
    /\ latest_key_handled' = TRUE
    /\ taken' = current_key
    /\ UNCHANGED <<queue, down, typed, driver, decoded, astray, since, out>>

(* The copy of current_key, which a key in the middle of it can tear: two   *)
(* bytes of the key before and the last of the new one.                     *)
Torn == [taken EXCEPT !.released = current_key.released]
Copies == {current_key, Torn}

Copy ==
    /\ Goto("copy", "idle")
    /\ \E key \in Copies : out' = IF key.released THEN out ELSE Append(out, key)
    /\ UNCHANGED <<queue, down, typed, driver, latest_key_handled, decoded, astray, since, taken>>

(* set_scancode_set and kbd_set_led send two bytes each, and read answers   *)
(* up to the first ACK: of the four, the last two may come in later.        *)
Unread == {<< >>, <<ACK, ACK>>}

Init ==
    /\ queue \in Unread
    /\ down = {} /\ typed = << >>
    /\ handler = "kbd" /\ left = 0
    /\ extended_byte = FALSE
    /\ key_pressed = {}
    /\ capslock_on = FALSE
    /\ current_key = Key(0, NUL, FALSE)
    /\ latest_key_handled = TRUE
    /\ decoded = << >> /\ astray = FALSE
    /\ pc = "idle" /\ since = 0 /\ taken = current_key /\ out = << >>

Thread == WaitBegins \/ Check \/ Halt \/ Take \/ Copy

Next ==
    \/ \E k \in Keys, released \in BOOLEAN : Type(k, released)
    \/ Irq
    \/ Tick
    \/ Thread

KeyboardSpec == Init /\ [][Next]_vars

-----------------------------------------------------------------------------
Event(e) == Key(e.keycode, e.mapped, e.released)

(* What the driver makes of the bytes is what was typed, key by key and in  *)
(* order: through the prefixes, the bytes it has to skip and the handler it *)
(* puts in its own place, with the character the modifiers ask for.         *)
DecodedInOrder ==
    /\ Len(decoded) <= Len(typed)
    /\ \A i \in 1..Len(decoded) : decoded[i] = Event(typed[i])

(* When every byte has been read the driver is in step with the keyboard:   *)
(* its own handler is installed, no prefix is pending, and it knows which   *)
(* shift keys are held and whether caps lock is on.                         *)
InStep ==
    queue = << >> =>
        /\ handler = "kbd" /\ ~extended_byte
        /\ LSHIFT \in key_pressed <=> "shift" \in down
        /\ RSHIFT \in key_pressed <=> "rshift" \in down
        /\ capslock_on = (Presses("caps") % 2 = 1)

(* Every key is decoded, once and in the order in which they were struck,   *)
(* after sequences of up to six bytes too, until a key comes in while the   *)
(* lights are set, which kbd_set_led reads and drops, or the second of its  *)
(* two acknowledgements is taken for the release of a key that is held.     *)
KeysDecoded == ~astray => DecodedInOrder /\ InStep

(* A key given to the standard input was pressed while the thread waited    *)
(* for it ("make sure to get a new key"), or has the character of the key   *)
(* before one that was pressed in the middle of the copy.                   *)
NewKey ==
    [][out' # out => LET key == out'[Len(out')]
                     IN \E i \in since + 1..Len(decoded) :
                           decoded[i] = key \/ (key = Torn /\ decoded[i] = current_key)]_vars

(* A key that has come while the thread waits is taken, although the thread *)
(* may look just before it comes and halt just after.                       *)
KeyIsTaken == (pc \in {"check", "halting", "hlt"} /\ ~latest_key_handled) ~> (pc = "copy")
=============================================================================
