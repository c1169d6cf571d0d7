------------------------------- MODULE Screen -------------------------------
(***************************************************************************)
(* Text output: kernel/src/driver/video (video_init.c, vga.c,              *)
(* framebuffer.c), the kernel's printing in kernel/src/kutils.c, the       *)
(* choice of a driver in video_init of kernel/src/kernel.c and the thread  *)
(* kernel/src/kproc/stdout.c.                                              *)
(*                                                                         *)
(* A screen is ROWS rows of COLS cells, numbered from 0 along the rows, and *)
(* a cell holds a character; colours and pixels are left out, but a cell   *)
(* can hold the block that the framebuffer draws as its cursor, and the    *)
(* buffer that keeps what the block covers is part of the state.           *)
(***************************************************************************)
EXTENDS Integers, Sequences, SequencesExt

CONSTANTS
    COLS, ROWS,
    Letters,      \* characters that are shown
    OPEN,         \* the character that opens a log line's tag
    TAG, CLOSE,   \* the strings that follow it
    CHUNK,        \* longest string printed at once
    PREINIT       \* characters the buffer used before a driver is chosen may get

VARIABLES
    screen,       \* what the drivers keep: see Init
    text          \* history: what printing character by character would show, and
                  \* whether all that was printed is plain

vars == <<screen, text>>

CELLS == COLS * ROWS
BLANK == " "
BLOCK == "block"
NL == "\\n"
BS == "\\b"
Chars == Letters \cup {NL, BS}
Row(p) == p \div COLS
Col(p) == p % COLS

Plot(cells, p, c) == IF p \in 0..CELLS - 1 THEN [cells EXCEPT ![p] = c] ELSE cells
At(cells, p) == IF p \in 0..CELLS - 1 THEN cells[p] ELSE BLANK
Blanks == [p \in 0..CELLS - 1 |-> BLANK]

-----------------------------------------------------------------------------
(* printc of vga.c and framebuffer.c, with calculate_mode set: where the    *)
(* cursor goes.  They differ in a backspace at the first cell.              *)
Moved(driver, c, p) ==
    CASE c = NL -> p + COLS - Col(p)
      [] c = BS -> IF p > 0 THEN p - 1 ELSE IF driver = "framebuffer" THEN COLS - 1 ELSE 0
      [] OTHER  -> p + 1

(* ... and what it draws. *)
Drawn(driver, cells, c, p) ==
    CASE c = NL -> cells
      [] c = BS -> Plot(cells, Moved(driver, c, p), BLANK)
      [] OTHER  -> Plot(cells, p, c)

(* scroll_screen: the rows move up, and with them a position.  What is      *)
(* scrolled off leaves it in the first row (framebuffer) or at the first    *)
(* cell (VGA).                                                              *)
Shifted(cells, amount) ==
    IF amount >= ROWS THEN Blanks
    ELSE [p \in 0..CELLS - 1 |-> At(cells, p + amount * COLS)]

ShiftedPos(driver, p, amount) ==
    IF amount < ROWS /\ Row(p) >= amount THEN p - amount * COLS
    ELSE IF driver = "framebuffer" THEN Col(p) ELSE 0

-----------------------------------------------------------------------------
(* draw_cursor(false): what is under the cursor is saved, and covered. *)
Cover(s) ==
    IF s.driver # "framebuffer" THEN s
    ELSE [s EXCEPT !.cells = Plot(@, s.cursor, BLOCK),
                   !.saved = At(s.cells, s.cursor),
                   !.saved_at = s.cursor]

(* load_cursor_buffer *)
Uncover(s) ==
    IF s.driver # "framebuffer" THEN s ELSE [s EXCEPT !.cells = Plot(@, s.saved_at, s.saved)]

(* video_vga_printc, video_framebuffer_printc, at the cursor and moving it. *)
(* A character covers the old block; after a newline or a backspace         *)
(* draw_cursor(true) removes it.                                            *)
Scroll(s, amount) ==
    [s EXCEPT !.cells = Shifted(@, amount),
              !.cursor = ShiftedPos(s.driver, @, amount),
              !.saved_at = ShiftedPos(s.driver, @, amount)]

Placed(s, c) ==
    LET drawn == [s EXCEPT !.cells = Drawn(s.driver, @, c, s.cursor),
                           !.cursor = Moved(s.driver, c, @)]
    IN IF Row(drawn.cursor) = ROWS THEN Scroll(drawn, 1) ELSE drawn

ScreenPrintc_leaves(s, c) ==     \* mutant: the block stays behind after a newline
    Cover(IF c = BS THEN Uncover(Placed(s, c)) ELSE Placed(s, c))

ScreenPrintc(s, c) ==
    Cover(IF c \in {NL, BS} THEN Uncover(Placed(s, c)) ELSE Placed(s, c))

(* video_vga_prints, video_framebuffer_prints, at the cursor and moving it: *)
(* the final position is worked out first, the screen is scrolled once, and *)
(* printing stops where the screen ends.                                    *)
Phantom(driver, str, p) == FoldLeft(LAMBDA q, c : Moved(driver, c, q), p, str)

RowsNeeded(driver, str, p) ==
    LET end == Row(Phantom(driver, str, p)) IN IF end >= ROWS THEN end - ROWS + 1 ELSE 0

Start(driver, p, amount) ==
    IF Row(p) >= amount THEN p - amount * COLS ELSE IF driver = "framebuffer" THEN Col(p) ELSE 0

PrintLoop(s, str) ==
    FoldLeft(LAMBDA t, c : IF Row(t.cursor) >= ROWS THEN t
                           ELSE [t EXCEPT !.cells = Drawn(s.driver, @, c, t.cursor),
                                          !.cursor = Moved(s.driver, c, @)], s, str)

ScreenPrints(s, str) ==
    LET amount == RowsNeeded(s.driver, str, s.cursor)
        clear  == Uncover(s)
        rolled == IF amount = 0 THEN clear ELSE Scroll(clear, amount)
    IN IF str = << >> THEN s
       ELSE Cover(PrintLoop([rolled EXCEPT !.cursor = Start(s.driver, s.cursor, amount)], str))

-----------------------------------------------------------------------------
(* video_preinit_printc and video_preinit_prints: the length of the buffer  *)
(* is raised before the string is written, to the place of its first        *)
(* character.                                                               *)
Raised(s) == IF s.cursor >= s.len THEN s.cursor + 1 ELSE s.len

PreinitPrintc(s, c) ==
    [s EXCEPT !.buffer = SubSeq(@, 1, s.cursor) \o <<c>>, !.len = Raised(s), !.cursor = @ + 1]

PreinitPrints(s, str) ==
    [s EXCEPT !.buffer = SubSeq(@, 1, s.cursor) \o str, !.len = Raised(s), !.cursor = @ + Len(str)]

(* The pointers video_printc and video_prints. *)
Printc(s, c) == IF s.driver = "preinit" THEN PreinitPrintc(s, c) ELSE ScreenPrintc(s, c)
Prints(s, str) == IF s.driver = "preinit" THEN PreinitPrints(s, str) ELSE ScreenPrints(s, str)

-----------------------------------------------------------------------------
(* The reference: one character at a time, and the screen moves up a row    *)
(* when the cursor leaves it.                                               *)
Put(t, c) ==
    LET next == CASE c = NL -> [t EXCEPT !.cursor = COLS * (Row(@) + 1)]
                  [] c = BS -> IF t.cursor = 0 THEN t
                               ELSE [t EXCEPT !.cursor = @ - 1, !.cells[t.cursor - 1] = BLANK]
                  [] OTHER  -> [t EXCEPT !.cursor = @ + 1, !.cells[t.cursor] = c]
    IN IF next.cursor < CELLS THEN next
       ELSE [next EXCEPT !.cursor = CELLS - COLS,
                 !.cells = [p \in 0..CELLS - 1 |-> IF p + COLS < CELLS THEN @[p + COLS] ELSE BLANK]]

PutAll(t, str) == FoldLeft(Put, t, str)
Shown(t, str, plain) == [PutAll(t, str) EXCEPT !.plain = @ /\ plain]

-----------------------------------------------------------------------------
(* Characters, or a string, that the drivers print as one would expect: no  *)
(* backspace at the first cell, and no string printed at once that needs    *)
(* more rows than are above the cursor or that reaches past the screen and  *)
(* comes back.                                                              *)
PlainChars(t, str) ==
    \A i \in 1..Len(str) : ~(str[i] = BS /\ PutAll(t, SubSeq(str, 1, i - 1)).cursor = 0)

PlainString(s, str) ==
    LET amount == RowsNeeded(s.driver, str, s.cursor)
    IN \/ s.driver = "preinit"
       \/ /\ Row(s.cursor) >= amount
          /\ \A i \in 0..Len(str) - 1 :
                Phantom(s.driver, SubSeq(str, 1, i), s.cursor - amount * COLS) < CELLS

BootTextFits(s) == s.driver = "preinit" => s.cursor <= PREINIT

-----------------------------------------------------------------------------
(* kvprintf prints character by character. *)
KPrintf(str) ==
    /\ screen' = FoldLeft(Printc, screen, str)
    /\ BootTextFits(screen')
    /\ text' = Shown(text, str, PlainChars(text, str))

(* kprint_debug: print_log_tag, then kvprintf. *)
KPrintDebug(str) ==
    LET opened == Printc(screen, OPEN)
        tagged == Prints(opened, TAG)
        closed == Prints(tagged, CLOSE)
        before == PutAll(text, <<OPEN>> \o TAG \o CLOSE)
    IN /\ screen' = FoldLeft(Printc, closed, str)
       /\ BootTextFits(screen')
       /\ text' = Shown(before, str, PlainString(opened, TAG) /\ PlainString(tagged, CLOSE) /\ PlainChars(before, str))

(* kproc_stdout writes what it has read from the standard output. *)
StdoutWrites(str) ==
    /\ screen.driver # "preinit"
    /\ screen' = Prints(screen, str)
    /\ text' = Shown(text, str, PlainChars(text, str) /\ PlainString(screen, str))

(* video_vga_init and video_framebuffer_init: what was printed before is    *)
(* printed again.  Which of them video_init calls depends on what the boot  *)
(* loader found.                                                            *)
VideoInit(driver) ==
    /\ screen.driver = "preinit"
    /\ LET kept == SubSeq(screen.buffer, 1, screen.len)
           new  == [driver |-> driver, cells |-> Blanks, cursor |-> 0, saved |-> BLANK,
                    saved_at |-> 0, buffer |-> << >>, len |-> 0]
       IN screen' = FoldLeft(Printc, new, kept)
    /\ UNCHANGED text

Init ==
    /\ screen = [driver |-> "preinit", cells |-> Blanks, cursor |-> 0, saved |-> BLANK,
                 saved_at |-> 0, buffer |-> << >>, len |-> 0]
    /\ text = [cells |-> Blanks, cursor |-> 0, plain |-> TRUE]

(* What is printed is followed up to the first string that is not plain. *)
Next ==
    /\ text.plain
    /\ \/ \E str \in BoundedSeq(Chars, CHUNK) \ {<< >>} :
             \/ KPrintf(str)
             \/ KPrintDebug(str)
             \/ StdoutWrites(str)
       \/ \E driver \in {"vga", "framebuffer"} : VideoInit(driver)

-----------------------------------------------------------------------------
(* The screen shows the text: what was printed before there was a driver,   *)
(* each string of a thread, scrolling the screen by up to the rows above    *)
(* the cursor, and what the cursor covers are all as if every character had *)
(* been put by itself.  Strings that are not plain are not shown so.        *)
ShowsText ==
    screen.driver # "preinit" /\ text.plain =>
        /\ screen.cursor = text.cursor
        /\ Uncover(screen).cells = text.cells

(* There is one block on the framebuffer, at the cursor, and none on a text *)
(* screen, which has a cursor of its own.                                   *)
OneCursor ==
    screen.driver # "preinit" =>
        {p \in 0..CELLS - 1 : screen.cells[p] = BLOCK} \subseteq
            (IF screen.driver = "framebuffer" THEN {screen.cursor} ELSE {})
=============================================================================
