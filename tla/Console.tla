------------------------------ MODULE Console ------------------------------
(***************************************************************************)
(* The text console of src/kernel/fskrnl.c: putchar_xy and the cursor, and *)
(* the escape sequences of tprint (the kernel's own messages) and tprintl  *)
(* (the write system call).  A call is atomic in the code; here it is one  *)
(* step for each symbol it reads, so that what it reads is chosen as it    *)
(* goes.  The digits of one number are one symbol.  Left out: the colours, *)
(* the shape of the cursor, the serial console.                            *)
(***************************************************************************)
EXTENDS Integers

CONSTANTS
  TEXT_COLS, TEXT_ROWS,  \* the screen
  TabStop,               \* the 8 of '\t'
  Printable,             \* the characters with a glyph
  Numbers,               \* the parameters of sequences
  MaxCount,              \* bound on the count of a write
  MaxScrolls             \* bound on the rows that leave the screen

VARIABLES
  cell,         \* the hardware cursor, in characters
  saved,        \* saved_cursor_x, saved_cursor_y
  vga_memory,   \* the characters on the screen
  at,           \* where the call is in its buffer: Places
  print_status, \* 1: tprintl shows nothing
  l,            \* what is left of the count
  printk,       \* the call is tprint
  private_code, number_code, csi_code,
  paper,        \* history: the same text on paper that never scrolls...
  top,          \* ...the row of the paper at the top of the screen...
  place,        \* ...where the paper is written next
  deaf          \* history: the last sequence of this write is one that tprintl
                \* does not act on, or shows or hides the cursor

cursorVars == <<cell, saved, vga_memory>>
parserVars == <<at, print_status, l, printk, private_code, number_code, csi_code>>
paperVars == <<paper, top, place>>
conVars == <<cursorVars, parserVars, paperVars, deaf>>

Short == 65536                      \* unsigned short
Cells == TEXT_COLS * TEXT_ROWS
Blank == " "
Controls == {"newline", "return", "tab", "backspace"}

\* The code's screen has 80 columns and 25 rows.  In 127 columns no absolute position,
\* of two unsigned chars, has an offset beyond an unsigned short; and the offset that a
\* '\b' in the upper left corner leaves is off the screen, and off it one row up.
ASSUME ScreenAssumption ==
  /\ TEXT_COLS \in 1..127 /\ TEXT_ROWS \in Nat /\ TEXT_ROWS > 0
  /\ TEXT_COLS * (TEXT_ROWS + 1) < Short \div 2
  /\ TabStop \in 1..TEXT_COLS /\ MaxScrolls \in Nat
  /\ Numbers \subseteq Nat /\ Printable \cap Controls = {}

Places == {"idle", "text", "escape", "skip", "bracket", "question",
           "semicolon", "number", "next"}
Moves == {"A", "B", "C", "D", "E", "F", "G"}
Finals == Moves \cup {"K", "m", "J", "H", "f", "s", "u", "l", "h", "other"}

\* Types; the cursor is an unsigned short, and output is on between calls.
ConTypeOK ==
  /\ cell \in 0..(Short - 1)
  /\ saved.x \in 0..(TEXT_COLS - 1) /\ saved.y \in Nat
  /\ vga_memory \in [0..(Cells - 1) -> Printable \cup {Blank}]
  /\ at \in Places
  /\ print_status \in {0, 1}
  /\ at = "idle" => print_status = 0
  /\ printk => print_status = 0

ConInit ==
  /\ cell = 0 /\ saved = [x |-> 0, y |-> 0]
  /\ vga_memory = [i \in 0..(Cells - 1) |-> Blank]
  /\ at = "idle" /\ print_status = 0 /\ l = 0 /\ printk = FALSE
  /\ private_code = 0 /\ number_code = 0 /\ csi_code = 0
  /\ paper = [i \in 0..(Cells + MaxScrolls * TEXT_COLS - 1) |-> Blank]
  /\ top = 0 /\ place = 0 /\ deaf = FALSE

(***************************************************************************)
(* The cursor.                                                             *)
(***************************************************************************)

textoffset(x, y) == 2 * (y * TEXT_COLS + x)
getcursor == (2 * cell) % Short
wherex == (getcursor % (2 * TEXT_COLS)) \div 2
wherey == getcursor \div (2 * TEXT_COLS)
OnScreen(c) == c < Cells

\* setcursor: the cell of (x, y) as an unsigned short.
gotoxy(x, y) == cell' = (y * TEXT_COLS + x) % Short

\* History: the paper follows the cursor where the screen shows it.
PaperFollows ==
  /\ place' = IF OnScreen(cell') THEN top * TEXT_COLS + cell' ELSE place
  /\ UNCHANGED <<paper, top>>

(***************************************************************************)
(* Characters.                                                             *)
(***************************************************************************)

\* Where putchar_xy leaves the offset before it looks at the end of the
\* screen; a '\b' in the upper left corner leaves the largest one.
Advanced(ch) ==
  CASE ch = "newline" -> textoffset(0, wherey + 1)
    [] ch = "return" -> textoffset(0, wherey)
    [] ch = "tab" -> textoffset(wherex + TabStop, wherey)
    [] ch = "backspace" -> textoffset(wherex - 1, wherey) % Short
    [] OTHER -> getcursor + 2

\* The same on the paper, which is as wide as the screen.
OnPaper(ch) ==
  LET row == place \div TEXT_COLS
  IN CASE ch = "newline" -> (row + 1) * TEXT_COLS
       [] ch = "return" -> row * TEXT_COLS
       [] ch = "tab" -> place + TabStop
       [] ch = "backspace" -> place - 1
       [] OTHER -> place + 1

\* A '\b' in the upper left corner moves the screen down the paper as well.
WriteOnPaper(ch) ==
  LET row == OnPaper(ch) \div TEXT_COLS
  IN /\ paper' = IF ch \in Printable THEN [paper EXCEPT ![place] = ch] ELSE paper
     /\ place' = IF cell = 0 /\ ch = "backspace" THEN place ELSE OnPaper(ch)
     /\ top' = IF cell = 0 /\ ch = "backspace" THEN top + 1
               ELSE IF row >= top + TEXT_ROWS THEN row - TEXT_ROWS + 1 ELSE top

\* Mutant: the screen scrolls one character late.
cputcharLate(ch) ==
  LET shown == IF ch \in Printable THEN [vga_memory EXCEPT ![cell] = ch] ELSE vga_memory
      offset == Advanced(ch)
  IN /\ vga_memory' = IF offset <= 2 * Cells THEN shown
                    ELSE [i \in 0..(Cells - 1) |->
                            IF i + TEXT_COLS < Cells THEN shown[i + TEXT_COLS] ELSE Blank]
     /\ cell' = (IF offset <= 2 * Cells THEN offset ELSE offset - 2 * TEXT_COLS) \div 2

\* cputchar_a and putchar_xy: the character, then one row up if the cursor
\* is past the last one.
cputchar(ch) ==
  LET shown == IF ch \in Printable THEN [vga_memory EXCEPT ![cell] = ch] ELSE vga_memory
      offset == Advanced(ch)
  IN /\ vga_memory' = IF offset < 2 * Cells THEN shown
                    ELSE [i \in 0..(Cells - 1) |->
                            IF i + TEXT_COLS < Cells THEN shown[i + TEXT_COLS] ELSE Blank]
     /\ cell' = (IF offset < 2 * Cells THEN offset ELSE offset - 2 * TEXT_COLS) \div 2

\* A character of the text.  Off the screen nothing is shown and the cursor
\* stays, whatever the character.
Shown(ch) ==
  IF getcursor < 2 * Cells
    THEN cputchar(ch)
    ELSE cell' = getcursor \div 2 /\ UNCHANGED vga_memory

(***************************************************************************)
(* Sequences.                                                              *)
(***************************************************************************)

ansi_param(n) == IF n <= 0 THEN 1 ELSE n
AtMost(n, limit) == IF n > limit THEN limit ELSE n
ansi_clamp_x(x) == AtMost(IF x < 0 THEN 0 ELSE x, TEXT_COLS - 1)
ansi_clamp_y(y) == AtMost(IF y < 0 THEN 0 ELSE y, TEXT_ROWS - 1)

\* The moves A to F and G.
get_csi_cursor(final, n) ==
  LET k == ansi_param(n)
      y == CASE final \in {"A", "F"} -> wherey - k
             [] final \in {"B", "E"} -> wherey + k
             [] OTHER -> wherey
      x == CASE final = "C" -> wherex + k
             [] final = "D" -> wherex - k
             [] final \in {"E", "F"} -> 0
             [] final = "G" -> k - 1
             [] OTHER -> wherex
  IN gotoxy(ansi_clamp_x(x), ansi_clamp_y(y))

\* H and f: the last parameter is the column, counted from 0 here, the one
\* before it the row; both are unsigned chars.
get_sgr_cursor(sgr, csi) ==
  IF sgr % 256 # 0 THEN gotoxy(sgr % 256, csi % 256)
  ELSE cell' = IF csi % 256 = 0 THEN 0 ELSE cell

\* K: the cells of the line it blanks, all of them off the screen if the
\* cursor is.
get_csi_erase_line(mode) ==
  LET erased == {i \in 0..(TEXT_COLS - 1) : \/ mode = 0 /\ i >= wherex
                                            \/ mode = 1 /\ i <= wherex
                                            \/ mode = 2}
      Erase(f, first) == [i \in DOMAIN f |-> IF i - first \in erased THEN Blank ELSE f[i]]
  IN /\ vga_memory' = Erase(vga_memory, wherey * TEXT_COLS)
     /\ paper' = IF OnScreen(cell) THEN Erase(paper, (place \div TEXT_COLS) * TEXT_COLS)
                   ELSE paper
     /\ UNCHANGED <<cell, saved, top, place>>

\* J: only parameter 2 does anything, and it leaves the cursor.
clearscreen ==
  /\ vga_memory' = [i \in DOMAIN vga_memory |-> Blank]
  /\ paper' = [i \in DOMAIN paper |-> IF i >= top * TEXT_COLS THEN Blank ELSE paper[i]]
  /\ UNCHANGED <<cell, saved, top, place>>

SaveCursor ==
  /\ saved' = [x |-> wherex, y |-> wherey]
  /\ UNCHANGED <<cell, vga_memory, paperVars>>

RestoreCursor ==
  /\ gotoxy(saved.x, saved.y)
  /\ PaperFollows
  /\ UNCHANGED <<saved, vga_memory>>

\* What a complete sequence does; its last parameter is sgr, the one before csi.
Sequence(final, sgr, csi) ==
  CASE final \in Moves ->
         get_csi_cursor(final, sgr) /\ PaperFollows /\ UNCHANGED <<saved, vga_memory>>
    [] final \in {"H", "f"} ->
         get_sgr_cursor(sgr, csi) /\ PaperFollows /\ UNCHANGED <<saved, vga_memory>>
    [] final = "K" -> get_csi_erase_line(sgr)
    [] final = "J" /\ sgr % 256 = 2 -> clearscreen
    [] final = "s" /\ sgr % 256 = 0 /\ csi % 256 = 0 -> SaveCursor
    [] final = "u" /\ sgr % 256 = 0 /\ csi % 256 = 0 -> RestoreCursor
    [] OTHER -> UNCHANGED <<cursorVars, paperVars>>

(***************************************************************************)
(* The calls.                                                              *)
(***************************************************************************)

\* tprint, or tprintl with its count.
Call ==
  /\ at = "idle"
  /\ at' = "text"
  /\ print_status' = 0
  /\ printk' \in BOOLEAN
  /\ l' \in (IF printk' THEN {0} ELSE 1..MaxCount)
  /\ deaf' = FALSE
  /\ UNCHANGED <<cursorVars, private_code, number_code, csi_code, paperVars>>

\* The call ends: at the end of the text, or with the count used up.  (The
\* text may be shorter than the count.)
CallReturns ==
  /\ at = "text"
  /\ at' = "idle"
  /\ print_status' = 0
  /\ UNCHANGED <<cursorVars, l, printk, private_code, number_code, csi_code, paperVars, deaf>>

More == at = "text" /\ (printk \/ l > 0)
Counted == l' = IF printk THEN l ELSE l - 1

\* A character that starts no sequence.
Text(ch) ==
  /\ More
  /\ top < MaxScrolls
  /\ Counted
  /\ IF print_status = 0 THEN Shown(ch) ELSE UNCHANGED <<cell, vga_memory>>
  /\ IF OnScreen(cell) /\ ~deaf THEN WriteOnPaper(ch) ELSE UNCHANGED paperVars
  /\ UNCHANGED <<saved, at, print_status, printk, private_code, number_code, csi_code, deaf>>

\* ESC: only its own byte counts, none of the sequence that follows.
Escape ==
  /\ More
  /\ Counted
  /\ at' = "escape"
  /\ print_status' = IF printk THEN 0 ELSE 1
  /\ private_code' = 0 /\ number_code' = 0 /\ csi_code' = 0
  /\ UNCHANGED <<cursorVars, printk, paperVars, deaf>>

\* After ESC, "[" starts the parameters, "7" and "8" are complete and skip a
\* character unread, and anything else is skipped itself.
AfterEscape(ch) ==
  /\ at = "escape"
  /\ at' = CASE ch = "[" -> "bracket" [] ch \in {"7", "8"} -> "skip" [] OTHER -> "text"
  /\ print_status' = IF ch \in {"7", "8"} THEN 0 ELSE print_status
  /\ CASE ch = "7" -> SaveCursor
       [] ch = "8" -> RestoreCursor
       [] OTHER -> UNCHANGED <<cursorVars, paperVars>>
  /\ deaf' = (~printk /\ ch \notin {"7", "8"})
  /\ UNCHANGED <<l, printk, private_code, number_code, csi_code>>

Skip ==
  /\ at = "skip"
  /\ at' = "text"
  /\ UNCHANGED <<cursorVars, print_status, l, printk, private_code, number_code,
                 csi_code, paperVars, deaf>>

\* "?" and ";" before the first number, a number, and the ";" that ends it.
Parameter ==
  /\ \/ at = "bracket" /\ at' = "question" /\ private_code' = 1
        /\ UNCHANGED <<number_code, csi_code>>
     \/ at \in {"bracket", "question"} /\ at' = "semicolon"
        /\ UNCHANGED <<private_code, number_code, csi_code>>
     \/ at \in {"bracket", "question", "semicolon", "next"} /\ at' = "number"
        /\ number_code' \in Numbers
        /\ UNCHANGED <<private_code, csi_code>>
     \/ at = "number" /\ at' = "next"
        /\ csi_code' = number_code /\ number_code' = 0
        /\ UNCHANGED private_code
  /\ UNCHANGED <<cursorVars, print_status, l, printk, paperVars, deaf>>

\* tprintl shows text again after a sequence it knows, other than l and h.
Finished(final) == IF final \in {"l", "h", "other"} THEN print_status ELSE 0

Final(final) ==
  /\ at \in {"bracket", "question", "semicolon", "number", "next"}
  /\ at' = "text"
  /\ print_status' = Finished(final)
  /\ deaf' = (~printk /\ final \in {"l", "h", "other"})
  /\ Sequence(final, number_code, csi_code)
  /\ private_code' = 0 /\ number_code' = 0 /\ csi_code' = 0
  /\ UNCHANGED <<l, printk>>

ConNext ==
  \/ Call \/ CallReturns \/ Escape \/ Skip \/ Parameter
  \/ \E ch \in Printable \cup Controls : Text(ch)
  \/ \E ch \in {"[", "7", "8", "other"} : AfterEscape(ch)
  \/ \E final \in Finals : Final(final)

ConSpec == ConInit /\ [][ConNext]_conVars

(***************************************************************************)
(* Properties.                                                             *)
(***************************************************************************)

\* The screen is a window on the text printed: scrolling moves it by whole
\* rows, loses and repeats nothing, and every character goes where the text
\* before it and the sequences put it; sequences are no text and swallow none,
\* unless the write before had one that tprintl does not act on.  Characters
\* sent while the cursor is off the screen are lost.
ScreenShowsPaper ==
  /\ vga_memory = [i \in 0..(Cells - 1) |-> paper[top * TEXT_COLS + i]]
  /\ OnScreen(cell) => place = top * TEXT_COLS + cell

\* Text, tabs, rub-outs and moves keep the cursor on the screen, and a move
\* brings it back there: it goes to a place outside only by an absolute position
\* outside, by a restored one, or by a '\b' in the upper left corner.
CursorStaysOnScreen ==
  [][cell' # cell /\ ~OnScreen(cell') =>
       \/ \E final \in {"H", "f"} :
            Final(final) /\ (number_code >= TEXT_COLS \/ csi_code >= TEXT_ROWS)
       \/ saved.y >= TEXT_ROWS /\ gotoxy(saved.x, saved.y)
       \/ cell = 0 /\ Text("backspace")]_conVars

\* The screen shows what was printed, and the cursor where the next character goes.
ConsoleIsSound == []ScreenShowsPaper /\ CursorStaysOnScreen

=============================================================================
