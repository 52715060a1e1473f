------------------------------ MODULE Console -------------------------------
(***************************************************************************)
(* A terminal: tty_write of kernel/src/tty.c takes characters one by one,  *)
(* some of which belong to escape sequences, and printchar of graphics.c   *)
(* keeps the cursor that the kernel's threads and the keyboard interrupt   *)
(* share without a lock.  printchar is split at every access to the        *)
(* cursor; the parser takes a character in one step.  The interrupt runs   *)
(* to its end before the thread that it interrupted goes on; it echoes one *)
(* letter.                                                                 *)
(*                                                                         *)
(* Characters are the ones the code tells apart.  Numbers in a sequence    *)
(* are given as one token, colours are left out.                           *)
(***************************************************************************)
EXTENDS Integers

CONSTANTS
    Writers, Irq,          \* the writers; the one that is the interrupt
    ConsoleWidth, ConsoleHeight,
    Numbers,               \* the numbers that occur in escape sequences
    MaxChars               \* bound on the characters written

VARIABLES
    cursor_x, cursor_y,    \* of the graphics_context
    reading_escape, maybe_escape, esc_second, esc_x, esc_y,   \* of the tty
    saved_x, saved_y,
    consolePc,             \* where each writer is in printchar
    print_x, print_y,      \* its locals
    loaded,                \* the register of its increment or decrement
    chars,                 \* characters written
    glyph,                 \* history: the cell last given to render_char
    strayed,               \* history: a sequence or a tab has left the console
    overlapped             \* history: two threads have been in printchar at once

cursorVars == <<cursor_x, cursor_y>>
escapeVars == <<reading_escape, maybe_escape, esc_second, esc_x, esc_y, saved_x, saved_y>>
localVars == <<print_x, print_y, loaded>>
historyVars == <<glyph, strayed, overlapped>>
consoleVars == <<cursorVars, escapeVars, consolePc, localVars, chars, historyVars>>

Finals == {"H", "A", "B", "C", "D", "s", "u", "m"}
Chars == {"letter", "newline", "tab", "ESC", "[", ";"} \cup Finals

ASSUME ConsoleAssumption ==
    /\ Irq \in Writers /\ Numbers \subseteq Nat
    /\ ConsoleWidth \in Nat \ {0} /\ ConsoleHeight \in Nat \ {0}

\* cursor_y is an unsigned number: -1 is the greatest.
Greatest == 1000
Wrapped(n) == IF n < 0 THEN Greatest ELSE n

OnConsole(x, y) == x < ConsoleWidth /\ y < ConsoleHeight

Idle(w) == consolePc[w] = "idle"
CanPrint(w) == w = Irq \/ Idle(Irq)
Goto(w, l) == consolePc' = [consolePc EXCEPT ![w] = l]

-----------------------------------------------------------------------------
ConsoleInit ==
    /\ cursor_x = 0 /\ cursor_y = 0
    /\ reading_escape = FALSE /\ maybe_escape = FALSE /\ esc_second = FALSE
    /\ esc_x = 0 /\ esc_y = 0 /\ saved_x = 0 /\ saved_y = 0
    /\ consolePc = [w \in Writers |-> "idle"]
    /\ print_x = [w \in Writers |-> 0] /\ print_y = [w \in Writers |-> 0]
    /\ loaded = [w \in Writers |-> 0]
    /\ chars = 0 /\ glyph = <<0, 0>> /\ strayed = FALSE /\ overlapped = FALSE

\* tty_write takes the next character.
Takes(w) ==
    /\ Idle(w) /\ CanPrint(w) /\ chars < MaxChars /\ chars' = chars + 1

\* printchar is called: not in a sequence.
PrintCalled(w, l) ==
    /\ Takes(w) /\ ~reading_escape
    /\ Goto(w, l)
    /\ overlapped' = (overlapped \/ \E v \in Writers : w # Irq /\ ~Idle(v))
    /\ UNCHANGED <<cursorVars, escapeVars, localVars, glyph, strayed>>

EscapeStarts(w) ==
    /\ Takes(w)
    /\ reading_escape' = TRUE /\ maybe_escape' = TRUE /\ esc_second' = FALSE
    /\ esc_x' = 0 /\ esc_y' = 0
    /\ UNCHANGED <<cursorVars, saved_x, saved_y, consolePc, localVars, historyVars>>

\* Everything but the bracket is swallowed.
EscapeWaits(w, c) ==
    /\ Takes(w) /\ reading_escape /\ maybe_escape
    /\ maybe_escape' = (c # "[")
    /\ UNCHANGED <<reading_escape, esc_second, esc_x, esc_y, saved_x, saved_y,
                   cursorVars, consolePc, localVars, historyVars>>

InEscape(w) == Takes(w) /\ reading_escape /\ ~maybe_escape

EscapeNumber(w, n) ==
    /\ InEscape(w)
    /\ IF esc_second THEN esc_y' = n /\ UNCHANGED esc_x ELSE esc_x' = n /\ UNCHANGED esc_y
    /\ UNCHANGED <<reading_escape, maybe_escape, esc_second, saved_x, saved_y,
                   cursorVars, consolePc, localVars, historyVars>>

EscapeSecond(w) ==
    /\ InEscape(w) /\ esc_second' = TRUE
    /\ UNCHANGED <<reading_escape, maybe_escape, esc_x, esc_y, saved_x, saved_y,
                   cursorVars, consolePc, localVars, historyVars>>

Larger(a, b) == IF a > b THEN a ELSE b
Smaller(a, b) == IF a < b THEN a ELSE b

\* The cursor after the last character of a sequence: move_cursor,
\* cursor_up, cursor_down, cursor_right, cursor_left (by one, whatever
\* number was given).
CursorAfter(c) ==
    CASE c = "H" -> <<esc_x, esc_y>>
      [] c = "u" -> <<saved_x, saved_y>>
      [] c = "A" -> <<cursor_x, Larger(cursor_y, 1) - 1>>
      [] c = "B" -> <<cursor_x, Smaller(cursor_y + 1, ConsoleHeight)>>
      [] c = "C" -> <<Smaller(cursor_x + 1, ConsoleWidth), cursor_y>>
      [] c = "D" -> <<Larger(cursor_x, 1) - 1, cursor_y>>
      [] OTHER -> <<cursor_x, cursor_y>>

EscapeEnds(w, c) ==
    /\ InEscape(w) /\ reading_escape' = FALSE
    /\ cursor_x' = CursorAfter(c)[1] /\ cursor_y' = CursorAfter(c)[2]
    /\ IF c = "s" THEN saved_x' = cursor_x /\ saved_y' = cursor_y
       ELSE UNCHANGED <<saved_x, saved_y>>
    /\ strayed' = (strayed \/ ~OnConsole(cursor_x', cursor_y'))
    /\ UNCHANGED <<maybe_escape, esc_second, esc_x, esc_y, consolePc, localVars, glyph, overlapped>>

tty_write(w, c) ==
    \/ c = "letter" /\ PrintCalled(w, "clamp")
    \/ c = "newline" /\ PrintCalled(w, "return")
    \/ c = "tab" /\ PrintCalled(w, "tab")
    \/ c = "ESC" /\ EscapeStarts(w)
    \/ c # "ESC" /\ EscapeWaits(w, c)
    \/ c = ";" /\ EscapeSecond(w)
    \/ c \notin {";", "ESC"} /\ EscapeEnds(w, c)

-----------------------------------------------------------------------------
Step(w, l) == consolePc[w] = l /\ CanPrint(w) /\ UNCHANGED <<escapeVars, chars>>

\* '\n': the line is ended, the cursor goes down, and up again to scroll.
NewlineReturn(w) ==
    /\ Step(w, "return") /\ cursor_x' = 0 /\ loaded' = [loaded EXCEPT ![w] = cursor_y]
    /\ Goto(w, "down")
    /\ UNCHANGED <<cursor_y, print_x, print_y, historyVars>>

NewlineDown(w) ==
    /\ Step(w, "down") /\ cursor_y' = loaded[w] + 1
    /\ Goto(w, "test")
    /\ UNCHANGED <<cursor_x, localVars, historyVars>>

NewlineTest(w) ==
    /\ Step(w, "test") /\ loaded' = [loaded EXCEPT ![w] = cursor_y]
    /\ Goto(w, IF cursor_y >= ConsoleHeight THEN "up" ELSE "idle")
    /\ UNCHANGED <<cursorVars, print_x, print_y, historyVars>>

NewlineUp(w) ==
    /\ Step(w, "up") /\ cursor_y' = Wrapped(loaded[w] - 1)
    /\ Goto(w, "idle")
    /\ UNCHANGED <<cursor_x, localVars, historyVars>>

\* '\t': to the next multiple of four, which may be outside.
Tab(w) ==
    /\ Step(w, "tab") /\ cursor_x' = ((cursor_x + 4) \div 4) * 4
    /\ strayed' = (strayed \/ ~OnConsole(cursor_x', cursor_y))
    /\ Goto(w, "idle")
    /\ UNCHANGED <<cursor_y, localVars, glyph, overlapped>>

\* Any other character.
Clamp_y(w) ==
    /\ Step(w, "clamp")
    /\ cursor_y' = IF cursor_y >= ConsoleHeight THEN ConsoleHeight - 1 ELSE cursor_y
    /\ Goto(w, "save")
    /\ UNCHANGED <<cursor_x, localVars, historyVars>>

SavePosition(w) ==
    /\ Step(w, "save")
    /\ print_x' = [print_x EXCEPT ![w] = cursor_x] /\ print_y' = [print_y EXCEPT ![w] = cursor_y]
    /\ loaded' = [loaded EXCEPT ![w] = cursor_x]
    /\ Goto(w, "right")
    /\ UNCHANGED <<cursorVars, historyVars>>

Advance(w) ==
    /\ Step(w, "right") /\ cursor_x' = loaded[w] + 1
    /\ Goto(w, "wrap")
    /\ UNCHANGED <<cursor_y, localVars, historyVars>>

\* Mutant: the line is one column longer.
WrapLate(w) ==
    /\ Step(w, "wrap")
    /\ IF cursor_x > ConsoleWidth THEN cursor_x' = 0 /\ cursor_y' = cursor_y + 1
       ELSE UNCHANGED cursorVars
    /\ Goto(w, "render")
    /\ UNCHANGED <<localVars, historyVars>>

Wrap(w) ==
    /\ Step(w, "wrap")
    /\ IF cursor_x >= ConsoleWidth THEN cursor_x' = 0 /\ cursor_y' = cursor_y + 1
       ELSE UNCHANGED cursorVars
    /\ Goto(w, "render")
    /\ UNCHANGED <<localVars, historyVars>>

\* render_char clips a glyph that begins at the edge, one beyond it writes
\* outside the framebuffer.
render_char(w) ==
    /\ Step(w, "render") /\ glyph' = <<print_x[w], print_y[w]>>
    /\ print_x' = [print_x EXCEPT ![w] = 0] /\ print_y' = [print_y EXCEPT ![w] = 0]
    /\ loaded' = [loaded EXCEPT ![w] = 0]
    /\ Goto(w, "idle")
    /\ UNCHANGED <<cursorVars, strayed, overlapped>>

printchar(w) ==
    \/ NewlineReturn(w) \/ NewlineDown(w) \/ NewlineTest(w) \/ NewlineUp(w) \/ Tab(w)
    \/ Clamp_y(w) \/ SavePosition(w) \/ Advance(w) \/ Wrap(w) \/ render_char(w)

ConsoleNext ==
    \E w \in Writers :
        \/ printchar(w)
        \/ \E c \in (IF w = Irq THEN {"letter"} ELSE Chars) : tty_write(w, c)
        \/ \E n \in Numbers : w # Irq /\ EscapeNumber(w, n)

ConsoleSpec == ConsoleInit /\ [][ConsoleNext]_consoleVars

-----------------------------------------------------------------------------
(***************************************************************************)
(* No glyph is drawn outside the framebuffer: render_char is given a cell  *)
(* of the console or one just behind its edge, which it clips, although    *)
(* printchar advances the cursor before it draws and the keyboard          *)
(* interrupt may print between any two of its steps.  It takes a sequence  *)
(* or a tab that leaves the console, or two threads in printchar at the    *)
(* same time, to break it.                                                 *)
(***************************************************************************)
GlyphInside ==
    ~strayed /\ ~overlapped => glyph[1] <= ConsoleWidth /\ glyph[2] <= ConsoleHeight
=============================================================================
