--------------------------------- MODULE Vga ---------------------------------
(***************************************************************************)
(* The text screen, after devices/vga.c of "group projects", beside a      *)
(* printer that never scrolls: paper is every line printed since the last  *)
(* form feed, the last one being the current line.                         *)
(***************************************************************************)
EXTENDS Integers, Sequences

CONSTANTS ROW_CNT, COL_CNT, TabStop,
    Glyph,      \* printable characters
    MaxText     \* bound: characters written

ASSUME VgaAssumption ==
    ROW_CNT \in Nat \ {0} /\ COL_CNT \in Nat \ {0} /\ TabStop \in Nat \ {0} /\ MaxText \in Nat

VARIABLES fb, cx, cy, inited,
    cursor,     \* the hardware cursor
    paper, text \* the printer's lines; characters written

vgaVars == <<fb, cx, cy, inited, cursor, paper, text>>

BlankCell == " "
BlankRow == [x \in 0 .. COL_CNT - 1 |-> BlankCell]
Control == {"newline", "formfeed", "backspace", "return", "tab"}

\* The loader leaves the cursor anywhere; find_cursor reads it on first use.
VgaInit ==
    /\ fb = [y \in 0 .. ROW_CNT - 1 |-> BlankRow]
    /\ cx = 0 /\ cy = 0 /\ inited = FALSE
    /\ cursor \in 0 .. ROW_CNT * COL_CNT - 1
    /\ paper = [i \in 1 .. (cursor \div COL_CNT) + 1 |-> BlankRow]
    /\ text = 0

\* The screen as a value: what vga_putc works on.
Screen(f, x, y) == [fb |-> f, cx |-> x, cy |-> y]

\* newline: on the last row the screen scrolls.
newline(s) ==
    IF s.cy + 1 < ROW_CNT THEN Screen(s.fb, 0, s.cy + 1)
    ELSE Screen([y \in 0 .. ROW_CNT - 1 |-> IF y < ROW_CNT - 1 THEN s.fb[y + 1] ELSE BlankRow],
                0, ROW_CNT - 1)

cls == Screen([y \in 0 .. ROW_CNT - 1 |-> BlankRow], 0, 0)
RoundUp(x, step) == ((x + step - 1) \div step) * step

\* Mutant of Put: a full row is not noticed.
PutOver(s, c) ==
    [s EXCEPT !.fb = [@ EXCEPT ![s.cy] = [@ EXCEPT ![s.cx] = c]], !.cx = @ + 1]

\* The cases of vga_putc; the bell changes nothing here.
Put(s, c) ==
    CASE c = "newline" -> newline(s)
      [] c = "formfeed" -> cls
      [] c = "backspace" -> [s EXCEPT !.cx = IF @ > 0 THEN @ - 1 ELSE @]
      [] c = "return" -> [s EXCEPT !.cx = 0]
      [] c = "tab" -> LET x == RoundUp(s.cx + 1, TabStop)
                      IN  IF x >= COL_CNT THEN newline(s) ELSE [s EXCEPT !.cx = x]
      [] OTHER -> LET t == [s EXCEPT !.fb = [@ EXCEPT ![s.cy] = [@ EXCEPT ![s.cx] = c]], !.cx = @ + 1]
                  IN  IF t.cx >= COL_CNT THEN newline(t) ELSE t

\* The same on paper, in column x.
Line(x, c) == [paper EXCEPT ![Len(paper)] = [@ EXCEPT ![x] = c]]
Wraps(x, c) ==
    \/ c = "newline"
    \/ c = "tab" /\ RoundUp(x + 1, TabStop) >= COL_CNT
    \/ c \in Glyph /\ x + 1 = COL_CNT
OnPaper(x, c) ==
    LET inked == IF c \in Glyph THEN Line(x, c) ELSE paper
    IN  IF c = "formfeed" THEN <<BlankRow>>
        ELSE IF Wraps(x, c) THEN Append(inked, BlankRow) ELSE inked

\* move_cursor.
CursorPort(s) == s.cx + COL_CNT * s.cy

\* vga_putc: init, the character, move_cursor.
VgaPutc(c) ==
    LET x == IF inited THEN cx ELSE cursor % COL_CNT
        y == IF inited THEN cy ELSE cursor \div COL_CNT
        s == Put(Screen(fb, x, y), c)
    IN  /\ text < MaxText /\ text' = text + 1
        /\ inited' = TRUE
        /\ fb' = s.fb /\ cx' = s.cx /\ cy' = s.cy
        /\ cursor' = CursorPort(s)
        /\ paper' = OnPaper(x, c)

VgaNext == \E c \in Glyph \cup Control : VgaPutc(c)

-----------------------------------------------------------------------------
\* The cursor never leaves the screen, so that the frame buffer is never
\* written outside, and the hardware shows it where the driver has it.
CursorOnScreen ==
    /\ cx \in 0 .. COL_CNT - 1 /\ cy \in 0 .. ROW_CNT - 1
    /\ inited => cursor = cx + COL_CNT * cy

\* The screen shows the end of the paper: nothing that scrolls is lost,
\* doubled or left behind, whatever the order of control characters.
ShowsPaperEnd ==
    LET gone == IF Len(paper) > ROW_CNT THEN Len(paper) - ROW_CNT ELSE 0
    IN  \A y \in 0 .. ROW_CNT - 1 :
          fb[y] = IF gone + y + 1 <= Len(paper) THEN paper[gone + y + 1] ELSE BlankRow

\* vga.c: the cursor is on the screen, which shows the end of the paper.
ScreenRight == CursorOnScreen /\ ShowsPaperEnd
=============================================================================
