---------------------------- MODULE TextTerminal ----------------------------
(***************************************************************************)
(* UnlockedTextTerminal, the TextLines it keeps in a ring buffer and the   *)
(* display it draws them on.  TextTerminal calls it under an InterruptLock,*)
(* so a call is a function of the terminal t:                              *)
(*   lines    the ring buffer lines_, which is always full                 *)
(*   x, y     cursor_, an index into line y; y = HEIGHT is below the last  *)
(*   screen   g_vga_text_buffer, the cells of the display row after row    *)
(*   shown    the offset of the cell in which it shows its cursor          *)
(*   failed   an assertion has failed                                      *)
(* A line is a sequence of at most WIDTH characters, as a RingBuffer is    *)
(* (RingBuffer implements Deque).  All characters but TAB are printable.   *)
(***************************************************************************)
EXTENDS Integers, SequencesExt

CONSTANTS WIDTH, HEIGHT, TAB_WIDTH

ASSUME TerminalAssumption ==
    /\ WIDTH \in Nat \ {0} /\ HEIGHT \in Nat \ {0} /\ TAB_WIDTH \in Nat \ {0}
    /\ WIDTH % TAB_WIDTH = 0

NEWLINE == "newline"
BACKSPACE == "backspace"
TAB == "tab"
SPACE == " "

Rows == 0 .. HEIGHT - 1
Columns == 0 .. WIDTH - 1

Cells == 0 .. WIDTH * HEIGHT - 1

Fail(t) == [t EXCEPT !.failed = TRUE]

-----------------------------------------------------------------------------
(***************************************************************************)
(* VGATextDisplayDevice.                                                   *)
(***************************************************************************)
\* draw_char() from one column to another; what is off the display is dropped.
Painted(screen, row, from, to, ch) ==
    [i \in Cells |->
        LET col == i - row * WIDTH
        IN  IF col \in Columns /\ from <= col /\ col < to THEN ch ELSE screen[i]]

get_char(screen, row, col) ==
    IF row \in Rows /\ col \in Columns THEN screen[row * WIDTH + col] ELSE SPACE

\* The two bytes of the offset, an unsigned short, that the display is sent.  A
\* column off the row is one in a row below.
set_cursor_position(t, row, col) == [t EXCEPT !.shown = (row * WIDTH + col) % 2^16]

\* The boot loader's text is erased, whatever it is.
clear(t) ==
    LET ClearRow(screen, row) == Painted(screen, row, 0, WIDTH, SPACE)
    IN  set_cursor_position(
            [t EXCEPT !.screen = FoldLeft(ClearRow, @, [i \in 1 .. HEIGHT |-> i - 1])], 0, 0)

NewTerminal(screen) ==
    [lines |-> [i \in 1 .. HEIGHT |-> << >>], x |-> 0, y |-> 0,
     screen |-> screen, shown |-> 0, failed |-> FALSE]

-----------------------------------------------------------------------------
(***************************************************************************)
(* TextLine.                                                               *)
(***************************************************************************)
step_for_char(col, ch) == IF ch = TAB THEN TAB_WIDTH - (col % TAB_WIDTH) ELSE 1

get_physical_column_for_index(line, index) ==
    FoldLeft(LAMBDA col, ch : col + step_for_char(col, ch), 0, SubSeq(line, 1, index))

\* One character of draw(), which goes on in the next row at the last column.
DrawNext(d, ch) ==
    LET end == d.col + step_for_char(d.col, ch)
    IN  [screen |-> Painted(d.screen, d.row, d.col, end, IF ch = TAB THEN SPACE ELSE ch),
         col |-> IF end >= WIDTH THEN 0 ELSE end,
         row |-> IF end >= WIDTH THEN d.row + 1 ELSE d.row]

\* draw() clears the rest of the row it ends in.
draw(line, row, screen) ==
    LET d == FoldLeft(DrawNext, [screen |-> screen, col |-> 0, row |-> row], line)
    IN  Painted(d.screen, d.row, d.col, WIDTH, SPACE)

\* A character for which there is no room is dropped, an empty line is left
\* alone.  The ring buffer asserts that there is such an index.
insert(line, index, ch) ==
    IF Len(line) = WIDTH THEN line ELSE InsertAt(line, index + 1, ch)

remove(line, index) == IF line = << >> THEN line ELSE RemoveAt(line, index + 1)

-----------------------------------------------------------------------------
(***************************************************************************)
(* UnlockedTextTerminal.                                                   *)
(***************************************************************************)
\* lines_.at(y): the element below the last one is the first.
Slot(y) == (y % HEIGHT) + 1

LineAt(t, y) == t.lines[Slot(y)]

\* index_at() asserts that y is at most the number of lines.
set_display_cursor_position(t) ==
    IF t.y > HEIGHT THEN Fail(t)
    ELSE set_cursor_position(t, t.y, get_physical_column_for_index(LineAt(t, t.y), t.x))

redraw_line(t, y) == [t EXCEPT !.screen = draw(LineAt(t, y), y, @)]

scroll_one_line(t) ==
    FoldLeft(redraw_line, [t EXCEPT !.lines = Append(Tail(@), << >>)],
             [i \in 1 .. HEIGHT |-> i - 1])

move_cursor_for_newline(t) == [t EXCEPT !.x = 0, !.y = @ + 1]

advance_cursor_forward(t) ==
    set_display_cursor_position(
        IF t.x + 1 >= WIDTH THEN move_cursor_for_newline(t) ELSE [t EXCEPT !.x = @ + 1])

advance_cursor_backward(t) == IF t.x > 0 THEN [t EXCEPT !.x = @ - 1] ELSE t

insert_char(t, ch) ==
    IF t.x > Len(LineAt(t, t.y)) THEN Fail(t)
    ELSE redraw_line([t EXCEPT !.lines[Slot(t.y)] = insert(@, t.x, ch)], t.y)

put_normal_character(t, ch) ==
    LET scrolled == IF t.y >= HEIGHT THEN scroll_one_line([t EXCEPT !.y = HEIGHT - 1]) ELSE t
    IN  advance_cursor_forward(insert_char(scrolled, ch))

backspace(t) ==
    LET back == advance_cursor_backward(t)
        line == LineAt(t, t.y)
    IN  IF line # << >> /\ back.x >= Len(line) THEN Fail(t)
        ELSE redraw_line([back EXCEPT !.lines[Slot(t.y)] = remove(@, back.x)], t.y)

\* A terminal that has failed stays as it is.
putchar(t, ch) ==
    LET put == CASE ch = NEWLINE -> move_cursor_for_newline(t)
                 [] ch = BACKSPACE -> backspace(t)
                 [] OTHER -> put_normal_character(t, ch)
    IN  IF t.failed THEN t ELSE set_display_cursor_position(put)

puts(t, s) == FoldLeft(putchar, t, s)

move_cursor_left(t) == set_display_cursor_position(advance_cursor_backward(t))

get_line_width(t) == Len(LineAt(t, t.y))

move_cursor_right(t) ==
    set_display_cursor_position([t EXCEPT !.x = IF @ + 1 > get_line_width(t)
                                                THEN get_line_width(t) ELSE @ + 1])

move_cursor_to_end(t) == set_display_cursor_position([t EXCEPT !.x = get_line_width(t)])

=============================================================================
