------------------------------ MODULE Console -------------------------------
(***************************************************************************)
(* The console: Kernel::do_console_loop(), which reads lines with a        *)
(* LineEditor and echoes them, and the editor's getline(), one step per    *)
(* key that is pressed.  By then no other thread writes to the terminal.   *)
(***************************************************************************)
EXTENDS TextTerminal

CONSTANTS MAXPROMPT,
          prompt_,     \* ">"
          Greeting,    \* what the terminal is given before the first prompt
          Answer,      \* "Got: "
          Characters,  \* the characters that may be typed
          MaxHistory,  \* bound on the number of lines that are entered
          MaxSlips     \* bound on how far linear_cursor goes below 0

\* LineEditor::Line::CAPACITY.
LineCapacity == WIDTH - MAXPROMPT

ASSUME ConsoleAssumption ==
    Len(prompt_) <= MAXPROMPT /\ LineCapacity > 0 /\ MaxHistory \in Nat /\ MaxSlips \in Nat

VARIABLES terminal,
          user_input, stashed_user_input, linear_cursor, history_cursor,
          history_,
          slipped      \* history: linear_cursor has been below 0 in this getline()

inputVars == <<user_input, stashed_user_input, linear_cursor, history_cursor>>
vars == <<terminal, inputVars, history_, slipped>>

\* The beginning of getline().
Prompted(t) == puts(t, Append(prompt_, SPACE))

\* The display holds what the boot loader wrote.
BootScreen == [i \in Cells |-> "?"]

Init ==
    /\ terminal = Prompted(puts(clear(NewTerminal(BootScreen)), Greeting))
    /\ user_input = << >>
    /\ stashed_user_input = << >>
    /\ linear_cursor = 0
    /\ history_cursor = -1
    /\ history_ = << >>
    /\ slipped = FALSE

-----------------------------------------------------------------------------
(***************************************************************************)
(* The keys.                                                               *)
(***************************************************************************)
LeftArrow ==
    /\ linear_cursor > 0
    /\ linear_cursor' = linear_cursor - 1
    /\ terminal' = move_cursor_left(terminal)
    /\ UNCHANGED <<user_input, stashed_user_input, history_cursor, history_, slipped>>

RightArrow ==
    /\ linear_cursor < Len(user_input)
    /\ linear_cursor' = linear_cursor + 1
    /\ terminal' = move_cursor_right(terminal)
    /\ UNCHANGED <<user_input, stashed_user_input, history_cursor, history_, slipped>>

\* A faulty one, which does not go to the end of the line first.
Retyped_Mutant(new) ==
    puts(puts(terminal, [i \in 1 .. Len(user_input) |-> BACKSPACE]), new)

\* The terminal with the input erased and typed anew.
Retyped(new) ==
    puts(puts(move_cursor_to_end(terminal), [i \in 1 .. Len(user_input) |-> BACKSPACE]), new)

\* The input becomes a line of the history, or what was stashed.
Recall(cursor, stashed) ==
    LET new == IF cursor = -1 THEN stashed ELSE history_[cursor + 1]
    IN  /\ history_cursor' = cursor
        /\ terminal' = Retyped(new)
        /\ user_input' = new
        /\ linear_cursor' = Len(new)
        /\ UNCHANGED <<history_, slipped>>

DownArrow ==
    /\ history_cursor # -1
    /\ Recall(history_cursor - 1, stashed_user_input)
    /\ UNCHANGED stashed_user_input

UpArrow ==
    /\ history_cursor < Len(history_) - 1
    /\ stashed_user_input' = IF history_cursor = -1 THEN user_input ELSE stashed_user_input
    /\ Recall(history_cursor + 1, stashed_user_input)

\* At the beginning of the line the cursor goes below 0, further each time, and
\* the rest is skipped.
Backspace ==
    /\ user_input # << >>
    /\ linear_cursor > -MaxSlips
    /\ linear_cursor' = linear_cursor - 1
    /\ IF linear_cursor - 1 >= 0
       THEN /\ user_input' = RemoveAt(user_input, linear_cursor)
            /\ terminal' = putchar(terminal, BACKSPACE)
            /\ UNCHANGED slipped
       ELSE slipped' = TRUE /\ UNCHANGED <<user_input, terminal>>
    /\ UNCHANGED <<stashed_user_input, history_cursor, history_>>

\* insert() asserts that the index is not negative.
Type(ch) ==
    /\ Len(user_input) < LineCapacity
    /\ IF linear_cursor < 0
       THEN terminal' = Fail(terminal) /\ UNCHANGED <<user_input, linear_cursor>>
       ELSE /\ user_input' = InsertAt(user_input, linear_cursor + 1, ch)
            /\ linear_cursor' = linear_cursor + 1
            /\ terminal' = putchar(terminal, ch)
    /\ UNCHANGED <<stashed_user_input, history_cursor, history_, slipped>>

add_history(entry) == history_' = <<entry>> \o history_

\* getline() returns, the loop echoes the line and adds it to the history, and
\* getline() starts again.
Enter ==
    LET echoed == puts(terminal, <<NEWLINE>> \o Answer \o user_input \o <<NEWLINE>>)
    IN  /\ Len(history_) < MaxHistory
        /\ terminal' = Prompted(echoed)
        /\ IF echoed.failed
           THEN UNCHANGED <<inputVars, history_, slipped>>
           ELSE /\ user_input' = << >> /\ stashed_user_input' = << >>
                /\ linear_cursor' = 0 /\ history_cursor' = -1
                /\ add_history(user_input)
                /\ slipped' = FALSE

\* panic() never returns.
Halt == terminal.failed /\ UNCHANGED vars

Next ==
    \/ /\ ~terminal.failed
       /\ \/ LeftArrow \/ RightArrow \/ DownArrow \/ UpArrow \/ Backspace \/ Enter
          \/ \E ch \in Characters : Type(ch)
    \/ Halt

Spec == Init /\ [][Next]_vars

-----------------------------------------------------------------------------
(***************************************************************************)
(* Properties.                                                             *)
(***************************************************************************)
\* What getline() will return is what the terminal has on its line, after the
\* prompt, and the two cursors agree, whatever was recalled, erased and typed
\* over, until a backspace at the beginning of the line lets them slip.
EditorMirrored ==
    ~terminal.failed /\ ~slipped =>
        /\ LineAt(terminal, terminal.y) = prompt_ \o <<SPACE>> \o user_input
        /\ terminal.x = Len(prompt_) + 1 + linear_cursor

\* The first WIDTH columns of a line.
Rendered(line) ==
    LET alone == draw(line, 0, BootScreen) IN  [c \in Columns |-> get_char(alone, 0, c)]

\* Down to the cursor every row of the display shows its line, although lines
\* with tabs flow over the rows below them and redraw_line() never looks at
\* where draw() says the next line should be; and the cursor is shown at the
\* column of the character it is on.
DisplayShows ==
    ~terminal.failed =>
        /\ \A y \in 0 .. terminal.y :
              [c \in Columns |-> get_char(terminal.screen, y, c)] = Rendered(LineAt(terminal, y))
        /\ terminal.shown = terminal.y * WIDTH +
             get_physical_column_for_index(LineAt(terminal, terminal.y), terminal.x)

\* The console stops on an assertion in two cases only: a character is typed
\* after the cursor slipped, or an answer that fills its row to the last column
\* at the bottom of the display is followed by a newline, two rows below it.
StopsOnlyIf ==
    terminal.failed =>
        \/ linear_cursor < 0
        \/ terminal.y = HEIGHT + 1 /\ Len(Answer) + Len(user_input) = WIDTH

=============================================================================
