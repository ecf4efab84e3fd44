-------------------------------- MODULE Terminal --------------------------------
(***************************************************************************)
(* The text screen: kernel/arch/x86_64/tty.c, putchar.c and print of       *)
(* printf.c.                                                               *)
(*                                                                         *)
(* A terminal is a record: the cells of VGA memory, terminal_row and       *)
(* terminal_column, and the position in the cursor registers, which are    *)
(* read back as the position to erase from and to break the line at.  The  *)
(* position is a uint16_t.  A store outside the screen is lost to it.      *)
(***************************************************************************)
EXTENDS Integers, Sequences, SequencesExt

CONSTANTS VGA_WIDTH, VGA_HEIGHT

ASSUME TerminalAssumption ==
  /\ VGA_WIDTH \in Nat /\ VGA_WIDTH >= 2
  /\ VGA_HEIGHT \in Nat /\ VGA_HEIGHT >= 3

BS == "BS"
WORD == 65536                       \* values of a uint16_t
Screen == 0 .. VGA_WIDTH * VGA_HEIGHT - 1
Blanks == [p \in Screen |-> " "]

\* v of x, where x is evaluated once.
With(x, v(_)) == CHOOSE y \in {v(z) : z \in {x}} : TRUE

\* The registers hold the position one row further on; get_cursor_position takes
\* the row off again.
update_cursor(t, x, y) ==
  [t EXCEPT !.row = y, !.column = x, !.position = (y * VGA_WIDTH + x) % WORD]

update_cursor_absolute(t, pos) == update_cursor(t, pos % VGA_WIDTH, pos \div VGA_WIDTH)

reverse_cursor(t) == update_cursor_absolute(t, (t.position - 1) % WORD)

terminal_putentryat(t, ch) ==
  LET p == t.row * VGA_WIDTH + t.column
  IN  IF p \in Screen THEN [t EXCEPT !.cells[p] = ch] ELSE t

terminal_scroll_line_down(t) ==
  update_cursor([t EXCEPT !.cells = [p \in Screen |-> IF p + VGA_WIDTH \in Screen
                                                      THEN t.cells[p + VGA_WIDTH] ELSE " "]],
                0, VGA_HEIGHT - 2)

\* The end of terminal_putchar: one column on, or the start of the next row.
Advance(t) ==
  IF t.column + 1 # VGA_WIDTH THEN [t EXCEPT !.column = @ + 1]
  ELSE IF t.row + 1 # VGA_HEIGHT - 1 THEN [t EXCEPT !.column = 0, !.row = @ + 1]
  ELSE terminal_scroll_line_down(t)

PutPlain(t, ch) == Advance(terminal_putentryat(t, ch))

NewLine(t) ==
  LET r == (t.position \div VGA_WIDTH + 1) % 256
  IN  IF r >= VGA_HEIGHT - 1 THEN [terminal_scroll_line_down(t) EXCEPT !.column = -1]
      ELSE update_cursor(t, -1, r)

\* Backspace that erases under the cursor.
EraseUnder(t) == reverse_cursor(terminal_putentryat(t, " "))

EraseLast(t) == reverse_cursor(terminal_putentryat(reverse_cursor(t), " "))

\* A tab is four blanks, and then one column more.
WriteBlanks(t) ==
  With(FoldLeft(PutPlain, t, <<" ", " ", " ", " ">>), LAMBDA u : update_cursor(u, u.column, u.row))

terminal_putchar(t, ch) ==
  CASE ch = "\n" -> Advance(NewLine(t))
    [] ch = BS -> Advance(EraseLast(t))
    [] ch = "\r" -> Advance(update_cursor(t, -1, (t.position \div VGA_WIDTH) % 256))
    [] ch = "\t" -> Advance(WriteBlanks(t))
    [] OTHER -> PutPlain(t, ch)

\* terminal_write of one character, which is how putchar calls it.
putchar(t, ch) == With(terminal_putchar(t, ch), LAMBDA u : update_cursor(u, u.column, u.row))

print(t, text) == FoldLeft(putchar, t, text)

\* terminal_clear leaves the cursor registers as they are.
terminal_initialize(t) == [t EXCEPT !.cells = Blanks, !.row = 0, !.column = 0]
==============================================================================
