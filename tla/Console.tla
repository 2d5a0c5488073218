------------------------------- MODULE Console -------------------------------
(***************************************************************************)
(* Console of kernel/src/console.rs: the text buffer, the cursor, and the  *)
(* pixels written along with them. A console is given with the back buffer *)
(* of its window, con.back, which put_string works on under its lock.      *)
(***************************************************************************)
EXTENDS FrameBuffer

CONSTANTS
  CHAR_W, CHAR_H    \* the size of a character, 8 by 16 in the kernel

ASSUME ConsoleAssumption == CHAR_W \in Nat \ {0} /\ CHAR_H \in Nat \ {0}

bg_color == <<"con", "bg", "">>
Newline == "n"

new_console(back) ==
  LET n_cols == back.w \div CHAR_W  n_rows == back.h \div CHAR_H
  IN  [n_cols |-> n_cols, n_rows |-> n_rows, cursor_row |-> 0, cursor_col |-> 0,
       buffer |-> [r \in 0 .. n_rows - 1 |-> [c \in 0 .. n_cols - 1 |-> "0"]],
       back |-> fill_rect(back, from_wh(0, 0, CHAR_W * n_cols, CHAR_H * n_rows), bg_color)]

cell(row, col) == from_wh(CHAR_W * col, CHAR_H * row, CHAR_W, CHAR_H)

\* The glyph is drawn over what is there: on anything but background it cannot be read.
glyph(old, c) == IF old = bg_color THEN <<"con", c, "">> ELSE <<"con", "smudge", "">>
write_ascii(fb, row, col, c) ==
  write_where(fb, cell(row, col), LAMBDA x, y : TRUE, LAMBDA x, y : glyph(color_at(fb, x, y), c))

scroll_rect(con) == from_points(0, CHAR_H, CHAR_W * con.n_cols, CHAR_H * con.n_rows)

\* The swaps of buffer's rows move the first row to the end, where it is filled with 0.
scroll_up(con) ==
  LET last == con.n_rows - 1
  IN  [con EXCEPT !.back = fill_rect(move_rect(@, [x |-> 0, y |-> 0], scroll_rect(con)),
                                     from_wh(0, CHAR_H * last, CHAR_W * con.n_cols, CHAR_H), bg_color),
                  !.buffer = [r \in DOMAIN @ |-> IF r = last THEN [c \in 0 .. con.n_cols - 1 |-> "0"] ELSE @[r + 1]]]

new_line(con) ==
  IF con.cursor_row < con.n_rows - 1 THEN [con EXCEPT !.cursor_col = 0, !.cursor_row = @ + 1]
  ELSE [scroll_up(con) EXCEPT !.cursor_col = 0]

\* One character of put_string. A newline is written too, into the line it has begun.
put_char(con, ch) ==
  LET c == IF ch = Newline THEN new_line(con) ELSE con
      d == [c EXCEPT !.back = write_ascii(@, c.cursor_row, c.cursor_col, ch),
                     !.buffer[c.cursor_row][c.cursor_col] = ch, !.cursor_col = @ + 1]
  IN  IF d.cursor_col = d.n_cols THEN new_line(d) ELSE d

put_string(con, str) == FoldLeft(put_char, con, str)

-----------------------------------------------------------------------------
\* What the canvas should look like: the characters of the text buffer.
Shows(con, fb) ==
  \A row \in 0 .. con.n_rows - 1, col \in 0 .. con.n_cols - 1 :
    LET c == con.buffer[row][col]
    IN  \A x \in cell(row, col).x1 .. cell(row, col).x2 - 1, y \in cell(row, col).y1 .. cell(row, col).y2 - 1 :
          color_at(fb, x, y) = IF c = "0" THEN bg_color ELSE <<"con", c, "">>
=============================================================================
