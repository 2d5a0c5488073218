------------------------------- MODULE Windows -------------------------------
(***************************************************************************)
(* Windows and their layers: kernel/src/graphic/window.rs. The operations  *)
(* are given on values here; Screen adds the locks under which they run.   *)
(***************************************************************************)
EXTENDS FrameBuffer

\* A window without a transparent colour has None.
CONSTANT None

new_canvas(format, w, h) ==
  [fore |-> new_buffer(format, w, h), back |-> new_buffer(format, w, h), updated |-> FALSE]
new_window(format, w, h) ==
  [pos |-> [x |-> 0, y |-> 0], transparent |-> None] @@ new_canvas(format, w, h)
set_transparent_color(win, color) == [win EXCEPT !.transparent = color]

\* draw_to copies all pixels, or all but the transparent ones.
draw_to(win, fb) ==
  IF win.transparent = None THEN copy(fb, win.pos, win.fore)
  ELSE LET r == intersection(area(fb), from_wh(win.pos.x, win.pos.y, win.fore.w, win.fore.h))
           pixel(x, y) == color_at(win.fore, x - win.pos.x, y - win.pos.y)
       IN  IF r = NoRect THEN fb
           ELSE write_where(fb, r, LAMBDA x, y : pixel(x, y) # win.transparent, pixel)

-----------------------------------------------------------------------------
\* LayeredWindowManager: layer_stack from the bottom to the top.
new_manager(buffer) ==
  [layers |-> <<>>, layer_stack |-> <<>>, shadow |-> new_buffer(buffer.format, buffer.w, buffer.h), buffer |-> buffer]

hide(stack, id) == SelectSeq(stack, LAMBDA lid : lid # id)

up_down(stack, id, new_height) ==
  IF new_height < 0 THEN hide(stack, id)
  ELSE LET others == hide(stack, id)
       IN  InsertAt(others, Smaller(new_height, Len(others)) + 1, id)

-----------------------------------------------------------------------------
\* Reference: the topmost of the drawn windows that has a pixel at (x, y), or else the old colour.
Covers(win, x, y) ==
  LET dx == x - win.pos.x  dy == y - win.pos.y
  IN  /\ dx \in 0 .. win.fore.w - 1 /\ dy \in 0 .. win.fore.h - 1
      /\ color_at(win.fore, dx, dy) # win.transparent
Composed(drawn, x, y, old) ==
  LET over == {i \in DOMAIN drawn : Covers(drawn[i], x, y)}
  IN  IF over = {} THEN old
      ELSE LET win == drawn[CHOOSE i \in over : \A j \in over : j <= i]
           IN  color_at(win.fore, x - win.pos.x, y - win.pos.y)
=============================================================================
