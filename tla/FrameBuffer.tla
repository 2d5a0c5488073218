----------------------------- MODULE FrameBuffer -----------------------------
(***************************************************************************)
(* Rectangles and pixel buffers: kernel/src/graphic/graphics.rs and        *)
(* frame_buffer.rs. A buffer is one array of pixels with a stride that may *)
(* exceed the width; a pixel is kept as the bytes its format makes of a    *)
(* colour. Below each operation that computes with indices stands what it  *)
(* means pixel by pixel.                                                   *)
(***************************************************************************)
EXTENDS Integers, Sequences, SequencesExt

\* Rectangles are half open.
from_points(x1, y1, x2, y2) == [x1 |-> x1, y1 |-> y1, x2 |-> x2, y2 |-> y2]
from_wh(x, y, w, h) == from_points(x, y, x + w, y + h)
move_relative(r, dx, dy) == from_points(r.x1 + dx, r.y1 + dy, r.x2 + dx, r.y2 + dy)
contained_by(r, other) ==
  other.x1 <= r.x1 /\ other.y1 <= r.y1 /\ r.x2 <= other.x2 /\ r.y2 <= other.y2

Larger(a, b) == IF a < b THEN b ELSE a
Smaller(a, b) == IF a < b THEN a ELSE b
NoRect == [none |-> TRUE]

intersection(r, other) ==
  LET x1 == Larger(r.x1, other.x1)  x2 == Smaller(r.x2, other.x2)
      y1 == Larger(r.y1, other.y1)  y2 == Smaller(r.y2, other.y2)
  IN  IF x1 >= x2 \/ y1 >= y2 THEN NoRect ELSE from_points(x1, y1, x2, y2)

clamp(p, max) == [x |-> Smaller(Larger(p.x, 0), max.x), y |-> Smaller(Larger(p.y, 0), max.y)]

-----------------------------------------------------------------------------
\* PixelFormat::write and raw_to_color; the order of the bytes is all that differs.
raw(format, color) == IF format = "BGR" THEN Reverse(color) ELSE color
raw_to_color(format, bytes) == IF format = "BGR" THEN Reverse(bytes) ELSE bytes

Black == <<"0", "0", "0">>

\* Vec of zeroes; the stride of a buffer in memory is its width.
new_buffer(format, w, h) ==
  [w |-> w, h |-> h, stride |-> w, format |-> format, data |-> [i \in 0 .. w * h - 1 |-> Black]]
from_raw(format, w, h, stride) ==
  [w |-> w, h |-> h, stride |-> stride, format |-> format,
   data |-> [i \in 0 .. stride * h - 1 |-> Black]]

to_index(fb, x, y) == y * fb.stride + x
area(fb) == from_wh(0, 0, fb.w, fb.h)

write(fb, x, y, color) == [fb EXCEPT !.data[to_index(fb, x, y)] = raw(fb.format, color)]
color_at(fb, x, y) == raw_to_color(fb.format, fb.data[to_index(fb, x, y)])

\* Writes of f(x, y) to the pixels of a rectangle that satisfy P.
write_where(fb, r, P(_, _), f(_, _)) ==
  [fb EXCEPT !.data = [i \in DOMAIN @ |->
     LET at == {p \in (r.x1 .. r.x2 - 1) \X (r.y1 .. r.y2 - 1) : to_index(fb, p[1], p[2]) = i /\ P(p[1], p[2])}
     IN  IF at = {} THEN @[i]
         ELSE LET p == CHOOSE p \in at : TRUE IN raw(fb.format, f(p[1], p[2]))]]
fill_rect(fb, r, color) == write_where(fb, r, LAMBDA x, y : TRUE, LAMBDA x, y : color)

\* Slices [to[k], to[k] + len) of the array become src[from[k] ...]; bytes are copied as they are.
copy_slices(data, src, ks, to(_), from(_), len) ==
  [i \in DOMAIN data |->
     LET k == {k \in ks : to(k) <= i /\ i < to(k) + len}
     IN  IF k = {} THEN data[i] ELSE LET j == CHOOSE j \in k : TRUE IN src[from(j) + i - to(j)]]

\* Wrong: the stride of the other buffer is used.
copy_stride(fb, pos, from) ==
  LET r == intersection(area(fb), from_wh(pos.x, pos.y, from.w, from.h))
      c == move_relative(r, -pos.x, -pos.y)
  IN  IF r = NoRect THEN fb
      ELSE [fb EXCEPT !.data =
              copy_slices(@, from.data, 0 .. r.y2 - r.y1 - 1,
                          LAMBDA k : to_index(from, r.x1, r.y1 + k),
                          LAMBDA k : to_index(from, c.x1, c.y1 + k), r.x2 - r.x1)]

copy(fb, pos, from) ==
  LET r == intersection(area(fb), from_wh(pos.x, pos.y, from.w, from.h))
      c == move_relative(r, -pos.x, -pos.y)
  IN  IF r = NoRect THEN fb
      ELSE [fb EXCEPT !.data =
              copy_slices(@, from.data, 0 .. r.y2 - r.y1 - 1,
                          LAMBDA k : to_index(fb, r.x1, r.y1 + k),
                          LAMBDA k : to_index(from, c.x1, c.y1 + k), r.x2 - r.x1)]

-----------------------------------------------------------------------------
\* One row of move_rect: copy_within has the effect of memmove.
move_row(fb, to, r, y) ==
  [fb EXCEPT !.data =
     copy_slices(@, @, {y}, LAMBDA k : to_index(fb, to.x, k + to.y),
                 LAMBDA k : to_index(fb, r.x1, k + r.y1), r.x2 - r.x1)]

\* Wrong: the rows go from the last to the first, and a row that moves up is copied again.
move_rect_down(fb, to, r) ==
  FoldLeft(LAMBDA b, y : move_row(b, to, r, y), fb, [i \in 1 .. r.y2 - r.y1 |-> r.y2 - r.y1 - i])

\* Rows in the order in which no row is overwritten before it is copied.
move_rect(fb, to, r) ==
  LET n == r.y2 - r.y1
  IN  FoldLeft(LAMBDA b, y : move_row(b, to, r, y), fb,
               [i \in 1 .. n |-> IF to.y <= r.y1 THEN i - 1 ELSE n - i])
=============================================================================
