------------------------------- MODULE Screen -------------------------------
(***************************************************************************)
(* The text console and the back buffer: gfx/tty.c and what of             *)
(* gfx/vesa_graphics.c the kernel calls.  A place in the back buffer is    *)
(* its offset in bytes.  How long a line is comes from the VBE mode, and   *)
(* from it how far pixels are apart; each is written as four bytes all the *)
(* same (tty.h:3 "assumes 32 bpp").  Windows have a module of their own;   *)
(* bitmaps have no caller.                                                 *)
(***************************************************************************)
EXTENDS Integers, Sequences, SequencesExt, FiniteSetsExt

CONSTANTS
  screen_width, screen_height,
  bytes_per_line,      \* the mode's pitch
  HIST_LENGTH,
  Newline,
  PosWord              \* how many values a uint32_t has

char_width  == 8
char_height == 12

ASSUME ScreenAssumption ==
  /\ screen_width \in Nat /\ screen_height \in Nat
  /\ screen_width >= 2 * char_width /\ screen_height >= char_height
  /\ bytes_per_line \in Nat
  /\ HIST_LENGTH \in Nat \ {0}
  /\ PosWord \in Nat /\ 2 * (screen_width + screen_height) < PosWord

VARIABLES
  history,             \* the characters before end_hist_idx
  mouse_pos_x, mouse_pos_y,
  frame                \* the back buffer: what cells show, how far each part wrote,
                       \* and (history) how many characters had been written

screenVars == <<history, mouse_pos_x, mouse_pos_y, frame>>

pixel_width == bytes_per_line \div screen_width
buffer_size == screen_width * screen_height * pixel_width

\* what is written of a pixel, whatever pixel_width is
PixelBytes == 4

Cols == screen_width \div char_width
Rows == screen_height \div char_height

\* vesa_graphics_init clears the back buffer
Blank == [cells |-> <<>>, text |-> 0, mouse |-> 0, seen |-> 0]

ScreenInit ==
  /\ history = <<>>
  /\ mouse_pos_x = screen_width \div 2 /\ mouse_pos_y = screen_height \div 2
  /\ frame = Blank

-----------------------------------------------------------------------------
(* The text.                                                               *)

\* mutant: the end of the history is not looked at
Stored_Unchecked(c) == Append(history, c)

Stored(c) == IF Len(history) >= HIST_LENGTH THEN history ELSE Append(history, c)

tty_write_char(c) == history' = Stored(c)

\* mutant: only the width is looked at
LineAllowed_Any(y) == TRUE

\* the guard of vesa_put_pixel
ColumnAllowed(x) == x <= screen_width
LineAllowed(y)   == y <= screen_height

\* the byte behind the last one that tty_draw_char writes at a cell
CharEnd(x, y) ==
  LET px == {p \in x * char_width .. (x + 1) * char_width - 1 : ColumnAllowed(p)}
      py == {p \in y * char_height .. (y + 1) * char_height - 1 : LineAllowed(p)}
  IN IF px = {} \/ py = {} THEN 0
     ELSE Max(px) * pixel_width + Max(py) * bytes_per_line + PixelBytes

\* the cells shown: a later character covers an earlier one
Covered(cells, x, y, c) ==
  [p \in DOMAIN cells \cup {<<x, y>>} |-> IF p = <<x, y>> THEN c ELSE cells[p]]

\* mutant: the line is one character too long
Wraps_Late(x) == x >= Cols

Wraps(x) == x + 1 >= Cols

(* One turn of the loop of tty_draw, from cell x, y.                       *)
DrawNext(pen, c) ==
  IF pen.stop THEN pen
  ELSE IF c = Newline THEN [pen EXCEPT !.x = 0, !.y = @ + 1]
  ELSE LET x == IF Wraps(pen.x) THEN 0 ELSE pen.x + 1
           y == IF Wraps(pen.x) THEN pen.y + 1 ELSE pen.y
       IN [x |-> x, y |-> y, stop |-> y >= Rows,
           cells |-> Covered(pen.cells, pen.x, pen.y, c),
           text |-> Max({pen.text, CharEnd(pen.x, pen.y)})]

PenAtStart == [x |-> 0, y |-> 0, stop |-> FALSE, cells |-> <<>>, text |-> 0]

\* where the pen is behind each character of s
Pen(s) ==
  LET pen[n \in 0 .. Len(s)] == IF n = 0 THEN PenAtStart ELSE DrawNext(pen[n - 1], s[n])
  IN pen

tty_draw == Pen(history)[Len(history)]

-----------------------------------------------------------------------------
(* The mouse.                                                              *)

Unsigned(n) == n % PosWord

\* mutant: the upper edge is not looked at
MovedY_NoEdge(dy) ==
  IF Unsigned(mouse_pos_y + dy) > 0 THEN Unsigned(mouse_pos_y - dy) ELSE mouse_pos_y

MovedX(dx) ==
  LET x == Unsigned(mouse_pos_x + dx) IN IF x < screen_width /\ x > 0 THEN x ELSE mouse_pos_x

(* A mouse counts upwards and the screen downwards; the second comparison  *)
(* looks at the sum all the same.                                          *)
MovedY(dy) ==
  LET y == Unsigned(mouse_pos_y - dy)
  IN IF y < screen_height /\ Unsigned(mouse_pos_y + dy) > 0 THEN y ELSE mouse_pos_y

vesa_mouse_packet(dx, dy) ==
  /\ mouse_pos_x' = MovedX(dx)
  /\ mouse_pos_y' = MovedY(dy)
  /\ UNCHANGED <<history, frame>>

\* draw_mouse inverts pixels 1 to 15 of 19 lines from the position on
MouseEnd ==
  IF mouse_pos_x < screen_width /\ mouse_pos_y < screen_height
  THEN mouse_pos_x * pixel_width + (mouse_pos_y + 18) * bytes_per_line + 15 * PixelBytes + 3
  ELSE 0

\* the byte behind the last one that vesa_clear_screen writes
ClearEnd == (screen_height - 1) * bytes_per_line + screen_width * PixelBytes

(* vesa_update_graphics: clear, the text, the mouse, and the copy of       *)
(* buffer_size bytes to the frame buffer.                                  *)
vesa_update_graphics ==
  LET drawn == tty_draw
  IN /\ frame' = [cells |-> drawn.cells, text |-> Max({drawn.text, ClearEnd}),
                  mouse |-> MouseEnd, seen |-> Len(history)]
     /\ UNCHANGED <<history, mouse_pos_x, mouse_pos_y>>
=============================================================================
