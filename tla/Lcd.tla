-------------------------------- MODULE Lcd ---------------------------------
(***************************************************************************)
(* The drawing functions (lcdapi.c and the end of lcd.c) as functions from *)
(* their arguments to the pixels they write, in order where the order      *)
(* matters, checked against what should be on the screen. A pixel is       *)
(* <<x, y>>. Glyphs are not drawn: every pixel of a cell is written, with  *)
(* the front or the back colour.                                           *)
(***************************************************************************)
EXTENDS Integers, Sequences, FiniteSets, FiniteSetsExt

CONSTANTS
  Width, Height,  \* tft_lcd: the size of the screen
  MaxRadius,      \* circles up to this radius
  Sizes,          \* heights of the fonts
  MaxNum          \* numbers below this one

ASSUME LcdConstants ==
  /\ {Width, Height, MaxRadius, MaxNum} \subseteq Nat \ {0}
  /\ Sizes \subseteq Nat \ {0}

Screen == (0 .. Width - 1) \X (0 .. Height - 1)

-----------------------------------------------------------------------------
(* lcd_draw_line for x1 <= x2 and y1 <= y2. Its differences are unsigned:  *)
(* for x1 > x2 or y1 > y2 distance is more than 2^31, the 16-bit t never   *)
(* exceeds it, and the function does not return (or, when distance + 1     *)
(* wraps to 0, it draws the first pixel only).                             *)

\* One turn of the loop, from s after the pixel at <<s.x, s.y>> is drawn.
LineStep(s, delta_x, delta_y, distance) ==
  LET xerr == s.xerr + delta_x
      yerr == s.yerr + delta_y
      stepx == xerr > distance
      stepy == yerr > distance
  IN [x |-> IF stepx THEN s.x + 1 ELSE s.x, xerr |-> IF stepx THEN xerr - distance ELSE xerr,
      y |-> IF stepy THEN s.y + 1 ELSE s.y, yerr |-> IF stepy THEN yerr - distance ELSE yerr]

\* Mutated form: one turn less.
TurnsShort(distance) == 0 .. distance

\* The values of t.
Turns(distance) == 0 .. distance + 1

\* The pixels, by t.
lcd_draw_line(x1, y1, x2, y2) ==
  LET distance == IF x2 - x1 > y2 - y1 THEN x2 - x1 ELSE y2 - y1
      at[t \in Turns(distance)] ==
        IF t = 0 THEN [x |-> x1, y |-> y1, xerr |-> 0, yerr |-> 0]
        ELSE LineStep(at[t - 1], x2 - x1, y2 - y1, distance)
  IN [t \in Turns(distance) |-> <<at[t].x, at[t].y>>]

-----------------------------------------------------------------------------
(* lcd_draw_circle around the origin *)

CircleStep(s) ==
  IF s.d < 0 THEN [x |-> s.x + 1, y |-> s.y, d |-> s.d + 2 * s.x + 3]
  ELSE [x |-> s.x + 1, y |-> s.y - 1, d |-> s.d + 2 * (s.x - s.y) + 5]

Octants(x, y) ==
  {<<x, y>>, <<y, x>>, <<-x, y>>, <<-y, x>>, <<-x, -y>>, <<-y, -x>>, <<x, -y>>, <<y, -x>>}

lcd_draw_circle(r) ==
  LET at[k \in 0 .. r] == IF k = 0 THEN [x |-> 0, y |-> r, d |-> 1 - r] ELSE CircleStep(at[k - 1])
      drawn == {k \in 0 .. r : \A j \in 0 .. k : at[j].y > at[j].x}
  IN UNION {Octants(at[k].x, at[k].y) : k \in drawn}

-----------------------------------------------------------------------------
(* lcd_show_char: a cell of size / 2 columns, each of whole bytes of the   *)
(* font. The loops go down a column and then to the next one.              *)

\* The two early returns: y after a pixel, x after a column.
OffScreen(x, y) == x >= Width \/ y >= Height

\* The pixels written. The k-th turn of the loops stands at column k \div size
\* and row k % size; the check of y comes before the end of the column is
\* noticed.
lcd_show_char(x, y, size) ==
  LET turns == 0 .. size * (size \div 2) - 1
      returns(k) ==
        \/ OffScreen(x, y + (k % size) + 1)
        \/ (k % size) = size - 1 /\ OffScreen(x + k \div size + 1, y)
      last == Min({k \in turns : returns(k)} \cup {Max(turns)})
  IN {<<x + k \div size, y + (k % size)>> : k \in 0 .. last}

-----------------------------------------------------------------------------
(* lcd_show_num: the characters in the len places, a digit or a blank *)

Blank == -1

lcd_pow(m, n) == m ^ n

Digit(num, len, t) == (num \div lcd_pow(10, len - t - 1)) % 10

\* enshow after place t.
Enshow(num, len, t) == \E u \in 0 .. t : u < len - 1 /\ Digit(num, len, u) # 0

lcd_show_num(num, len) ==
  [t \in 0 .. len - 1 |->
     IF t < len - 1 /\ ~Enshow(num, len, t) THEN Blank ELSE Digit(num, len, t)]

-----------------------------------------------------------------------------
(* What should be on the screen, for arguments of the given sets *)

Abs(i) == IF i < 0 THEN -i ELSE i

\* lcd_draw_line: the line goes from one end to the other without a gap and without a step
\* back, and is nowhere more than a pixel from the straight line.
LineRight(pixels) ==
  \A p, q \in pixels :
    p[1] <= q[1] /\ p[2] <= q[2] =>
      LET line == lcd_draw_line(p[1], p[2], q[1], q[2])
          distance == Max({q[1] - p[1], q[2] - p[2]})
          Off(pixel) == (pixel[1] - p[1]) * (q[2] - p[2]) - (pixel[2] - p[2]) * (q[1] - p[1])
      IN /\ line[0] = p /\ line[Max(DOMAIN line)] = q
         /\ \A t \in DOMAIN line \ {0} : {line[t][i] - line[t - 1][i] : i \in {1, 2}} \subseteq {0, 1}
         /\ \A t \in DOMAIN line : Abs(Off(line[t])) <= distance

\* lcd_draw_circle: every pixel is within half a pixel of the circle, and no
\* column is left out but the one of a diagonal pixel, which y > x skips.
CircleRight(radii) ==
  \A r \in radii :
    LET circle == lcd_draw_circle(r) IN
      /\ \A p \in circle : Abs(p[1] * p[1] + p[2] * p[2] - r * r) <= r
      /\ \A i \in 0 .. r : <<i - 1, i + 1>> \in circle \/ \E j \in 0 .. r : <<i, j>> \in circle

\* lcd_show_char: nothing is written outside the screen, and a cell that ends above the last
\* line is written whole.
CharRight(pixels) ==
  \A p \in pixels, size \in Sizes :
    LET written == lcd_show_char(p[1], p[2], size)
        cell == (p[1] .. p[1] + size \div 2 - 1) \X (p[2] .. p[2] + size - 1)
    IN /\ written \subseteq Screen \cap cell
       /\ p[2] + size < Height => written = cell \cap Screen

\* lcd_show_num: the places read as the number, blanks stand only in front of it, and there
\* is always a digit.
NumRight(numbers) ==
  \A num \in numbers, len \in 1 .. 4 :
    LET shown == lcd_show_num(num, len)
        digits == {t \in DOMAIN shown : shown[t] # Blank}
    IN /\ FoldSet(LAMBDA t, sum : sum + shown[t] * 10 ^ (len - 1 - t), 0, digits) = num % 10 ^ len
       /\ digits = Min(digits) .. len - 1
       /\ shown[Min(digits)] = 0 => digits = {len - 1}
=============================================================================
