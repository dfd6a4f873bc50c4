----------------------------- MODULE LedMatrix -----------------------------
(***************************************************************************)
(* The 8x8 matrix of the cap and the colours of its animations             *)
(* (libs/neopixel/led-matrix.c, led-tree.c, the red dots of                *)
(* led-graphics.c): where a pixel sits on the strip and how bright each    *)
(* animation makes it.  A colour is the triple of its r, g and b; the      *)
(* arithmetic is C's, with the division that truncates towards zero and    *)
(* the cast to uint8_t.                                                    *)
(***************************************************************************)
EXTENDS Integers, Sequences

Width == 8
Height == 8
NPix == 64
MaxBright == 31
Gradient == 8
SweepSteps == Width + Gradient

Columns == 0 .. Width - 1
Rows == 0 .. Height - 1

(* The strip runs left to right on the even rows and back on the odd ones. *)
Index(x, y) == y * Width + (IF y % 2 = 1 THEN Width - 1 - x ELSE x)

(* led_matrix_check_rgb: what the port's current allows. *)
Allowed(color) == \A i \in 1 .. 3 : color[i] <= MaxBright

Black == <<0, 0, 0>>
Red == <<MaxBright, 0, 0>>
ForestGreen == <<8, MaxBright, 0>>
Blue == <<0, 0, MaxBright>>
LeafGreen == <<0, MaxBright, 0>>
Trunk == <<14, 8, 0>>

(* The rows of the default tree, bottom row 0: the columns that are lit. *)
LeafColumns(y) == CASE y \in {2, 4} -> 1 .. 5
                    [] y \in {3, 5} -> 2 .. 4
                    [] y = 6 -> {3}
                    [] OTHER -> {}
TrunkColumns(y) == IF y \in {0, 1} THEN {3} ELSE {}

(* C's division of an integer by 256, stored in a byte. *)
Div256(n) == IF n >= 0 THEN n \div 256 ELSE - ((- n) \div 256)
Byte(n) == n % 256

Palette == <<LeafGreen, <<8, 28, 0>>, <<4, 22, 2>>, <<2, 18, 0>>, <<10, 26, 0>>, <<0, 24, 6>>>>
NPalette == 6

(* How far the hue lies between two colours of the palette, of 256. *)
Blend_NotReduced(hue) == hue * NPalette
Blend(hue) == (hue * NPalette) % 256

HueColor(hue) ==
    LET first == Palette[1 + (hue * NPalette) \div 256]
        second == Palette[1 + (((hue * NPalette) \div 256 + 1) % NPalette)]
    IN  [i \in 1 .. 3 |-> Byte(first[i] + Div256((second[i] - first[i]) * Blend(hue)))]

(* The colour of a leaf's pixel in the sparkling tree at a phase of the    *)
(* four-second cycle.                                                      *)
SparkleColor(phase, x, y) == HueColor((phase + ((x * 17 + y * 31) % 64)) % 256)

(* The red dots of the sweep: a checkerboard behind a front that moves to  *)
(* the left, fading over Gradient columns.                                 *)
DotLevel(front, x) ==
    LET dist == front - (Width - 1 - x)
    IN  IF dist \in 0 .. Gradient - 1
        THEN (MaxBright * (Gradient - dist)) \div Gradient ELSE 0
DotColor(front, x, y) == IF (x + y) % 2 = 0 THEN <<DotLevel(front, x), 0, 0>> ELSE Black
=============================================================================
