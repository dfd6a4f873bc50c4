--------------------------- MODULE MCTouchPanel ----------------------------
(* Places on the touch panel for TLC: the first is like the second in one  *)
(* coordinate, up to the tolerance, and like the third in the other.       *)
EXTENDS TouchPanel

Places == {<<0, 2>>, <<1, 6>>, <<5, 2>>}
=============================================================================
