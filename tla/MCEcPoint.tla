----------------------------- MODULE MCEcPoint -----------------------------
(* A small curve for model checking: its x coordinates differ in their     *)
(* first and last bytes, which is where the parsers look.                  *)
EXTENDS EcPoint

CONSTANTS
  Firsts,  \* first bytes of x coordinates
  Lasts    \* last bytes of x coordinates

Coordinate(first, last) ==
  [i \in 1..32 |-> CASE i = 1 -> first [] i = 32 -> last [] OTHER -> 17]
SmallXs == {Coordinate(f, l) : f \in Firsts, l \in Lasts}
SmallYOf(x, odd) == Coordinate(x[1], IF odd THEN 3 ELSE 2)
=============================================================================
