---------------------------- MODULE MCBasicDisplay ---------------------------
(* One frame buffer of 4 by 3 pixels, and a table with a mode that is too     *)
(* high, one that fits, and one that ends the search.                         *)
EXTENDS BasicDisplay
Screen == {<<4, 3>>}
SmallTable == <<<<2, 4>>, <<4, 2>>, <<4, 4>>>>
=============================================================================
