------------------------- MODULE MCStatusSizeGuard -------------------------
(***************************************************************************)
(* Values of the constants of StatusSizeGuard for TLC: no label, one below *)
(* the floor, one that halves onto it and one that halves past it.         *)
(***************************************************************************)
EXTENDS StatusSizeGuard

SomeLabels == {Invalid, 1, 4, 7}
=============================================================================
