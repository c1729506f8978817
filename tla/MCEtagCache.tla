---------------------------- MODULE MCEtagCache -----------------------------
(***************************************************************************)
(* Values of the constants of EtagCache for TLC.                           *)
(***************************************************************************)
EXTENDS EtagCache, TLC

CONSTANTS p1, p2, r1, r2

\* Nothing in the module tells the pages or the readers apart.
PageSymmetry   == Permutations({p1, p2})
ReaderSymmetry == Permutations({r1, r2}) \cup PageSymmetry
=============================================================================
