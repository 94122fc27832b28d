---------------------------- MODULE MCBoardOrder ----------------------------
(* A small tab for TLC.  A position of the code is below 2^31 and the step   *)
(* is 1024: here a gap is used up by the first drop and the ceiling is one   *)
(* card away.                                                                *)
EXTENDS BoardOrder

CONSTANTS c1, c2

TwoColumns == {c1, c2}

\* The calls tell columns apart by their order only.
ColumnsAreAlike == Permutations(TwoColumns)

=============================================================================
