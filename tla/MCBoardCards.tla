---------------------------- MODULE MCBoardCards ----------------------------
(* A small board for TLC: its owner and one more person.                    *)
EXTENDS BoardCards, TLC

CONSTANTS c1, c2, c3, s1, s2

\* Nothing distinguishes tabs and columns but what is done to them.
TheColumns == {c1, c2, c3}
TheSubBoards == {s1, s2}
PlacesAreAlike == Permutations(TheColumns) \cup Permutations(TheSubBoards)

=============================================================================
