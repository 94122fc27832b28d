-------------------------- MODULE MCBoardRequests --------------------------
(* A board with one field and two options for TLC.                          *)
EXTENDS BoardRequests, TLC

CONSTANTS o1, o2, k1, k2

TheOptions == {o1, o2}
TheCards == {k1, k2}

\* Nothing distinguishes options and cards but what is done to them.
AllAlike == Permutations(TheOptions) \cup Permutations(TheCards)

=============================================================================
