---------------------------- MODULE MCBoardLinks ----------------------------
(* Two cards that may block a third, on two boards, for TLC.                *)
EXTENDS BoardLinks, TLC

CONSTANTS x, y, z, t1, t2

TheCards == {x, y, z}
TheHome == [c \in TheCards |-> IF c = x THEN 1 ELSE 2]
TheCalls == {t1, t2}
CallsAreAlike == Permutations(TheCalls)

=============================================================================
