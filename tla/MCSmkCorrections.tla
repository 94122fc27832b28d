-------------------------- MODULE MCSmkCorrections --------------------------
(* A small record for TLC: work for one person, marked as split, and work    *)
(* for each of two.                                                          *)
EXTENDS SmkCorrections, TLC

CONSTANTS pa, pb, text, e1, e2

ThePeople == {pa, pb}

AskedOfOne  == [text |-> text, people |-> {pa}, split |-> TRUE]
AskedOfEach == [text |-> text, people |-> {pa, pb}, split |-> TRUE]

TheInstructions == {AskedOfOne, AskedOfEach}

\* Two pages that may be open at once; nothing distinguishes their editors.
TheEditors == {e1, e2}
EditorsAreAlike == Permutations(TheEditors)

=============================================================================
