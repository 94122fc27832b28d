------------------------------ MODULE CardList ------------------------------
(***************************************************************************)
(* What a column of a board promises about the order of its cards: it is a *)
(* list, the pinned cards first, that only a person's move changes.        *)
(*                                                                         *)
(* A list of cards is kept as the cards and who stands before whom.        *)
(***************************************************************************)
EXTENDS Naturals

CONSTANTS Cards, Columns

VARIABLES
    listed,    \* the cards of each column, closed ones in their places
    ahead,     \* <<c, d>> where c stands before d in their column
    pinned     \* the cards held first in their column

vars == <<listed, ahead, pinned>>

\* The cards of each column are in one line, the pinned ones first.
ColumnsAreLists ==
    /\ \A p \in ahead : \E col \in Columns : p \in listed[col] \X listed[col]
    /\ \A col \in Columns : \A c, d, e \in listed[col] :
          /\ <<c, d>> \in ahead => <<d, c>> \notin ahead
          /\ c # d => <<c, d>> \in ahead \/ <<d, c>> \in ahead
          /\ <<c, d>> \in ahead /\ <<d, e>> \in ahead => <<c, e>> \in ahead
          /\ c \in pinned /\ d \notin pinned => <<c, d>> \in ahead

\* c taken out of its place and put behind the cards of front.
Inserted(c, cards, front) ==
    {p \in ahead : c \notin {p[1], p[2]}} \cup (front \X {c}) \cup ({c} \X (cards \ front))

\* The cards c goes behind when it is dropped before another one, or at the end
\* for want of one: a card of the other group stands for the edge between the
\* two, held being the cards that are pinned then.
Front(c, cards, held, other) ==
    LET mine == {d \in cards : d \in held <=> c \in held}
    IN  IF c \in held
        THEN {d \in mine : other \in mine => <<d, other>> \in ahead}
        ELSE (cards \ mine) \cup
             {d \in mine : other \notin cards \ mine /\ (other \in mine => <<d, other>> \in ahead)}

Add(c, col) ==
    /\ listed' = [listed EXCEPT ![col] = @ \cup {c}]
    /\ ahead' = ahead \cup (listed[col] \X {c})
    /\ UNCHANGED pinned

\* A card that leaves its column is pinned no more.
Move(c, from, col, other) ==
    LET cards == listed[col] \ {c}
    IN  /\ pinned' = IF from = col THEN pinned ELSE pinned \ {c}
        /\ listed' = [k \in Columns |-> IF k = col THEN listed[k] \cup {c} ELSE listed[k] \ {c}]
        /\ ahead' = Inserted(c, cards, Front(c, cards, pinned', other))

\* To the end of the pinned cards, or to the start of the others.
Pin(c, col) ==
    LET cards == listed[col] \ {c}
    IN  /\ pinned' = IF c \in pinned THEN pinned \ {c} ELSE pinned \cup {c}
        /\ ahead' = Inserted(c, cards, cards \cap pinned)
        /\ UNCHANGED listed

\* Cards of a column that is no longer theirs join another: both lists are
\* merged, and neither is shuffled.
Join(from, into) ==
    /\ \E joined \in SUBSET listed[from] :
          listed' = [listed EXCEPT ![from] = @ \ joined, ![into] = @ \cup joined]
    /\ UNCHANGED pinned
    /\ \A k, l \in Columns : \A c, d \in listed[k] \cap listed'[l] :
          <<c, d>> \in ahead' <=> <<c, d>> \in ahead
    /\ ColumnsAreLists'

Init == listed = [col \in Columns |-> {}] /\ ahead = {} /\ pinned = {}

Next ==
    \/ \E from, col \in Columns :
          \E c \in listed[from], other \in listed[col] \cup {0} : Move(c, from, col, other)
    \/ \E col \in Columns :
          \/ \E c \in Cards \ UNION {listed[k] : k \in Columns} : Add(c, col)
          \/ \E c \in listed[col] : Pin(c, col)
    \/ \E from, into \in Columns : from # into /\ Join(from, into)

Spec == Init /\ [][Next]_vars

=============================================================================
