----------------------------- MODULE BoardOrder -----------------------------
(***************************************************************************)
(* The order of the cards in the working columns of a tab, as              *)
(* boards/services.py keeps it: an integer on each card, spaced by         *)
(* POSITION_STEP so that a card dropped between two takes the middle, the  *)
(* group written anew when no gap is left, and a ceiling the column must   *)
(* not outgrow.  Every call holds the lock of the board.  The integers are *)
(* shown to be a list: CardList.                                           *)
(***************************************************************************)
EXTENDS Integers, FiniteSetsExt, SequencesExt

CONSTANTS
    Columns,
    MaxCards,        \* bound on the cards; a card is its primary key
    PositionStep,    \* POSITION_STEP
    MaxPosition,     \* MAX_POSITION
    MaxMarked        \* bound on the cards closed or pinned at a time

ASSUME OrderAssumption ==
    /\ IsFiniteSet(Columns) /\ Columns # {} /\ 0 \notin Columns
    /\ PositionStep \in Nat \ {0, 1}
    /\ MaxCards \in Nat
    /\ MaxMarked \in Nat
    /\ MaxPosition \in Nat /\ (MaxCards + 1) * PositionStep <= MaxPosition

Cards == 1 .. MaxCards

\* The column of a card whose column was deleted, and the card that means
\* "at the end".
Nothing == 0

VARIABLES
    working,     \* the working columns, in their order
    column,      \* the column each card names, or Nothing
    position,
    isPinned,
    state        \* "none", "open" or "closed"

orderVars == <<working, column, position, isPinned, state>>

-----------------------------------------------------------------------------
Exists(c) == state[c] # "none"

\* _first_working_id
FirstWorking == Head(working)

Marked == Cardinality({c \in Cards : isPinned[c]}) + Cardinality({c \in Cards : state[c] = "closed"})

\* _in_column_q: closed cards keep their places.
In(col) == {c \in Cards : Exists(c) /\ (column[c] = col \/ (column[c] = Nothing /\ col = FirstWorking))}

\* columns.card_column
Stands(c) == IF column[c] = Nothing THEN FirstWorking ELSE column[c]

\* The order of position and primary key
Before(c, d) == position[c] < position[d] \/ (position[c] = position[d] /\ c < d)

Sorted(cards) ==
    CHOOSE s \in [1 .. Cardinality(cards) -> cards] :
        \A i, j \in DOMAIN s : i < j => Before(s[i], s[j])

\* _renumber
Renumbered(s) ==
    [c \in Cards |-> IF Contains(s, c) THEN PositionStep * CHOOSE i \in DOMAIN s : s[i] = c ELSE position[c]]

LastPosition(cards) == Max({0} \cup {position[c] : c \in cards})

\* Mutant: the integer grows for as long as cards come.
NoCeiling(col) == [at |-> LastPosition(In(col)) + PositionStep, others |-> position]

\* Mutant: the integer stops at the ceiling.
AtTheCeiling(col) == [at |-> Min({LastPosition(In(col)) + PositionStep, MaxPosition}), others |-> position]

\* _end_position, and what it leaves of the other positions
EndPosition(col) ==
    IF LastPosition(In(col)) + PositionStep <= MaxPosition
    THEN [at |-> LastPosition(In(col)) + PositionStep, others |-> position]
    ELSE [at |-> (Cardinality(In(col)) + 1) * PositionStep, others |-> Renumbered(Sorted(In(col)))]

\* create_card and _place_new_card; primary keys grow.
CreateCard(c, col) ==
    /\ ~Exists(c) /\ \A d \in 1 .. c - 1 : Exists(d)
    /\ Contains(working, col)
    /\ position' = [EndPosition(col).others EXCEPT ![c] = EndPosition(col).at]
    /\ column' = [column EXCEPT ![c] = col]
    /\ state' = [state EXCEPT ![c] = "open"]
    /\ UNCHANGED <<working, isPinned>>

\* Mutant: a gap of one is taken for a gap.
TooNarrow(lower, upper) == IF upper - lower >= 1 THEN (lower + upper) \div 2 ELSE Nothing

\* The middle of a gap, Nothing if there is none
Middle(lower, upper) == IF upper - lower >= 2 THEN (lower + upper) \div 2 ELSE Nothing

\* After the group; the unpinned, after the whole column.
After(cards, group, pinned) ==
    LET lower == IF pinned THEN LastPosition(Range(group)) ELSE LastPosition(cards)
    IN  IF lower + PositionStep <= MaxPosition THEN lower + PositionStep ELSE Nothing

\* _place_index: before is refused unless it stands in the column.
PlaceIndex(cards, group, pinned, before) ==
    CASE before = Nothing -> Len(group)
      [] Contains(group, before) -> (CHOOSE i \in DOMAIN group : group[i] = before) - 1
      [] OTHER -> IF pinned THEN Len(group) ELSE 0

\* move_card and _move_locked, from a click or a drop
MoveCard(c, col, before) ==
    /\ state[c] = "open"
    /\ Contains(working, col)
    /\ before = Nothing \/ before \in In(col) \ {c}
    /\ column' = [column EXCEPT ![c] = col]
    /\ UNCHANGED <<working, state>>
    /\ LET enters == col # Stands(c)
           pinned == isPinned[c] /\ ~enters
           cards  == In(col) \ {c}
           group  == Sorted({d \in cards : isPinned[d] = pinned})
           index  == PlaceIndex(cards, group, pinned, before)
           now    == Cardinality({d \in Range(group) : Before(d, c)})
           lower  == IF index > 0 THEN position[group[index]] ELSE 0
           new    == IF index < Len(group) THEN Middle(lower, position[group[index + 1]])
                     ELSE After(cards, group, pinned)
       IN  /\ enters \/ index # now
           /\ isPinned' = [isPinned EXCEPT ![c] = pinned]
           /\ position' = IF new = Nothing THEN Renumbered(InsertAt(group, index + 1, c))
                          ELSE [position EXCEPT ![c] = new]

\* set_card_pinned: to the end of the column, where the last of the pinned is.
PinCard(c) ==
    /\ state[c] = "open" /\ ~isPinned[c]
    /\ Marked < MaxMarked
    /\ LET end == EndPosition(Stands(c))
       IN  position' = [end.others EXCEPT ![c] = end.at]
    /\ isPinned' = [isPinned EXCEPT ![c] = TRUE]
    /\ UNCHANGED <<working, column, state>>

\* set_card_pinned: before the first of the others.
UnpinCard(c) ==
    /\ state[c] = "open" /\ isPinned[c]
    /\ LET group == Sorted({d \in In(Stands(c)) : ~isPinned[d]})
       IN  position' = IF group # <<>> /\ position[Head(group)] >= 2
                       THEN [position EXCEPT ![c] = position[Head(group)] \div 2]
                       ELSE Renumbered(<<c>> \o group)
    /\ isPinned' = [isPinned EXCEPT ![c] = FALSE]
    /\ UNCHANGED <<working, column, state>>

\* complete_card, cancel_card and reopen_card: the place is kept.
CloseCard(c) ==
    /\ state[c] = "open"
    /\ Marked < MaxMarked
    /\ state' = [state EXCEPT ![c] = "closed"]
    /\ UNCHANGED <<working, column, position, isPinned>>

ReopenCard(c) ==
    /\ state[c] = "closed"
    /\ state' = [state EXCEPT ![c] = "open"]
    /\ UNCHANGED <<working, column, position, isPinned>>

\* move_column: the first working column takes the cards that name none.
MoveColumn(i) ==
    /\ i \in 1 .. Len(working) - 1
    /\ working' = [working EXCEPT ![i] = working[i + 1], ![i + 1] = working[i]]
    /\ UNCHANGED <<column, position, isPinned, state>>

\* delete_column: its closed cards name none.
DeleteColumn(col) ==
    /\ Len(working) > 1
    /\ \A c \in In(col) : state[c] = "closed"
    /\ \E i \in DOMAIN working : working[i] = col /\ working' = RemoveAt(working, i)
    /\ column' = [c \in Cards |-> IF column[c] = col THEN Nothing ELSE column[c]]
    /\ UNCHANGED <<position, isPinned, state>>

OrderInit ==
    /\ working \in SetToSeqs(Columns)
    /\ column = [c \in Cards |-> Nothing]
    /\ position = [c \in Cards |-> 0]
    /\ isPinned = [c \in Cards |-> FALSE]
    /\ state = [c \in Cards |-> "none"]

OrderNext ==
    \/ \E c \in Cards, col \in Columns :
          \/ CreateCard(c, col)
          \/ \E before \in Cards \cup {Nothing} : MoveCard(c, col, before)
    \/ \E c \in Cards : PinCard(c) \/ UnpinCard(c) \/ CloseCard(c) \/ ReopenCard(c)
    \/ \E i \in 1 .. Cardinality(Columns) - 1 : MoveColumn(i)
    \/ \E col \in Columns : DeleteColumn(col)

OrderSpec == OrderInit /\ [][OrderNext]_orderVars

-----------------------------------------------------------------------------
(* Properties                                                               *)

\* selectors: the pinned cards first, then position and primary key
ShownBefore(c, d) == IF isPinned[c] = isPinned[d] THEN Before(c, d) ELSE isPinned[c]

Shown(col) == {c \in Cards : Exists(c) /\ Stands(c) = col}

Ahead ==
    {p \in Cards \X Cards : /\ Exists(p[1]) /\ Exists(p[2]) /\ Stands(p[1]) = Stands(p[2])
                            /\ ShownBefore(p[1], p[2])}

List == INSTANCE CardList WITH listed <- [col \in Columns |-> Shown(col)],
                               ahead  <- Ahead,
                               pinned <- {c \in Cards : isPinned[c]}

\* The positions are those of the database column, from 1 to MAX_POSITION,
\* however long cards come and go (_end_position, _renumber).
OrderTypeOK ==
    /\ working \in Seq(Columns) /\ working # <<>>
    /\ column \in [Cards -> Columns \cup {Nothing}]
    /\ isPinned \in [Cards -> BOOLEAN]
    /\ state \in [Cards -> {"none", "open", "closed"}]
    /\ position \in [Cards -> 0 .. MaxPosition]
    /\ \A c \in Cards : Exists(c) => position[c] > 0

\* A column is a list of cards, the pinned ones first: a new card comes last,
\* a pinned one last of the pinned, renumbering moves nobody, a card taken
\* back into work is where it was, and a deleted column's cards join another
\* in their order (_move_locked, set_card_pinned, delete_column).
KeepsTheList == List!Spec /\ []List!ColumnsAreLists

\* A card moved is right before the card it was dropped before
\* (_place_index, _move_locked).
PlacedAsAsked ==
    [][\A c \in Cards, col \in Columns, before \in Cards \cup {Nothing} :
          MoveCard(c, col, before) => List!Move(c, Stands(c), col, before)]_orderVars

=============================================================================
