\* Three cards in two columns; a gap is used up by the first drop and the
\* ceiling is the position after the fourth card.
SPECIFICATION OrderSpec
CONSTANTS
    c1 = c1  c2 = c2
    Columns <- TwoColumns
    MaxCards = 3
    PositionStep = 2
    MaxPosition = 8
    MaxMarked = 2
SYMMETRY ColumnsAreAlike
INVARIANTS OrderTypeOK
PROPERTIES KeepsTheList PlacedAsAsked
CHECK_DEADLOCK FALSE
