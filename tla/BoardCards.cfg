\* A card and its two subtasks on a board of two tabs and up to three columns.
SPECIFICATION Spec
CONSTANTS
    c1 = c1  c2 = c2  c3 = c3   s1 = s1  s2 = s2
    None = None
    Done = Done
    People = {owner, ann}
    Owner = owner
    Choices = {{ann}}
    RuleChoices = {{owner, ann}}
    SubBoards <- TheSubBoards
    Columns <- TheColumns
    Actions = {a1}
    MaxCards = 3
    MaxTop = 1
    MaxSubtasks = 2
    DefaultColumns = 1
    MaxVersion = 2
    MaxEdited = 1
    MaxReturned = 1
    MaxChanges = 2
SYMMETRY PlacesAreAlike
INVARIANTS NothingDangles WorkIsInHand AskedWhenSubtasksDone
PROPERTIES FormsGoStale MovesAreJournalled
CHECK_DEADLOCK FALSE
