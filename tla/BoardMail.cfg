\* One reader of a board and its card, from Friday to Monday.
SPECIFICATION Spec
CONSTANTS
    head = head  b1 = b1  c1 = c1
    People = {head}
    Boards = {b1}
    Cards = {c1}
    Home <- TheHome
    FirstWeekday = 4
    MaxDay = 3
    MaxChanges = 2
    MaxTrouble = 1
    None = None
INVARIANTS NoDayIsLost
PROPERTIES MailedOnce OverdueIsHeard
CHECK_DEADLOCK FALSE
