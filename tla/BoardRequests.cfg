\* One field that may be a list of two options, a request and two cards.
SPECIFICATION RequestsSpec
CONSTANTS
    o1 = o1  o2 = o2  k1 = k1  k2 = k2
    None = None
    Fields = {f1}
    Options <- TheOptions
    Cards <- TheCards
    Requests = {r1}
    Rules = {q1}
    MaxFields = 1
    MaxOptions = 1
    MaxChanges = 4
SYMMETRY AllAlike
INVARIANTS FieldsHoldUp WaitingGetsAnAnswer
PROPERTIES AnswersStand
CHECK_DEADLOCK FALSE
