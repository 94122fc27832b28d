\* Three cards on two boards, two calls at a time.
SPECIFICATION Spec
CONSTANTS
    x = x  y = y  z = z  t1 = t1  t2 = t2
    None = None
    Cards <- TheCards
    Home <- TheHome
    Calls <- TheCalls
    MaxCalls = 5
SYMMETRY CallsAreAlike
INVARIANTS NothingWaitsInACircle ToldWhenTheLastCloses
CHECK_DEADLOCK FALSE
