\* Two pages of one session, one change on the server, and one thing that goes wrong.
SPECIFICATION TabsSpec
CONSTANTS
    first = first
    second = second
    Tabs <- Pages
    NoTab = NoTab
    MaxVersion = 1
    MaxTrouble = 1
INVARIANTS RecoveryHasOneOwner
CHECK_DEADLOCK FALSE
PROPERTIES CatchesUp OneLeaderInTheEnd
