\* Edits, transitions, and an author and a workshop designer who come and go.
SPECIFICATION Spec
CONSTANTS
    o1 = o1  o2 = o2  km = km  kp = kp  tm = tm  adm = adm  e1 = e1  e2 = e2
    Users <- ThePlant
    Profile <- TheProfiles
    Creator = o1
    Pdo = {adm}
    MayLeave = {o1, kp}
    Loans <- NoLoans
    Defects <- Rows
    Layouts <- OneShopOrMixed
    Editors = {e1}
    Plans <- SharedAndSplit
    MaxRound = 2
    MaxPrints = 0
    OverlappingEdits = TRUE
INVARIANTS QueueFollowsAct DecidedBeforeAnalysis WorkIsHandedOutOnce
PROPERTIES ArchivedIsFinal
CHECK_DEADLOCK FALSE
