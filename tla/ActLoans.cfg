\* Substitutions, printing and the combined route, without overlapping edits.
SPECIFICATION Spec
CONSTANTS
    o1 = o1  o2 = o2  km = km  kp = kp  tm = tm  adm = adm  e1 = e1  e2 = e2
    Users <- ThePlant
    Profile <- TheProfiles
    Creator = o1
    Pdo = {adm}
    MayLeave = {o1}
    Loans <- TechnologistAsDesigner
    Defects <- Rows
    Layouts <- MixedOrCombined
    Editors = {e1}
    Plans <- SharedAndSplit
    MaxRound = 2
    MaxPrints = 1
    OverlappingEdits = FALSE
PROPERTIES RoutedToThoseWhoAct RoundStartsUndecided RefinesRoute
CHECK_DEADLOCK FALSE
