\* Two editors with pages of their own, three measures, one file.
SPECIFICATION Spec
CONSTANTS
    pa = pa  pb = pb  text = text  e1 = e1  e2 = e2
    None = None
    Editors <- TheEditors
    People <- ThePeople
    Texts = {text}
    Instructions <- TheInstructions
    Files = {f1}
    MaxRows = 2
    MaxMeasures = 3
    MaxReturned = 1
SYMMETRY EditorsAreAlike
INVARIANTS WorkFollowsTheRecord DoneWithEvidence
PROPERTIES CorrectionIsExact
CHECK_DEADLOCK FALSE
