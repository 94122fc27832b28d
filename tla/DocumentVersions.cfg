\* Versions sent round, restored, trashed and removed, under the review job.
SPECIFICATION Spec
CONSTANTS
    m = m  a = a  b = b  y1 = y1
    None = None
    Users <- TheStaff
    Managers = {m}
    Audiences <- NobodyOrReaders
    MaxNumber = 2
    Dates = {y1}
INVARIANTS ApprovedThenRead OneReviewPerDate
PROPERTIES RecordsAreKept KeepsRevisions
CHECK_DEADLOCK FALSE
