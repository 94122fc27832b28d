\* Two revisions, two sending requests, accounts that come and go, and a file.
SPECIFICATION Spec
CONSTANTS
    au = au  pa = pa  pb = pb  d1 = d1  d2 = d2
    None = None
    Users <- ThePeople
    Author = au
    Decisions <- TheDecisions
    Contents <- SmallMeetings
    MayLeave = {au, pb}
    Tabs = {t1, t2}
    Files = {f1}
    MaxRevision = 2
INVARIANTS QueueIsTheRound LastApprovalArchives RowsHaveFiles
PROPERTIES HistoryStands SignsOff
