--------------------------- MODULE DocumentControl ---------------------------
(***************************************************************************)
(* One controlled document of the library: documents/services.py with the  *)
(* document tasks of tasks/services.py.  A service that changes the        *)
(* document takes its row lock, so it is one step, and what it asked of    *)
(* the object the view had loaded is not a guard of that step: the object  *)
(* may be older than any change.  Two operations take no lock: the final   *)
(* removal asks and then deletes, and the nightly review job lists, reads  *)
(* and then issues.  Each of their steps may have anything in between.     *)
(***************************************************************************)
EXTENDS Naturals, FiniteSets

CONSTANTS
    Users,
    Managers,      \* those who may keep the library
    Audiences,     \* whom a choice of roles and departments comes to
    MaxNumber,     \* bound on the versions of the document
    Dates,         \* review dates the card may be given
    None

ASSUME LibraryAssumption ==
    /\ Managers \subseteq Users /\ Managers # {}
    /\ Audiences \subseteq SUBSET Users
    /\ MaxNumber \in Nat \ {0}
    /\ None \notin Users /\ None \notin Dates

Numbers == 1 .. MaxNumber

\* Document.Status, and DocumentVersion.Approval with "absent" for no row.
Statuses == {"DRAFT", "ACTIVE", "CANCELLED"}
Rounds   == {"absent", "NONE", "PENDING", "APPROVED", "RETURNED"}

\* DocumentVersionApproval.Status, and the status of a task; "none" is no row.
Answers == {"none", "PENDING", "APPROVED", "RETURNED", "CANCELLED"}
TaskStatuses == {"none", "open", "done", "cancelled"}

VARIABLES
    place,        \* "library", "trash", or "gone" once removed for good
    status, reviewDate,
    count,        \* the highest version number
    current,      \* the version that is_current
    round,        \* the approval_status of each version
    uploader,     \* its uploaded_by
    readers,      \* who holds the roles it was sent to for acknowledgement
    approvals,    \* the approval rows of its round
    signTasks,    \* the DOCUMENT_APPROVAL tasks
    readTasks,    \* the DOCUMENT_ACK tasks
    reviewTasks,  \* the DOCUMENT_REVIEW tasks, by version and due date
    purging,      \* a removal that has asked and not deleted
    reviewing     \* the review job: what it listed, and the version it read

cardVars    == <<status, reviewDate>>
versionVars == <<count, current, round, uploader, readers, approvals>>
taskVars    == <<signTasks, readTasks, reviewTasks>>
vars == <<place, cardVars, versionVars, taskVars, purging, reviewing>>

Review == [date : Dates, version : 0 .. MaxNumber]

-----------------------------------------------------------------------------
(* Reading the rows                                                         *)

Pending(v) == {u \in Users : approvals[v][u] = "PENDING"}

OnApproval == {v \in Numbers : round[v] = "PENDING"}

\* can_purge: no task was issued on any version.
NothingIssued ==
    \A v \in Numbers :
        /\ \A u \in Users : signTasks[v][u] = "none" /\ readTasks[v][u] = "none"
        /\ \A d \in Dates : reviewTasks[v][d] = "none"

Withdrawn(tasks) == [x \in DOMAIN tasks |-> IF tasks[x] = "open" THEN "cancelled" ELSE tasks[x]]

\* _issue_acknowledgements: those who have had a task for the version, withdrawn
\* ones too, are not asked again (unique_document_ack_task).
AlreadyAsked(v) == {u \in Users : readTasks[v][u] # "none"}

\* The acknowledgement tasks of v once people are asked to read it.
Asked(v, people) ==
    [u \in Users |-> IF u \in people \ AlreadyAsked(v) THEN "open" ELSE readTasks[v][u]]

\* _put_version_in_force: the tasks of the version it replaces are withdrawn,
\* and those it was sent to are asked, but not its uploader.
ReadTasksOnEntry(v, people) ==
    [w \in Numbers |->
        IF w = v THEN Asked(v, people)
        ELSE IF w = current THEN Withdrawn(readTasks[w]) ELSE readTasks[w]]

-----------------------------------------------------------------------------
Nowhere(value) == [v \in Numbers |-> [u \in Users |-> value]]

\* upload_document: the document and its first version, current at once.
Init ==
    /\ place = "library" /\ status = "ACTIVE" /\ reviewDate = None
    /\ count = 1 /\ current = 1
    /\ round = [v \in Numbers |-> IF v = 1 THEN "NONE" ELSE "absent"]
    /\ \E m \in Managers, people \in Audiences :
          /\ uploader = [v \in Numbers |-> IF v = 1 THEN m ELSE None]
          /\ readers = [v \in Numbers |-> IF v = 1 THEN people ELSE {}]
          /\ readTasks = [v \in Numbers |-> [u \in Users |->
                             IF v = 1 /\ u \in people \ {m} THEN "open" ELSE "none"]]
    /\ approvals = Nowhere("none")
    /\ signTasks = Nowhere("none")
    /\ reviewTasks = [v \in Numbers |-> [d \in Dates |-> "none"]]
    /\ purging = FALSE
    /\ reviewing = None

-----------------------------------------------------------------------------
(* Versions                                                                 *)

\* Mutant: the number after the one people read, not after the highest.
NumberAfterCurrent == current + 1

NextNumber == count + 1

\* The row of the version m uploads, whatever comes of it.
StoreVersion(m, people, state) ==
    /\ place = "library"
    /\ OnApproval = {}
    /\ NextNumber \in Numbers
    /\ count' = NextNumber
    /\ round' = [round EXCEPT ![NextNumber] = state]
    /\ uploader' = [uploader EXCEPT ![NextNumber] = m]
    /\ readers' = [readers EXCEPT ![NextNumber] = people]
    /\ UNCHANGED <<place, cardVars, reviewTasks, purging, reviewing>>

\* add_document_version without approvers.
AddVersion(m, people) ==
    /\ StoreVersion(m, people, "NONE")
    /\ current' = NextNumber
    /\ readTasks' = ReadTasksOnEntry(NextNumber, people \ {m})
    /\ UNCHANGED <<approvals, signTasks>>

\* ... and with them: stored, and not current yet.
SubmitVersion(m, people, signers) ==
    /\ signers # {} /\ m \notin signers
    /\ StoreVersion(m, people, "PENDING")
    /\ approvals' = [approvals EXCEPT ![NextNumber] =
                        [u \in Users |-> IF u \in signers THEN "PENDING" ELSE "none"]]
    /\ signTasks' = [signTasks EXCEPT ![NextNumber] =
                        [u \in Users |-> IF u \in signers THEN "open" ELSE "none"]]
    /\ UNCHANGED <<current, readTasks>>

\* _lock_pending_version and _pending_approval.
MayDecide(v, u) == place = "library" /\ round[v] = "PENDING" /\ u \in Pending(v)

\* Mutant: acknowledgements are issued at upload only.
NotAskedOnEntry(v) == {}

\* Who is asked to read v when it comes into force by its last approval.
AskedOnEntry(v) == readers[v] \ {uploader[v]}

\* approve_version
ApproveVersion(v, u) ==
    /\ MayDecide(v, u)
    /\ approvals' = [approvals EXCEPT ![v] = [approvals[v] EXCEPT ![u] = "APPROVED"]]
    /\ signTasks' = [signTasks EXCEPT ![v] = [signTasks[v] EXCEPT ![u] = "done"]]
    /\ IF Pending(v) = {u}
         THEN /\ round' = [round EXCEPT ![v] = "APPROVED"]
              /\ current' = v
              /\ readTasks' = ReadTasksOnEntry(v, AskedOnEntry(v))
         ELSE UNCHANGED <<round, current, readTasks>>
    /\ UNCHANGED <<place, cardVars, count, uploader, readers, reviewTasks, purging, reviewing>>

CancelledPending(answers) ==
    [u \in Users |-> IF answers[u] = "PENDING" THEN "CANCELLED" ELSE answers[u]]

\* return_version: u's own task is done, the rest of the round is withdrawn.
ReturnVersion(v, u) ==
    /\ MayDecide(v, u)
    /\ round' = [round EXCEPT ![v] = "RETURNED"]
    /\ approvals' = [approvals EXCEPT ![v] =
                        CancelledPending([approvals[v] EXCEPT ![u] = "RETURNED"])]
    /\ signTasks' = [signTasks EXCEPT ![v] = Withdrawn([signTasks[v] EXCEPT ![u] = "done"])]
    /\ UNCHANGED <<place, cardVars, count, current, uploader, readers, readTasks, reviewTasks,
                   purging, reviewing>>

\* Mutant: only a version still on approval cannot come back.
NotOnApproval(v) == round[v] # "PENDING"

\* What restore_document_version asks before it locks never changes of a version.
WasInForce(v) == round[v] \notin {"PENDING", "RETURNED"}

\* restore_document_version moves the pointer and nothing else.
RestoreVersion(v) ==
    /\ place # "gone" /\ v <= count
    /\ v # current /\ WasInForce(v)
    /\ current' = v
    /\ UNCHANGED <<place, cardVars, count, round, uploader, readers, approvals, taskVars,
                   purging, reviewing>>

-----------------------------------------------------------------------------
(* Acknowledgement                                                          *)

\* request_acknowledgement by m, of the version that is current under the lock.
RequestAcknowledgement(m, people) ==
    /\ place = "library"
    /\ people # {}
    /\ readers' = [readers EXCEPT ![current] = @ \cup people]
    /\ readTasks' = [readTasks EXCEPT ![current] = Asked(current, people \ {m, uploader[current]})]
    /\ UNCHANGED <<place, cardVars, count, current, round, uploader, approvals, signTasks,
                   reviewTasks, purging, reviewing>>

\* acknowledge_document: the open task of the current version, if u has one.
Acknowledge(u) ==
    /\ place # "gone"
    /\ readTasks[current][u] = "open"
    /\ readTasks' = [readTasks EXCEPT ![current] = [readTasks[current] EXCEPT ![u] = "done"]]
    /\ UNCHANGED <<place, cardVars, versionVars, signTasks, reviewTasks, purging, reviewing>>

-----------------------------------------------------------------------------
(* The card and the trash                                                   *)

\* Mutant: the round is closed, the rows of those who have not answered stay.
RowsStayPending(v) == approvals[v]

ApprovalsWithdrawn(v) == CancelledPending(approvals[v])

\* _withdraw_open_work: the round in flight and every open task.
WithdrawOpenWork ==
    /\ round' = [v \in Numbers |-> IF round[v] = "PENDING" THEN "RETURNED" ELSE round[v]]
    /\ approvals' = [v \in Numbers |-> ApprovalsWithdrawn(v)]
    /\ signTasks' = [v \in Numbers |-> Withdrawn(signTasks[v])]
    /\ readTasks' = [v \in Numbers |-> Withdrawn(readTasks[v])]
    /\ reviewTasks' = [v \in Numbers |-> Withdrawn(reviewTasks[v])]

\* update_document_card does not ask again, under the lock, where the document is.
SetStatus(new) ==
    /\ place # "gone" /\ new # status
    /\ status' = new
    /\ IF new = "CANCELLED" THEN WithdrawOpenWork
                            ELSE UNCHANGED <<round, approvals, taskVars>>
    /\ UNCHANGED <<place, reviewDate, count, current, uploader, readers, purging, reviewing>>

SetReviewDate(date) ==
    /\ place # "gone" /\ date # reviewDate
    /\ reviewDate' = date
    /\ UNCHANGED <<place, status, versionVars, taskVars, purging, reviewing>>

\* trash_documents
Trash ==
    /\ place = "library"
    /\ place' = "trash"
    /\ WithdrawOpenWork
    /\ UNCHANGED <<cardVars, count, current, uploader, readers, purging, reviewing>>

\* restore_document
Restore ==
    /\ place = "trash"
    /\ place' = "library"
    /\ UNCHANGED <<cardVars, versionVars, taskVars, purging, reviewing>>

\* purge_document, or purge_expired_trash, loads a trashed document and asks
\* whether tasks were issued on it ...
AskToPurge ==
    /\ place = "trash" /\ ~purging
    /\ NothingIssued
    /\ purging' = TRUE
    /\ UNCHANGED <<place, cardVars, versionVars, taskVars, reviewing>>

\* Mutant: what was asked before is relied on, and the tasks go with the rows.
DeletableAsAsked == purging

\* PROTECT on Task.document_version: the database keeps a version with a task.
Deletable == NothingIssued

\* ... and deletes it, wherever it is by now, unless the database objects.
Purge ==
    /\ purging /\ place # "gone"
    /\ Deletable
    /\ place' = "gone"
    /\ purging' = FALSE
    /\ UNCHANGED <<cardVars, versionVars, taskVars, reviewing>>

\* The deletion fails or its process dies.
DropPurge ==
    /\ purging
    /\ purging' = FALSE
    /\ UNCHANGED <<place, cardVars, versionVars, taskVars, reviewing>>

-----------------------------------------------------------------------------
(* The review job and its tasks                                             *)

\* create_review_tasks lists the documents in force whose date has come, ...
ListForReview ==
    /\ reviewing = None
    /\ place = "library" /\ status = "ACTIVE" /\ reviewDate # None
    /\ reviewing' = [date |-> reviewDate, version |-> 0]
    /\ UNCHANGED <<place, cardVars, versionVars, taskVars, purging>>

\* Mutant: it looks for a task of the version it is about to name.
RaisedForVersion(date) == reviewTasks[current][date] # "none"

\* There is a task of the document with this date, whatever became of it.
AlreadyRaised(date) == \E v \in Numbers : reviewTasks[v][date] # "none"

\* ... comes to the document and reads its current version and its tasks, ...
ReadForReview ==
    /\ reviewing # None /\ reviewing.version = 0
    /\ place # "gone"
    /\ ~AlreadyRaised(reviewing.date)
    /\ reviewing' = [reviewing EXCEPT !.version = current]
    /\ UNCHANGED <<place, cardVars, versionVars, taskVars, purging>>

\* ... and issues the task, asking nothing again.
CreateReviewTask ==
    /\ reviewing # None /\ reviewing.version # 0
    /\ place # "gone"
    /\ reviewTasks' = [reviewTasks EXCEPT ![reviewing.version] =
                          [reviewTasks[reviewing.version] EXCEPT ![reviewing.date] = "open"]]
    /\ reviewing' = None
    /\ UNCHANGED <<place, cardVars, versionVars, signTasks, readTasks, purging>>

\* The job goes on to the next document, or dies.
LeaveReview ==
    /\ reviewing # None
    /\ reviewing' = None
    /\ UNCHANGED <<place, cardVars, versionVars, taskVars, purging>>

SetReviewTask(v, date, from, to) ==
    /\ reviewTasks[v][date] = from
    /\ reviewTasks' = [reviewTasks EXCEPT ![v] = [reviewTasks[v] EXCEPT ![date] = to]]
    /\ UNCHANGED <<place, cardVars, versionVars, signTasks, readTasks, purging, reviewing>>

\* complete_task by the one responsible, and reopen_task by an administrator.
CompleteReview(v, date) == SetReviewTask(v, date, "open", "done")
ReopenReview(v, date)   == SetReviewTask(v, date, "done", "open")

-----------------------------------------------------------------------------
Next ==
    \/ \E m \in Managers, people \in Audiences :
          \/ AddVersion(m, people)
          \/ \E signers \in SUBSET Users : SubmitVersion(m, people, signers)
          \/ RequestAcknowledgement(m, people)
    \/ \E v \in Numbers, u \in Users : ApproveVersion(v, u) \/ ReturnVersion(v, u)
    \/ \E v \in Numbers : RestoreVersion(v)
    \/ \E u \in Users : Acknowledge(u)
    \/ \E new \in Statuses : SetStatus(new)
    \/ \E date \in Dates \cup {None} : SetReviewDate(date)
    \/ Trash \/ Restore \/ AskToPurge \/ Purge \/ DropPurge
    \/ ListForReview \/ ReadForReview \/ CreateReviewTask \/ LeaveReview
    \/ \E v \in Numbers, date \in Dates : CompleteReview(v, date) \/ ReopenReview(v, date)

Spec == Init /\ [][Next]_vars

-----------------------------------------------------------------------------
(* Properties                                                               *)

\* Every variable has its type; in particular the versions are numbered
\* without a gap from 1, and the current one is not on approval or returned.
TypeOK ==
    /\ place \in {"library", "trash", "gone"}
    /\ status \in Statuses /\ reviewDate \in Dates \cup {None}
    /\ count \in Numbers
    /\ current \in {v \in 1 .. count : round[v] \in {"NONE", "APPROVED"}}
    /\ round \in [Numbers -> Rounds]
    /\ \A v \in Numbers : round[v] = "absent" <=> v > count
    /\ uploader \in [Numbers -> Managers \cup {None}]
    /\ readers \in [Numbers -> SUBSET Users]
    /\ approvals \in [Numbers -> [Users -> Answers]]
    /\ signTasks \in [Numbers -> [Users -> TaskStatuses]]
    /\ readTasks \in [Numbers -> [Users -> TaskStatuses]]
    /\ reviewTasks \in [Numbers -> [Dates -> TaskStatuses]]
    /\ purging \in BOOLEAN
    /\ reviewing \in Review \cup {None}

\* "One version on approval at a time": a version is on approval exactly while
\* somebody has yet to answer, each of them has the task for it open, and a
\* document in the trash asks nobody to approve or to read.
RoundIsWhole ==
    /\ \A v, w \in OnApproval : v = w
    /\ \A v \in Numbers :
          /\ round[v] = "PENDING" <=> Pending(v) # {}
          /\ \A u \in Users : signTasks[v][u] = "open" <=> approvals[v][u] = "PENDING"
    /\ place = "trash" => \A v \in Numbers, u \in Users :
          signTasks[v][u] # "open" /\ readTasks[v][u] # "open"

\* Everybody a version was sent to has been asked to read it from the moment it
\* came into force, by upload or by its last approval, and nobody before.
EveryReaderIsAsked ==
    \A v \in Numbers :
        IF round[v] \in {"NONE", "APPROVED"}
          THEN \A u \in readers[v] \ Managers : readTasks[v][u] # "none"
          ELSE \A u \in Users : readTasks[v][u] = "none"

\* A version is agreed by the people asked to approve it, and only then read
\* by the people it is for.
ApprovedThenRead == RoundIsWhole /\ EveryReaderIsAsked

\* "A document tasks were issued on is a record": it is never removed, though
\* the question is asked before the deletion and without a lock, and what
\* people answered, that they have read or approved, is never changed.
RecordsAreKept ==
    [][/\ place' = "gone" /\ place # "gone" => NothingIssued
       /\ \A v \in Numbers, u \in Users :
             /\ readTasks[v][u] = "done" => readTasks'[v][u] = "done"
             /\ approvals[v][u] \in {"APPROVED", "RETURNED"}
                   => approvals'[v][u] = approvals[v][u]]_vars

\* "One per date" (the operations guide): however versions and dates change
\* under the job, one review date is asked for once.
OneReviewPerDate ==
    \A date \in Dates, v, w \in Numbers :
        reviewTasks[v][date] # "none" /\ reviewTasks[w][date] # "none" => v = w

\* What people read was agreed, whatever the trash, the card and pages opened
\* earlier do.
VerdictOf(state) ==
    CASE state = "absent"               -> "absent"
      [] state = "PENDING"              -> "waiting"
      [] state \in {"NONE", "APPROVED"} -> "agreed"
      [] state = "RETURNED"             -> "refused"

Promise == INSTANCE Revisions
           WITH verdict <- [v \in Numbers |-> VerdictOf(round[v])],
                needed  <- [v \in Numbers |-> {u \in Users : approvals[v][u] # "none"}],
                signed  <- [v \in Numbers |-> {u \in Users : approvals[v][u] = "APPROVED"}],
                inForce <- IF place = "gone" THEN 0 ELSE current
KeepsRevisions == Promise!Spec

=============================================================================
