-------------------------- MODULE ProtocolApproval --------------------------
(***************************************************************************)
(* A meeting protocol from its draft to the archive: protocols/services.py *)
(* with the approval tasks of tasks/services.py, and the views that call   *)
(* them.  Every service takes the row lock of the protocol and re-reads it *)
(* under that lock, so a service is one step; what is not one step is what *)
(* a request or a page does around it: "send for approval" saves the form  *)
(* and then sends, in two transactions; an approver decides on a page that *)
(* was opened earlier; a file is written before its row and removed after  *)
(* it; accounts are switched off at any time.                              *)
(***************************************************************************)
EXTENDS Naturals, FiniteSets

CONSTANTS
    Users,
    Author,
    MayLeave,       \* users whose account or profile may be switched off and on
    Decisions,      \* the decisions a protocol may have
    Contents,       \* what the editor may post
    Tabs,           \* requests of the author that send the protocol
    Files,
    MaxRevision,    \* bound on the number of times it is sent
    None

\* What approval depends on: the participants marked as approving, and who
\* carries out each decision (nobody: there is no such decision).
Content == [signers : SUBSET Users,
            assignees : [Decisions -> SUBSET Users],
            split : SUBSET Decisions]

Blank == [signers |-> {}, assignees |-> [d \in Decisions |-> {}], split |-> {}]

ASSUME ProtocolAssumption ==
    /\ IsFiniteSet(Users)
    /\ Author \in Users
    /\ MayLeave \subseteq Users
    /\ Contents \subseteq Content
    /\ \A c \in Contents : Author \notin c.signers
    /\ MaxRevision \in Nat
    /\ None \notin Content /\ None \notin Users

Statuses  == {"DRAFT", "APPROVAL", "REVISION", "ARCHIVED", "deleted"}
Editable  == {"DRAFT", "REVISION"}
Revisions == 1 .. MaxRevision

\* ProtocolApproval.Status; "none" is no row.
Answers == {"none", "PENDING", "APPROVED", "RETURNED", "CANCELLED"}

VARIABLES
    status, revision,
    content,      \* participants and decisions as stored
    approvals,    \* the approval rows, of every revision
    queue,        \* the approval task of each row: "none", "open" or "closed"
    tasks,        \* the tasks the decisions became
    shown,        \* the revision on the page of each approver, 0 for no page
    submitted,    \* what each sending request has saved and is about to send
    enabled,      \* users whose account is active
    staff,        \* users whose profile is active
    rows, stored, \* attachments: their rows, and the files in the storage
    uploading,    \* files written, whose row is not
    unlinking     \* files whose row is removed, and who are not

documentVars == <<status, revision, content>>
roundVars    == <<approvals, queue>>
fileVars     == <<rows, stored, uploading, unlinking>>
peopleVars   == <<enabled, staff>>
vars == <<documentVars, roundVars, tasks, shown, submitted, peopleVars, fileVars>>

-----------------------------------------------------------------------------
(* Who must approve                                                         *)

Actions(c) == {d \in Decisions : c.assignees[d] # {}}

\* collect_required_approvers: the approving participants and all who carry
\* out a decision, but not the author.
RequiredApprovers(c) == (c.signers \cup UNION {c.assignees[d] : d \in Decisions}) \ {Author}

\* _is_usable_employee
Usable == enabled \cap staff

\* validate_protocol_for_approval, run on the stored protocol: every decision
\* has somebody active, and every approver is active.
ValidForApproval ==
    /\ \A d \in Actions(content) : content.assignees[d] \cap Usable # {}
    /\ RequiredApprovers(content) \subseteq Usable

\* The pending approvals of the current revision.
Pending == {u \in Users : revision # 0 /\ approvals[revision][u] = "PENDING"}

-----------------------------------------------------------------------------
(* Editing                                                                  *)

\* create_protocol, or create_protocol_based_on, which copies the participants.
Init ==
    /\ status = "DRAFT" /\ revision = 0
    /\ \E S \in SUBSET (Users \ {Author}) : content = [Blank EXCEPT !.signers = S]
    /\ approvals = [r \in Revisions |-> [u \in Users |-> "none"]]
    /\ queue = [r \in Revisions |-> [u \in Users |-> "none"]]
    /\ tasks = {}
    /\ shown = [u \in Users |-> 0]
    /\ submitted = [t \in Tabs |-> None]
    /\ enabled = Users /\ staff = Users
    /\ rows = {} /\ stored = {} /\ uploading = {} /\ unlinking = {}

Several(S) == \E u, v \in S : u # v

\* Mutant: the flag is stored as the form posted it.
AsPosted(c) == c

\* _apply_actions: splitting a decision among one assignee means nothing.
Normalized(c) == [c EXCEPT !.split = {d \in @ : Several(c.assignees[d])}]

\* Mutant: only the archive is closed to edits.
EditableUntilArchived == status \in {"DRAFT", "REVISION", "APPROVAL"}

\* can_edit_protocol, asked of the locked row.
CanEdit == status \in Editable

\* save_protocol_draft, by the author in another tab or by an administrator.
\* The form refuses those who are not active, and they may leave before the
\* save: so no content is excluded here.
SaveDraft(c) ==
    /\ CanEdit
    /\ content' = Normalized(c)
    /\ UNCHANGED <<status, revision, roundVars, tasks, shown, submitted, peopleVars, fileVars>>

\* delete_draft_protocol: its rows go with it, its files stay in the storage.
DeleteDraft ==
    /\ status = "DRAFT" /\ Author \in enabled
    /\ status' = "deleted"
    /\ content' = Blank
    /\ rows' = {}
    /\ UNCHANGED <<revision, roundVars, tasks, shown, submitted, peopleVars,
                   stored, uploading, unlinking>>

-----------------------------------------------------------------------------
(* Sending                                                                  *)

\* protocol_send_for_approval (the view) saves what the editor shows ...
SaveForSubmit(t, c) ==
    /\ submitted[t] = None
    /\ Author \in enabled
    /\ CanEdit
    /\ content' = Normalized(c)
    /\ submitted' = [submitted EXCEPT ![t] = Normalized(c)]
    /\ UNCHANGED <<status, revision, roundVars, tasks, shown, peopleVars, fileVars>>

\* Mutant: a split decision is also handed out as a whole.
BatchesAndWhole(d) ==
    {[decision |-> d, assignees |-> {u}, individual |-> u] : u \in content.assignees[d]}
    \cup {[decision |-> d, assignees |-> content.assignees[d], individual |-> None]}

\* _finalize_protocol: one task for all, or one for each.
Batches(d) ==
    IF d \in content.split
      THEN {[decision |-> d, assignees |-> {u}, individual |-> u] : u \in content.assignees[d]}
      ELSE {[decision |-> d, assignees |-> content.assignees[d], individual |-> None]}

\* The protocol waits for those left to sign, or is archived with its tasks.
ApproveOrFinalize(left) ==
    IF left = {}
      THEN /\ status' = "ARCHIVED"
           /\ tasks' = UNION {Batches(d) : d \in Actions(content)}
      ELSE /\ status' = "APPROVAL"
           /\ UNCHANGED tasks

\* Mutant: a resent protocol goes on with the revision it had.
SameRevision == IF revision = 0 THEN 1 ELSE revision

NextRevision == revision + 1

\* ... and then sends it: send_protocol_for_approval, a transaction of its own.
Send(t) ==
    /\ submitted[t] # None
    /\ status \in Editable
    /\ ValidForApproval
    /\ NextRevision <= MaxRevision
    /\ revision' = NextRevision
    /\ LET needed == RequiredApprovers(content)
           rowsOf(value) == [u \in Users |-> IF u \in needed THEN value ELSE "none"]
       IN  /\ approvals' = [approvals EXCEPT ![NextRevision] = rowsOf("PENDING")]
           /\ queue' = [queue EXCEPT ![NextRevision] = rowsOf("open")]
           /\ ApproveOrFinalize(needed)
    /\ submitted' = [submitted EXCEPT ![t] = None]
    /\ UNCHANGED <<content, shown, peopleVars, fileVars>>

\* The send is refused or its process dies; what was saved stays saved.
DropSubmit(t) ==
    /\ submitted[t] # None
    /\ submitted' = [submitted EXCEPT ![t] = None]
    /\ UNCHANGED <<documentVars, roundVars, tasks, shown, peopleVars, fileVars>>

-----------------------------------------------------------------------------
(* Approving                                                                *)

\* An approver opens the page of the protocol, with the two buttons on it.
OpenPage(u) ==
    /\ status = "APPROVAL" /\ u \in Pending /\ u \in enabled
    /\ shown' = [shown EXCEPT ![u] = revision]
    /\ UNCHANGED <<documentVars, roundVars, tasks, submitted, peopleVars, fileVars>>

\* Mutant: the round is over with the first approval.
NobodyLeft(u) == {}

\* Who has not approved yet, once u has.
StillPending(u) == Pending \ {u}

\* approve_protocol: the request names the protocol and not the revision.
Approve(u) ==
    /\ shown[u] # 0 /\ u \in enabled
    /\ status = "APPROVAL" /\ u \in Pending
    /\ approvals' = [approvals EXCEPT ![revision][u] = "APPROVED"]
    /\ queue' = [queue EXCEPT ![revision][u] = "closed"]
    /\ ApproveOrFinalize(StillPending(u))
    /\ shown' = [shown EXCEPT ![u] = 0]
    /\ UNCHANGED <<revision, content, submitted, peopleVars, fileVars>>

\* Mutant: the rest of the round is left as it is.
ReturnedAlone(u) == [approvals[revision] EXCEPT ![u] = "RETURNED"]

\* The approvals of the round, closed by a return: those given stay given.
ReturnedBy(u) ==
    [v \in Users |-> IF v = u THEN "RETURNED"
                     ELSE IF v \in Pending THEN "CANCELLED" ELSE approvals[revision][v]]

\* Mutant: only the task of the one who returns is closed.
OwnTaskClosed(u) == [queue[revision] EXCEPT ![u] = "closed"]

TasksClosed(u) == [v \in Users |-> IF v \in Pending THEN "closed" ELSE queue[revision][v]]

\* return_protocol_for_revision
ReturnForRevision(u) ==
    /\ shown[u] # 0 /\ u \in enabled
    /\ status = "APPROVAL" /\ u \in Pending
    /\ approvals' = [approvals EXCEPT ![revision] = ReturnedBy(u)]
    /\ queue' = [queue EXCEPT ![revision] = TasksClosed(u)]
    /\ status' = "REVISION"
    /\ shown' = [shown EXCEPT ![u] = 0]
    /\ UNCHANGED <<revision, content, tasks, submitted, peopleVars, fileVars>>

-----------------------------------------------------------------------------
(* Attachments                                                              *)

\* can_contribute_to_protocol
AcceptsFiles == status \notin {"ARCHIVED", "deleted"}

\* add_protocol_attachment writes the file first ...
WriteFile(f) ==
    /\ f \notin rows \cup stored
    /\ AcceptsFiles
    /\ stored' = stored \cup {f}
    /\ uploading' = uploading \cup {f}
    /\ UNCHANGED <<documentVars, roundVars, tasks, shown, submitted, peopleVars,
                   rows, unlinking>>

\* Mutant: the right checked before the file was written is taken for granted.
StillExists == status # "deleted"

\* ... then the row, if the locked protocol still accepts it, ...
MayAttach == AcceptsFiles

\* Mutant: announcing the new row may still raise once it is committed, as it
\* does with REALTIME_FAIL_SILENTLY switched off.
AnnouncementMayRaise(f) == uploading

\* A publisher that fails after the commit is caught, so the upload is over.
UploadsLeft(f) == uploading \ {f}

AddRow(f) ==
    /\ f \in uploading
    /\ MayAttach
    /\ rows' = rows \cup {f}
    /\ uploading' = UploadsLeft(f)
    /\ UNCHANGED <<documentVars, roundVars, tasks, shown, submitted, peopleVars,
                   stored, unlinking>>

\* ... or takes the file back, which may fail or not be reached.
DropUpload(f) ==
    /\ f \in uploading
    /\ uploading' = uploading \ {f}
    /\ stored' \in {stored, stored \ {f}}
    /\ UNCHANGED <<documentVars, roundVars, tasks, shown, submitted, peopleVars,
                   rows, unlinking>>

\* delete_protocol_attachment removes the row ...
RemoveRow(f) ==
    /\ f \in rows
    /\ AcceptsFiles
    /\ rows' = rows \ {f}
    /\ unlinking' = unlinking \cup {f}
    /\ UNCHANGED <<documentVars, roundVars, tasks, shown, submitted, peopleVars,
                   stored, uploading>>

\* ... and, once that is committed, the file, unless the storage fails.
RemoveFile(f) ==
    /\ f \in unlinking
    /\ unlinking' = unlinking \ {f}
    /\ stored' \in {stored, stored \ {f}}
    /\ UNCHANGED <<documentVars, roundVars, tasks, shown, submitted, peopleVars,
                   rows, uploading>>

-----------------------------------------------------------------------------
(* Accounts and profiles are switched off and on.                           *)

Toggled(S, u) == IF u \in S THEN S \ {u} ELSE S \cup {u}

SwitchAccount(u) ==
    /\ enabled' = Toggled(enabled, u)
    /\ UNCHANGED <<documentVars, roundVars, tasks, shown, submitted, staff, fileVars>>

SwitchProfile(u) ==
    /\ staff' = Toggled(staff, u)
    /\ UNCHANGED <<documentVars, roundVars, tasks, shown, submitted, enabled, fileVars>>

Next ==
    \/ DeleteDraft
    \/ \E c \in Contents : SaveDraft(c)
    \/ \E t \in Tabs, c \in Contents : SaveForSubmit(t, c)
    \/ \E t \in Tabs : Send(t) \/ DropSubmit(t)
    \/ \E u \in Users : OpenPage(u) \/ Approve(u) \/ ReturnForRevision(u)
    \/ \E f \in Files : WriteFile(f) \/ AddRow(f) \/ DropUpload(f) \/ RemoveRow(f) \/ RemoveFile(f)
    \/ \E u \in MayLeave : SwitchAccount(u) \/ SwitchProfile(u)

Spec == Init /\ [][Next]_vars

-----------------------------------------------------------------------------
(* Properties                                                               *)

\* Content as _apply_actions stores it.
StoredContent == {c \in Content : \A d \in c.split : Several(c.assignees[d])}

Task == [decision : Decisions, assignees : SUBSET Users, individual : Users \cup {None}]

\* Every variable has its type; in particular a decision is stored as split
\* only if there are several to split it among, whatever was posted and when.
TypeOK ==
    /\ status \in Statuses
    /\ revision \in 0 .. MaxRevision
    /\ content \in StoredContent
    /\ approvals \in [Revisions -> [Users -> Answers]]
    /\ queue \in [Revisions -> [Users -> {"none", "open", "closed"}]]
    /\ tasks \subseteq Task
    /\ shown \in [Users -> 0 .. MaxRevision]
    /\ submitted \in [Tabs -> StoredContent \cup {None}]
    /\ enabled \subseteq Users /\ staff \subseteq Users
    /\ rows \subseteq Files /\ stored \subseteq Files
    /\ uploading \subseteq Files /\ unlinking \subseteq Files

\* A round is running exactly while somebody has yet to decide: a protocol is
\* never left in approval with nobody to sign it, and no approval of an
\* earlier revision is left pending.
RoundIsRunning ==
    /\ status = "APPROVAL" <=> Pending # {}
    /\ \A r \in Revisions, u \in Users : approvals[r][u] = "PENDING" => r = revision

\* The queue of the approvers is the round: a task to approve is open exactly
\* while its approval is pending, and a task of a row never goes missing.
QueueFollowsRound ==
    \A r \in Revisions, u \in Users :
        /\ queue[r][u] = "open" <=> approvals[r][u] = "PENDING"
        /\ queue[r][u] = "none" <=> approvals[r][u] = "none"

\* Who is asked, who has a task, and whether the protocol waits, are one fact
\* kept in three tables.
QueueIsTheRound == RoundIsRunning /\ QueueFollowsRound

\* An archived protocol was approved, in the revision that was archived, by
\* everybody the protocol as it is stored asks for, and by nobody else.
ArchivedWasApproved ==
    status = "ARCHIVED" =>
        {u \in Users : approvals[revision][u] = "APPROVED"} = RequiredApprovers(content)

\* A decision once given stays as it was given: later revisions have rows of
\* their own, and a return does not touch what was approved.
DecisionsAreHistory ==
    [][\A r \in Revisions, u \in Users :
          approvals[r][u] \notin {"none", "PENDING"} => approvals'[r][u] = approvals[r][u]]_vars

\* The archive hands every decision to each of its assignees once: in a task
\* of their own if it was to be split among several, else in one for all.
WorkIsHandedOutOnce ==
    \A d \in Decisions :
        LET of == {t \in tasks : t.decision = d}
        IN  /\ status # "ARCHIVED" => of = {}
            /\ status = "ARCHIVED" =>
                  \A u \in content.assignees[d] : Cardinality({t \in of : u \in t.assignees}) = 1
            /\ \A t \in of : /\ t.assignees # {} /\ t.assignees \subseteq content.assignees[d]
                             /\ t.individual # None <=> d \in content.split

\* The last approval archives what was approved and hands out its work.
LastApprovalArchives == ArchivedWasApproved /\ WorkIsHandedOutOnce

\* Nothing begun before the archive changes the protocol, its approvals, its
\* tasks or its attachments after it.
ArchiveIsFinal ==
    [][status = "ARCHIVED" =>
          UNCHANGED <<documentVars, roundVars, tasks, rows>>]_vars

\* What was decided stays decided, in a round and in the archive.
HistoryStands == DecisionsAreHistory /\ ArchiveIsFinal

\* The storage knows no transactions: an attachment that is listed has its
\* file nevertheless, however uploads and removals fail.
RowsHaveFiles == rows \subseteq stored

\* The protocol is signed off as SignOff says: its content does not change
\* under the approvers, and its work is handed out with the last approval.
Signed == IF status \in {"APPROVAL", "ARCHIVED"}
            THEN {u \in Users : approvals[revision][u] = "APPROVED"} ELSE {}

Stage == CASE status \in Editable -> "open"
           [] status = "APPROVAL"  -> "signing"
           [] status = "ARCHIVED"  -> "done"
           [] status = "deleted"   -> "gone"

\* A duty is a decision and one who carries it out.
Duties(c) == {duty \in Decisions \X Users : duty[2] \in c.assignees[duty[1]]}

HandedOut == {duty \in Decisions \X Users :
                 \E t \in tasks : t.decision = duty[1] /\ duty[2] \in t.assignees}

Office == INSTANCE SignOff
          WITH Texts <- Content, People <- Users,
               Required <- RequiredApprovers, Decided <- Duties,
               stage <- Stage, text <- content, signatures <- Signed, work <- HandedOut

SignsOff == Office!Spec

=============================================================================
