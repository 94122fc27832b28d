---------------------- MODULE ProtocolApproval_proofs ----------------------
(***************************************************************************)
(* Proofs about ProtocolApproval: its safety properties for any number of  *)
(* users, decisions, revisions, requests and files, and that it implements *)
(* SignOff.                                                                *)
(*                                                                         *)
(* What a step does to the round is stated once for each of the three      *)
(* actions that touch it (SendEffect, ApproveEffect, ReturnEffect) and     *)
(* once for all the others (QuietSteps); the invariants follow from those. *)
(***************************************************************************)
EXTENDS ProtocolApproval, FiniteSetTheorems, TLAPS

-----------------------------------------------------------------------------
(* Contents                                                                 *)

\* Only users approve.
LEMMA ApproversAreUsers == \A c \in Content : RequiredApprovers(c) \subseteq Users
  BY DEF RequiredApprovers, Content

\* What a save stores is content as _apply_actions stores it.
LEMMA NormalizedIsStored == \A c \in Contents : Normalized(c) \in StoredContent
  BY ProtocolAssumption DEF Normalized, StoredContent, Content

LEMMA BlankIsStored ==
    \A S \in SUBSET (Users \ {Author}) :
        [Blank EXCEPT !.signers = S] \in StoredContent /\ Blank \in StoredContent
  BY DEF Blank, StoredContent, Content

LEMMA StoredIsContent == StoredContent \subseteq Content
  BY DEF StoredContent

\* The tasks of a decision are tasks.
LEMMA BatchesAreTasks ==
    TypeOK => UNION {Batches(d) : d \in Actions(content)} \subseteq Task
  BY StoredIsContent DEF TypeOK, Content, Batches, Actions, Task

-----------------------------------------------------------------------------
(* What the steps do to the round                                           *)

\* How a round stands when it has just been opened for a content.
Opened(c, value) == [u \in Users |-> IF u \in RequiredApprovers(c) THEN value ELSE "none"]

LEMMA SendEffect ==
    ASSUME TypeOK, NEW t \in Tabs, Send(t)
    PROVE  /\ revision' = revision + 1 /\ revision' \in Revisions
           /\ approvals' = [approvals EXCEPT ![revision'] = Opened(content, "PENDING")]
           /\ queue' = [queue EXCEPT ![revision'] = Opened(content, "open")]
           /\ status \in Editable
           /\ ApproveOrFinalize(RequiredApprovers(content))
           /\ UNCHANGED <<content, shown, peopleVars, fileVars>>
  BY ProtocolAssumption DEF Send, NextRevision, TypeOK, Revisions, Opened

\* A round of approval has a revision.
LEMMA RoundHasRevision ==
    ASSUME TypeOK, Pending # {}
    PROVE  revision \in Revisions
  BY ProtocolAssumption DEF TypeOK, Pending, Revisions

LEMMA ApproveEffect ==
    ASSUME TypeOK, NEW u \in Users, Approve(u)
    PROVE  /\ revision' = revision /\ revision \in Revisions
           /\ approvals' = [approvals EXCEPT ![revision] = [@ EXCEPT ![u] = "APPROVED"]]
           /\ queue' = [queue EXCEPT ![revision] = [@ EXCEPT ![u] = "closed"]]
           /\ status = "APPROVAL" /\ u \in Pending
           /\ ApproveOrFinalize(Pending \ {u})
           /\ UNCHANGED <<content, peopleVars, fileVars>>
  BY RoundHasRevision DEF Approve, StillPending

LEMMA ReturnEffect ==
    ASSUME TypeOK, NEW u \in Users, ReturnForRevision(u)
    PROVE  /\ revision' = revision /\ revision \in Revisions
           /\ approvals' = [approvals EXCEPT ![revision] = ReturnedBy(u)]
           /\ queue' = [queue EXCEPT ![revision] = TasksClosed(u)]
           /\ status = "APPROVAL" /\ status' = "REVISION" /\ u \in Pending
           /\ UNCHANGED <<content, tasks, peopleVars, fileVars>>
  BY RoundHasRevision DEF ReturnForRevision

\* Every other step leaves the round and the tasks alone, and writes the
\* protocol only while it may be edited.
Quiet ==
    /\ UNCHANGED <<revision, roundVars, tasks>>
    /\ \/ UNCHANGED <<status, content>>
       \/ /\ status \in Editable /\ status' \in {status, "deleted"}
          /\ content' \in StoredContent

RoundStep ==
    \/ \E t \in Tabs : Send(t)
    \/ \E u \in Users : Approve(u) \/ ReturnForRevision(u)

LEMMA QuietSteps ==
    ASSUME TypeOK, [Next]_vars
    PROVE  RoundStep \/ Quiet
  <1>1. CASE DeleteDraft
    BY <1>1, BlankIsStored DEF DeleteDraft, Quiet, Editable
  <1>2. ASSUME NEW c \in Contents, SaveDraft(c)
        PROVE  Quiet
    BY <1>2, NormalizedIsStored DEF SaveDraft, CanEdit, Quiet
  <1>3. ASSUME NEW t \in Tabs, NEW c \in Contents, SaveForSubmit(t, c)
        PROVE  Quiet
    BY <1>3, NormalizedIsStored DEF SaveForSubmit, CanEdit, Quiet
  <1>4. ASSUME NEW t \in Tabs, DropSubmit(t)
        PROVE  Quiet
    BY <1>4 DEF DropSubmit, Quiet, documentVars
  <1>5. ASSUME NEW u \in Users, OpenPage(u)
        PROVE  Quiet
    BY <1>5 DEF OpenPage, Quiet, documentVars
  <1>6. ASSUME NEW f \in Files,
               WriteFile(f) \/ AddRow(f) \/ DropUpload(f) \/ RemoveRow(f) \/ RemoveFile(f)
        PROVE  Quiet
    BY <1>6 DEF WriteFile, AddRow, DropUpload, RemoveRow, RemoveFile, Quiet, documentVars
  <1>7. ASSUME NEW u \in MayLeave, SwitchAccount(u) \/ SwitchProfile(u)
        PROVE  Quiet
    BY <1>7 DEF SwitchAccount, SwitchProfile, Quiet, documentVars
  <1>8. CASE UNCHANGED vars
    BY <1>8 DEF vars, documentVars, Quiet
  <1> QED BY <1>1, <1>2, <1>3, <1>4, <1>5, <1>6, <1>7, <1>8 DEF Next, RoundStep

-----------------------------------------------------------------------------
(* Types                                                                    *)

LEMMA OpenedTypes ==
    \A c \in Content : /\ Opened(c, "PENDING") \in [Users -> Answers]
                       /\ Opened(c, "open") \in [Users -> {"none", "open", "closed"}]
  BY DEF Opened, Answers

LEMMA ReturnedTypes ==
    ASSUME TypeOK, revision \in Revisions, NEW u \in Users
    PROVE  /\ ReturnedBy(u) \in [Users -> Answers]
           /\ TasksClosed(u) \in [Users -> {"none", "open", "closed"}]
  BY DEF TypeOK, ReturnedBy, TasksClosed, Answers

LEMMA FinalizeTypes ==
    ASSUME TypeOK, NEW left, ApproveOrFinalize(left)
    PROVE  status' \in Statuses /\ tasks' \subseteq Task
  BY BatchesAreTasks DEF ApproveOrFinalize, TypeOK, Statuses

\* Writing the rows of one revision, or one row of it.
LEMMA RoundWritten ==
    \A r \in Revisions :
        /\ \A f \in [Revisions -> [Users -> Answers]], row \in [Users -> Answers] :
              [f EXCEPT ![r] = row] \in [Revisions -> [Users -> Answers]]
        /\ \A f \in [Revisions -> [Users -> {"none", "open", "closed"}]],
              row \in [Users -> {"none", "open", "closed"}] :
              [f EXCEPT ![r] = row] \in [Revisions -> [Users -> {"none", "open", "closed"}]]
  OBVIOUS

LEMMA RowWritten ==
    /\ \A row \in [Users -> Answers], u \in Users :
          [row EXCEPT ![u] = "APPROVED"] \in [Users -> Answers]
    /\ \A row \in [Users -> {"none", "open", "closed"}], u \in Users :
          [row EXCEPT ![u] = "closed"] \in [Users -> {"none", "open", "closed"}]
  BY DEF Answers

LEMMA RoundTypes ==
    ASSUME TypeOK, RoundStep
    PROVE  TypeOK'
  <1>1. ASSUME NEW t \in Tabs, Send(t)
        PROVE  TypeOK'
    <2>1. status' \in Statuses /\ tasks' \subseteq Task
      BY <1>1, SendEffect, FinalizeTypes
    <2>2. /\ approvals' \in [Revisions -> [Users -> Answers]]
          /\ queue' \in [Revisions -> [Users -> {"none", "open", "closed"}]]
      <3>1. /\ content \in Content /\ revision' \in Revisions /\ Author \in Users
            /\ approvals \in [Revisions -> [Users -> Answers]]
            /\ queue \in [Revisions -> [Users -> {"none", "open", "closed"}]]
        BY <1>1, SendEffect, StoredIsContent, ProtocolAssumption DEF TypeOK
      <3>2. /\ Opened(content, "PENDING") \in [Users -> Answers]
            /\ Opened(content, "open") \in [Users -> {"none", "open", "closed"}]
        BY <3>1, OpenedTypes
      <3> QED BY <1>1, SendEffect, <3>1, <3>2, RoundWritten
    <2>3. submitted' \in [Tabs -> StoredContent \cup {None}]
      BY <1>1 DEF Send, TypeOK
    <2> QED BY <1>1, SendEffect, <2>1, <2>2, <2>3 DEF TypeOK, Revisions, peopleVars, fileVars
  <1>2. ASSUME NEW u \in Users, Approve(u)
        PROVE  TypeOK'
    <2>1. status' \in Statuses /\ tasks' \subseteq Task
      BY <1>2, ApproveEffect, FinalizeTypes
    <2>2. /\ approvals' \in [Revisions -> [Users -> Answers]]
          /\ queue' \in [Revisions -> [Users -> {"none", "open", "closed"}]]
      <3>1. /\ revision \in Revisions /\ "APPROVED" \in Answers
            /\ approvals \in [Revisions -> [Users -> Answers]]
            /\ queue \in [Revisions -> [Users -> {"none", "open", "closed"}]]
        BY <1>2, ApproveEffect DEF TypeOK, Answers
      <3>2. /\ [approvals[revision] EXCEPT ![u] = "APPROVED"] \in [Users -> Answers]
            /\ [queue[revision] EXCEPT ![u] = "closed"] \in [Users -> {"none", "open", "closed"}]
        BY <3>1, RowWritten
      <3>3. /\ approvals' = [approvals EXCEPT ![revision] =
                                [approvals[revision] EXCEPT ![u] = "APPROVED"]]
            /\ queue' = [queue EXCEPT ![revision] = [queue[revision] EXCEPT ![u] = "closed"]]
        BY <1>2, ApproveEffect, <3>1
      <3> QED BY <3>1, <3>2, <3>3, RoundWritten
    <2>3. shown' \in [Users -> 0 .. MaxRevision] /\ submitted' = submitted
      BY <1>2, ProtocolAssumption DEF Approve, TypeOK
    <2> QED BY <1>2, ApproveEffect, <2>1, <2>2, <2>3 DEF TypeOK, peopleVars, fileVars
  <1>3. ASSUME NEW u \in Users, ReturnForRevision(u)
        PROVE  TypeOK'
    <2>1. /\ approvals' \in [Revisions -> [Users -> Answers]]
          /\ queue' \in [Revisions -> [Users -> {"none", "open", "closed"}]]
      BY <1>3, ReturnEffect, ReturnedTypes DEF TypeOK
    <2>2. shown' \in [Users -> 0 .. MaxRevision] /\ submitted' = submitted
      BY <1>3, ProtocolAssumption DEF ReturnForRevision, TypeOK
    <2> QED BY <1>3, ReturnEffect, <2>1, <2>2 DEF TypeOK, Statuses, peopleVars, fileVars
  <1> QED BY <1>1, <1>2, <1>3 DEF RoundStep

LEMMA TypeInit == Init => TypeOK
  BY BlankIsStored, ProtocolAssumption
  DEF Init, TypeOK, Statuses, Answers

LEMMA TypeNext == TypeOK /\ [Next]_vars => TypeOK'
  <1> SUFFICES ASSUME TypeOK, [Next]_vars
               PROVE  TypeOK'
    OBVIOUS
  <1> USE DEF TypeOK
  <1>1. CASE RoundStep
    BY <1>1, RoundTypes
  <1>2. CASE DeleteDraft
    BY <1>2, BlankIsStored DEF DeleteDraft, Statuses, roundVars, peopleVars
  <1>3. ASSUME NEW c \in Contents, SaveDraft(c)
        PROVE  TypeOK'
    BY <1>3, NormalizedIsStored DEF SaveDraft, roundVars, peopleVars, fileVars
  <1>4. ASSUME NEW t \in Tabs, NEW c \in Contents, SaveForSubmit(t, c)
        PROVE  TypeOK'
    BY <1>4, NormalizedIsStored DEF SaveForSubmit, roundVars, peopleVars, fileVars
  <1>5. ASSUME NEW t \in Tabs, DropSubmit(t)
        PROVE  TypeOK'
    BY <1>5 DEF DropSubmit, documentVars, roundVars, peopleVars, fileVars
  <1>6. ASSUME NEW u \in Users, OpenPage(u)
        PROVE  TypeOK'
    BY <1>6 DEF OpenPage, documentVars, roundVars, peopleVars, fileVars
  <1>7. ASSUME NEW f \in Files,
               WriteFile(f) \/ AddRow(f) \/ DropUpload(f) \/ RemoveRow(f) \/ RemoveFile(f)
        PROVE  TypeOK'
    BY <1>7 DEF WriteFile, AddRow, UploadsLeft, DropUpload, RemoveRow, RemoveFile,
                documentVars, roundVars, peopleVars
  <1>8. ASSUME NEW u \in MayLeave, SwitchAccount(u) \/ SwitchProfile(u)
        PROVE  TypeOK'
    BY <1>8, ProtocolAssumption
    DEF SwitchAccount, SwitchProfile, Toggled, documentVars, roundVars, fileVars
  <1>9. CASE UNCHANGED vars
    BY <1>9 DEF vars, documentVars, roundVars, peopleVars, fileVars
  <1> QED BY <1>1, <1>2, <1>3, <1>4, <1>5, <1>6, <1>7, <1>8, <1>9 DEF Next, RoundStep

\* Every reachable state is well typed, and no decision is stored as split
\* that has not several to be split among.
THEOREM TypeCorrect == Spec => []TypeOK
  BY TypeInit, TypeNext, PTL DEF Spec

-----------------------------------------------------------------------------
(* Rounds                                                                   *)

\* What a round step leaves in each row.
LEMMA SentRows ==
    ASSUME TypeOK, NEW t \in Tabs, Send(t), NEW r \in Revisions, NEW u \in Users
    PROVE  /\ r # revision' => approvals'[r][u] = approvals[r][u] /\ queue'[r][u] = queue[r][u]
           /\ r = revision' =>
                 IF u \in RequiredApprovers(content)
                   THEN approvals'[r][u] = "PENDING" /\ queue'[r][u] = "open"
                   ELSE approvals'[r][u] = "none" /\ queue'[r][u] = "none"
  <1>1. /\ approvals \in [Revisions -> [Users -> Answers]]
        /\ queue \in [Revisions -> [Users -> {"none", "open", "closed"}]]
    BY DEF TypeOK
  <1> QED BY <1>1, SendEffect DEF Opened

LEMMA ApprovedRows ==
    ASSUME TypeOK, NEW u \in Users, Approve(u), NEW r \in Revisions, NEW v \in Users
    PROVE  IF r = revision /\ v = u
             THEN approvals'[r][v] = "APPROVED" /\ queue'[r][v] = "closed"
             ELSE approvals'[r][v] = approvals[r][v] /\ queue'[r][v] = queue[r][v]
  <1>1. /\ approvals \in [Revisions -> [Users -> Answers]]
        /\ queue \in [Revisions -> [Users -> {"none", "open", "closed"}]]
    BY DEF TypeOK
  <1>2. /\ revision \in Revisions
        /\ approvals' = [approvals EXCEPT ![revision] = [approvals[revision] EXCEPT ![u] = "APPROVED"]]
        /\ queue' = [queue EXCEPT ![revision] = [queue[revision] EXCEPT ![u] = "closed"]]
    BY <1>1, ApproveEffect
  <1>3. r # revision => approvals'[r] = approvals[r] /\ queue'[r] = queue[r]
    BY <1>1, <1>2
  <1>4. r = revision => /\ approvals'[r] = [approvals[r] EXCEPT ![u] = "APPROVED"]
                        /\ queue'[r] = [queue[r] EXCEPT ![u] = "closed"]
    BY <1>1, <1>2
  <1>5. /\ approvals[r] \in [Users -> Answers]
        /\ queue[r] \in [Users -> {"none", "open", "closed"}]
    BY <1>1
  <1> QED BY <1>3, <1>4, <1>5

LEMMA ReturnedRows ==
    ASSUME TypeOK, NEW u \in Users, ReturnForRevision(u), NEW r \in Revisions, NEW v \in Users
    PROVE  IF r = revision /\ approvals[r][v] = "PENDING"
             THEN approvals'[r][v] \in {"RETURNED", "CANCELLED"} /\ queue'[r][v] = "closed"
             ELSE approvals'[r][v] = approvals[r][v] /\ queue'[r][v] = queue[r][v]
  <1>1. /\ approvals \in [Revisions -> [Users -> Answers]]
        /\ queue \in [Revisions -> [Users -> {"none", "open", "closed"}]]
    BY DEF TypeOK
  <1>2. r # revision => approvals'[r] = approvals[r] /\ queue'[r] = queue[r]
    BY <1>1, ReturnEffect
  <1>3. r = revision => approvals'[r] = ReturnedBy(u) /\ queue'[r] = TasksClosed(u)
    BY <1>1, ReturnEffect
  <1>4. revision # 0 /\ u \in Pending
    BY ReturnEffect, ProtocolAssumption DEF Revisions
  <1>5. v \in Pending <=> approvals[revision][v] = "PENDING"
    BY <1>4 DEF Pending
  <1> QED BY <1>2, <1>3, <1>4, <1>5 DEF ReturnedBy, TasksClosed

LEMMA QueueInit == Init => QueueFollowsRound
  BY DEF Init, QueueFollowsRound

LEMMA QueueNext == TypeOK /\ QueueFollowsRound /\ [Next]_vars => QueueFollowsRound'
  <1> SUFFICES ASSUME TypeOK, QueueFollowsRound, [Next]_vars,
                      NEW r \in Revisions, NEW u \in Users
               PROVE  /\ queue'[r][u] = "open" <=> approvals'[r][u] = "PENDING"
                      /\ queue'[r][u] = "none" <=> approvals'[r][u] = "none"
    BY DEF QueueFollowsRound
  <1>1. /\ queue[r][u] = "open" <=> approvals[r][u] = "PENDING"
        /\ queue[r][u] = "none" <=> approvals[r][u] = "none"
    BY DEF QueueFollowsRound
  <1>2. ASSUME NEW t \in Tabs, Send(t)
        PROVE  /\ queue'[r][u] = "open" <=> approvals'[r][u] = "PENDING"
               /\ queue'[r][u] = "none" <=> approvals'[r][u] = "none"
    BY <1>1, <1>2, SentRows
  <1>3. ASSUME NEW v \in Users, Approve(v)
        PROVE  /\ queue'[r][u] = "open" <=> approvals'[r][u] = "PENDING"
               /\ queue'[r][u] = "none" <=> approvals'[r][u] = "none"
    BY <1>1, <1>3, ApprovedRows
  <1>4. ASSUME NEW v \in Users, ReturnForRevision(v)
        PROVE  /\ queue'[r][u] = "open" <=> approvals'[r][u] = "PENDING"
               /\ queue'[r][u] = "none" <=> approvals'[r][u] = "none"
    BY <1>1, <1>4, ReturnedRows
  <1>5. CASE Quiet
    BY <1>1, <1>5 DEF Quiet, roundVars
  <1> QED BY <1>2, <1>3, <1>4, <1>5, QuietSteps DEF RoundStep

\* The queue of the approvers follows the round at every moment.
THEOREM QueueAndRoundAgree == Spec => []QueueFollowsRound
  BY QueueInit, QueueNext, TypeCorrect, PTL DEF Spec

\* RoundIsRunning is inductive by itself: a round is opened only when none is
\* running, and the step that decides the last approval ends it.
LEMMA RunningInit == Init => RoundIsRunning
  BY DEF Init, RoundIsRunning, Pending

LEMMA RunningNext == TypeOK /\ RoundIsRunning /\ [Next]_vars => RoundIsRunning'
  <1> SUFFICES ASSUME TypeOK, RoundIsRunning, [Next]_vars
               PROVE  RoundIsRunning'
    OBVIOUS
  <1>1. \A r \in Revisions, u \in Users : approvals[r][u] = "PENDING" => r = revision /\ r # 0
    BY ProtocolAssumption DEF RoundIsRunning, Revisions
  <1>2. ASSUME NEW t \in Tabs, Send(t)
        PROVE  RoundIsRunning'
    <2>1. Pending = {} /\ revision' \in Revisions /\ revision' # 0
      BY <1>2, SendEffect, ProtocolAssumption DEF RoundIsRunning, Editable, Revisions
    <2>2. RequiredApprovers(content) \subseteq Users
      BY ApproversAreUsers, StoredIsContent DEF TypeOK
    <2>3. \A r \in Revisions, u \in Users :
             approvals'[r][u] = "PENDING" <=> r = revision' /\ u \in RequiredApprovers(content)
      <3>1. \A r \in Revisions, u \in Users : approvals[r][u] # "PENDING"
        BY <1>1, <2>1 DEF Pending
      <3> QED BY <1>2, <3>1, SentRows
    <2>4. Pending' = RequiredApprovers(content)
      BY <2>1, <2>2, <2>3 DEF Pending
    <2>5. status' = "APPROVAL" <=> RequiredApprovers(content) # {}
      BY <1>2, SendEffect DEF ApproveOrFinalize
    <2> QED BY <2>3, <2>4, <2>5 DEF RoundIsRunning
  <1>3. ASSUME NEW u \in Users, Approve(u)
        PROVE  RoundIsRunning'
    <2>1. revision' = revision /\ revision \in Revisions /\ revision # 0
      <3>1. revision' = revision /\ revision \in Revisions
        BY <1>3, ApproveEffect
      <3> QED BY <3>1, ProtocolAssumption DEF Revisions
    <2>2. \A r \in Revisions, v \in Users :
             approvals'[r][v] = "PENDING" => approvals[r][v] = "PENDING" /\ r = revision
      BY <1>1, <1>3, ApprovedRows
    <2>3. \A v \in Users :
             approvals'[revision][v] = "PENDING" <=> v # u /\ approvals[revision][v] = "PENDING"
      BY <1>3, <2>1, ApprovedRows
    <2>4. Pending' = Pending \ {u}
      BY <2>1, <2>3 DEF Pending
    <2>5. status' = "APPROVAL" <=> Pending \ {u} # {}
      BY <1>3, ApproveEffect DEF ApproveOrFinalize
    <2> QED BY <2>1, <2>2, <2>4, <2>5 DEF RoundIsRunning
  <1>4. ASSUME NEW u \in Users, ReturnForRevision(u)
        PROVE  RoundIsRunning'
    <2>1. revision' = revision /\ revision \in Revisions /\ status' = "REVISION"
      BY <1>4, ReturnEffect
    <2>2. \A r \in Revisions, v \in Users : approvals'[r][v] # "PENDING"
      BY <1>1, <1>4, ReturnedRows
    <2>3. Pending' = {}
      BY <2>1, <2>2 DEF Pending
    <2> QED BY <2>1, <2>2, <2>3 DEF RoundIsRunning
  <1>5. CASE Quiet
    <2>1. Pending' = Pending
      BY <1>5 DEF Quiet, Pending, roundVars
    <2>2. status' = "APPROVAL" <=> status = "APPROVAL"
      BY <1>5 DEF Quiet, Editable
    <2> QED BY <1>5, <2>1, <2>2 DEF RoundIsRunning, Quiet, roundVars
  <1> QED BY <1>2, <1>3, <1>4, <1>5, QuietSteps DEF RoundStep

\* A round is running exactly while somebody has yet to decide.
THEOREM RoundsEnd == Spec => []RoundIsRunning
  BY RunningInit, RunningNext, TypeCorrect, PTL DEF Spec

-----------------------------------------------------------------------------
(* Decisions                                                                *)

\* No row of a revision to come has been written.
Fresh == \A r \in Revisions, u \in Users : r > revision => approvals[r][u] = "none"

LEMMA FreshInit == Init => Fresh
  BY DEF Init, Fresh

LEMMA FreshNext == TypeOK /\ Fresh /\ [Next]_vars => Fresh'
  <1> SUFFICES ASSUME TypeOK, Fresh, [Next]_vars,
                      NEW r \in Revisions, NEW u \in Users, r > revision'
               PROVE  approvals'[r][u] = "none"
    BY DEF Fresh
  <1>1. r \in Int /\ revision \in Int
    BY DEF TypeOK, Revisions
  <1>2. ASSUME NEW t \in Tabs, Send(t)
        PROVE  approvals'[r][u] = "none"
    <2>1. revision' = revision + 1
      BY <1>2, SendEffect
    <2>2. r # revision' /\ r > revision
      BY <1>1, <2>1
    <2> QED BY <1>2, <2>2, SentRows DEF Fresh
  <1>3. ASSUME NEW v \in Users, Approve(v) \/ ReturnForRevision(v)
        PROVE  approvals'[r][u] = "none"
    <2>1. revision' = revision
      BY <1>3, ApproveEffect, ReturnEffect
    <2>2. r # revision /\ r > revision
      BY <1>1, <2>1
    <2> QED BY <1>3, <2>2, ApprovedRows, ReturnedRows DEF Fresh
  <1>4. CASE Quiet
    BY <1>4 DEF Quiet, Fresh, roundVars
  <1> QED BY <1>2, <1>3, <1>4, QuietSteps DEF RoundStep

\* What was approved, returned or cancelled stays so.
LEMMA HistoryStep ==
    ASSUME TypeOK, Fresh, [Next]_vars, NEW r \in Revisions, NEW u \in Users,
           approvals[r][u] \notin {"none", "PENDING"}
    PROVE  approvals'[r][u] = approvals[r][u]
  <1>1. ASSUME NEW t \in Tabs, Send(t)
        PROVE  approvals'[r][u] = approvals[r][u]
    <2>1. revision' = revision + 1 /\ revision \in Int /\ r \in Int
      BY <1>1, SendEffect DEF TypeOK, Revisions
    <2>2. ~(r > revision)
      BY DEF Fresh
    <2>3. r # revision'
      BY <2>1, <2>2
    <2> QED BY <1>1, <2>3, SentRows
  <1>2. ASSUME NEW v \in Users, Approve(v)
        PROVE  approvals'[r][u] = approvals[r][u]
    <2>1. v \in Pending /\ revision \in Revisions
      BY <1>2, ApproveEffect
    <2>2. ~(r = revision /\ u = v)
      BY <2>1 DEF Pending
    <2> QED BY <1>2, <2>2, ApprovedRows
  <1>3. ASSUME NEW v \in Users, ReturnForRevision(v)
        PROVE  approvals'[r][u] = approvals[r][u]
    BY <1>3, ReturnedRows
  <1>4. CASE Quiet
    BY <1>4 DEF Quiet, roundVars
  <1> QED BY <1>1, <1>2, <1>3, <1>4, QuietSteps DEF RoundStep

\* A decision once given stays as it was given.
THEOREM DecisionsStay == Spec => DecisionsAreHistory
  <1>1. TypeOK /\ Fresh /\ [Next]_vars =>
          [\A r \in Revisions, u \in Users :
              approvals[r][u] \notin {"none", "PENDING"} => approvals'[r][u] = approvals[r][u]]_vars
    BY HistoryStep
  <1> QED BY <1>1, FreshInit, FreshNext, TypeCorrect, PTL DEF Spec, DecisionsAreHistory

-----------------------------------------------------------------------------
(* The archive                                                              *)

\* While it is in approval, and once it is archived, the rows of the current
\* revision are those of the people the stored content asks for.
Asked ==
    status \in {"APPROVAL", "ARCHIVED"} =>
        /\ revision \in Revisions
        /\ \A u \in Users :
              IF u \in RequiredApprovers(content)
                THEN approvals[revision][u] \in {"PENDING", "APPROVED"}
                ELSE approvals[revision][u] = "none"

LEMMA AskedInit == Init => Asked
  BY DEF Init, Asked

LEMMA AskedNext == TypeOK /\ Asked /\ [Next]_vars => Asked'
  <1> SUFFICES ASSUME TypeOK, Asked, [Next]_vars, status' \in {"APPROVAL", "ARCHIVED"}
               PROVE  Asked'
    BY DEF Asked
  <1>1. ASSUME NEW t \in Tabs, Send(t)
        PROVE  Asked'
    <2>1. revision' \in Revisions /\ content' = content
      BY <1>1, SendEffect
    <2> QED BY <1>1, <2>1, SentRows DEF Asked
  <1>2. ASSUME NEW u \in Users, Approve(u)
        PROVE  Asked'
    <2>1. revision' = revision /\ revision \in Revisions /\ content' = content
      BY <1>2, ApproveEffect
    <2>2. u \in RequiredApprovers(content)
      BY <1>2, ApproveEffect DEF Pending, Asked
    <2>3. status = "APPROVAL"
      BY <1>2, ApproveEffect
    <2> QED BY <1>2, <2>1, <2>2, <2>3, ApprovedRows DEF Asked
  <1>3. ASSUME NEW u \in Users, ReturnForRevision(u)
        PROVE  Asked'
    BY <1>3, ReturnEffect
  <1>4. CASE Quiet
    BY <1>4 DEF Quiet, Asked, roundVars, Editable
  <1> QED BY <1>1, <1>2, <1>3, <1>4, QuietSteps DEF RoundStep

LEMMA AskedAndDone ==
    ASSUME TypeOK, Asked, RoundIsRunning
    PROVE  ArchivedWasApproved
  <1> SUFFICES ASSUME status = "ARCHIVED"
               PROVE  {u \in Users : approvals[revision][u] = "APPROVED"}
                        = RequiredApprovers(content)
    BY DEF ArchivedWasApproved
  <1>1. RequiredApprovers(content) \subseteq Users
    BY ApproversAreUsers, StoredIsContent DEF TypeOK
  <1>2. \A u \in Users : approvals[revision][u] # "PENDING"
    BY ProtocolAssumption DEF RoundIsRunning, Pending, Asked, Revisions
  <1> QED BY <1>1, <1>2 DEF Asked

\* An archived protocol was approved, as archived, by all it asks for.
THEOREM ArchiveIsApproved == Spec => []ArchivedWasApproved
  BY AskedInit, AskedNext, AskedAndDone, RoundsEnd, TypeCorrect, PTL DEF Spec

\* No row of an attachment comes or goes once the protocol is archived.
LEMMA RowsAreKept ==
    ASSUME TypeOK, [Next]_vars, status = "ARCHIVED"
    PROVE  rows' = rows
  BY DEF Next, vars, fileVars, DeleteDraft, SaveDraft, SaveForSubmit, Send, DropSubmit,
         OpenPage, Approve, ReturnForRevision, WriteFile, AddRow, MayAttach, AcceptsFiles,
         DropUpload, RemoveRow, RemoveFile, SwitchAccount, SwitchProfile

\* Nothing changes an archived protocol.
THEOREM ArchiveStays == Spec => ArchiveIsFinal
  <1>1. ASSUME TypeOK, [Next]_vars, status = "ARCHIVED"
        PROVE  UNCHANGED <<documentVars, roundVars, tasks, rows>>
    <2>1. ~RoundStep
      BY <1>1 DEF RoundStep, Send, Editable, Approve, ReturnForRevision
    <2>2. Quiet
      BY <1>1, <2>1, QuietSteps
    <2> QED BY <1>1, <2>2, RowsAreKept DEF Quiet, Editable, documentVars
  <1>2. TypeOK /\ [Next]_vars =>
          [status = "ARCHIVED" => UNCHANGED <<documentVars, roundVars, tasks, rows>>]_vars
    BY <1>1
  <1> QED BY <1>2, TypeCorrect, PTL DEF Spec, ArchiveIsFinal

-----------------------------------------------------------------------------
(* The work                                                                 *)

\* There are tasks for what the archived protocol decides, and no others.
HandedOver ==
    tasks = IF status = "ARCHIVED" THEN UNION {Batches(d) : d \in Actions(content)} ELSE {}

LEMMA HandedInit == Init => HandedOver
  BY DEF Init, HandedOver

LEMMA HandedNext == TypeOK /\ HandedOver /\ [Next]_vars => HandedOver'
  <1> SUFFICES ASSUME TypeOK, HandedOver, [Next]_vars
               PROVE  HandedOver'
    OBVIOUS
  <1>1. ASSUME NEW left, ApproveOrFinalize(left), content' = content, status # "ARCHIVED"
        PROVE  HandedOver'
    BY <1>1 DEF ApproveOrFinalize, HandedOver, Batches, Actions
  <1>2. ASSUME NEW t \in Tabs, Send(t)
        PROVE  HandedOver'
    BY <1>1, <1>2, SendEffect DEF Editable
  <1>3. ASSUME NEW u \in Users, Approve(u)
        PROVE  HandedOver'
    BY <1>1, <1>3, ApproveEffect
  <1>4. ASSUME NEW u \in Users, ReturnForRevision(u)
        PROVE  HandedOver'
    BY <1>4, ReturnEffect DEF HandedOver
  <1>5. CASE Quiet
    BY <1>5 DEF Quiet, HandedOver, Editable, Batches, Actions
  <1> QED BY <1>2, <1>3, <1>4, <1>5, QuietSteps DEF RoundStep

\* The tasks of one decision are its batches.
LEMMA TasksOfDecision ==
    ASSUME HandedOver, status = "ARCHIVED", NEW d \in Decisions
    PROVE  {t \in tasks : t.decision = d} = IF d \in Actions(content) THEN Batches(d) ELSE {}
  BY DEF HandedOver, Batches

LEMMA HandedOutOnce ==
    ASSUME TypeOK, HandedOver
    PROVE  WorkIsHandedOutOnce
  <1> SUFFICES ASSUME NEW d \in Decisions
               PROVE  LET of == {t \in tasks : t.decision = d}
                      IN  /\ status # "ARCHIVED" => of = {}
                          /\ status = "ARCHIVED" =>
                                \A u \in content.assignees[d] :
                                    Cardinality({t \in of : u \in t.assignees}) = 1
                          /\ \A t \in of : /\ t.assignees # {}
                                           /\ t.assignees \subseteq content.assignees[d]
                                           /\ t.individual # None <=> d \in content.split
    BY DEF WorkIsHandedOutOnce
  <1> DEFINE of == {t \in tasks : t.decision = d}
  <1>1. status # "ARCHIVED" => of = {}
    BY DEF HandedOver
  <1>2. ASSUME status = "ARCHIVED", NEW u \in content.assignees[d]
        PROVE  Cardinality({t \in of : u \in t.assignees}) = 1
    <2>1. of = Batches(d)
      BY <1>2, TasksOfDecision DEF Actions
    <2>2. \E t : {s \in Batches(d) : u \in s.assignees} = {t}
      <3>1. CASE d \in content.split
        <4> DEFINE own == [decision |-> d, assignees |-> {u}, individual |-> u]
        <4>1. own \in Batches(d) /\ u \in own.assignees
          BY <1>2, <3>1 DEF Batches
        <4>2. \A s \in Batches(d) : u \in s.assignees => s = own
          BY <3>1 DEF Batches
        <4> HIDE DEF own
        <4> QED BY <4>1, <4>2
      <3>2. CASE d \notin content.split
        <4> DEFINE all == [decision |-> d, assignees |-> content.assignees[d], individual |-> None]
        <4>1. Batches(d) = {all} /\ u \in all.assignees
          BY <1>2, <3>2 DEF Batches
        <4> HIDE DEF all
        <4> QED BY <4>1
      <3> QED BY <3>1, <3>2
    <2> QED BY <2>1, <2>2, FS_Singleton
  <1>3. ASSUME NEW t \in of
        PROVE  /\ t.assignees # {} /\ t.assignees \subseteq content.assignees[d]
               /\ t.individual # None <=> d \in content.split
    <2>1. status = "ARCHIVED" /\ d \in Actions(content) /\ t \in Batches(d)
      BY <1>1, <1>3, TasksOfDecision
    <2>2. content.assignees[d] \subseteq Users /\ content.assignees[d] # {} /\ None \notin Users
      BY <2>1, StoredIsContent, ProtocolAssumption DEF TypeOK, Content, Actions
    <2> QED BY <2>1, <2>2 DEF Batches
  <1> QED BY <1>1, <1>2, <1>3

\* The archive hands every decision to each of its assignees once.
THEOREM WorkGoesOutOnce == Spec => []WorkIsHandedOutOnce
  BY HandedInit, HandedNext, HandedOutOnce, TypeCorrect, PTL DEF Spec

-----------------------------------------------------------------------------
(* Files                                                                    *)

\* A file is in one place at a time: listed, on its way in or on its way out;
\* in each of them it is in the storage.
FilesInPlace ==
    /\ rows \cup uploading \cup unlinking \subseteq stored
    /\ rows \cap uploading = {} /\ rows \cap unlinking = {} /\ uploading \cap unlinking = {}

LEMMA FilesInit == Init => FilesInPlace
  BY DEF Init, FilesInPlace

LEMMA FilesNext == FilesInPlace /\ [Next]_vars => FilesInPlace'
  <1> SUFFICES ASSUME FilesInPlace, [Next]_vars
               PROVE  FilesInPlace'
    OBVIOUS
  <1> USE DEF FilesInPlace
  <1>1. CASE UNCHANGED fileVars
    BY <1>1 DEF fileVars
  <1>2. CASE DeleteDraft
    BY <1>2 DEF DeleteDraft
  <1>3. ASSUME NEW f \in Files, WriteFile(f)
        PROVE  FilesInPlace'
    BY <1>3 DEF WriteFile
  <1>4. ASSUME NEW f \in Files, AddRow(f)
        PROVE  FilesInPlace'
    BY <1>4 DEF AddRow, UploadsLeft
  <1>5. ASSUME NEW f \in Files, DropUpload(f)
        PROVE  FilesInPlace'
    BY <1>5 DEF DropUpload
  <1>6. ASSUME NEW f \in Files, RemoveRow(f) \/ RemoveFile(f)
        PROVE  FilesInPlace'
    BY <1>6 DEF RemoveRow, RemoveFile
  <1>7. [Next]_vars =>
          \/ UNCHANGED fileVars \/ DeleteDraft
          \/ \E f \in Files : WriteFile(f) \/ AddRow(f) \/ DropUpload(f) \/ RemoveRow(f) \/ RemoveFile(f)
    BY DEF Next, vars, SaveDraft, SaveForSubmit, Send, DropSubmit, OpenPage, Approve,
           ReturnForRevision, SwitchAccount, SwitchProfile
  <1> QED BY <1>1, <1>2, <1>3, <1>4, <1>5, <1>6, <1>7

\* An attachment that is listed has its file, however uploads and removals
\* fail or are cut off.
THEOREM AttachmentsHaveFiles == Spec => []RowsHaveFiles
  <1>1. FilesInPlace => RowsHaveFiles
    BY DEF FilesInPlace, RowsHaveFiles
  <1> QED BY <1>1, FilesInit, FilesNext, PTL DEF Spec

-----------------------------------------------------------------------------
(* The protocol is signed off                                               *)

\* The duties handed out are those of the stored content.
DutiesKnown == HandedOut = IF status = "ARCHIVED" THEN Duties(content) ELSE {}

LEMMA DutiesHandedOut == TypeOK /\ HandedOver => DutiesKnown
  <1> SUFFICES ASSUME TypeOK, HandedOver
               PROVE  HandedOut = IF status = "ARCHIVED" THEN Duties(content) ELSE {}
    BY DEF DutiesKnown
  <1>1. CASE status # "ARCHIVED"
    BY <1>1 DEF HandedOver, HandedOut
  <1>2. CASE status = "ARCHIVED"
    <2>1. ASSUME NEW d \in Decisions, NEW u \in Users
          PROVE  (\E t \in tasks : t.decision = d /\ u \in t.assignees)
                   <=> u \in content.assignees[d]
      <3>1. (\E t \in tasks : t.decision = d /\ u \in t.assignees)
              <=> d \in Actions(content) /\ \E t \in Batches(d) : u \in t.assignees
        BY <1>2, TasksOfDecision
      <3>2. (\E t \in Batches(d) : u \in t.assignees) <=> u \in content.assignees[d]
        <4>1. CASE d \in content.split
          <5>1. \A v \in content.assignees[d] :
                   [decision |-> d, assignees |-> {v}, individual |-> v] \in Batches(d)
            BY <4>1 DEF Batches
          <5>2. \A t \in Batches(d) : \E v \in content.assignees[d] : t.assignees = {v}
            BY <4>1 DEF Batches
          <5> QED BY <5>1, <5>2
        <4>2. CASE d \notin content.split
          <5> DEFINE all == [decision |-> d, assignees |-> content.assignees[d], individual |-> None]
          <5>1. Batches(d) = {all} /\ all.assignees = content.assignees[d]
            BY <4>2 DEF Batches
          <5> HIDE DEF all
          <5> QED BY <5>1
        <4> QED BY <4>1, <4>2
      <3> QED BY <3>1, <3>2 DEF Actions
    <2>2. ASSUME NEW duty \in Decisions \X Users
          PROVE  (\E t \in tasks : t.decision = duty[1] /\ duty[2] \in t.assignees)
                   <=> duty[2] \in content.assignees[duty[1]]
      <3>1. duty[1] \in Decisions /\ duty[2] \in Users
        OBVIOUS
      <3> QED BY <3>1, <2>1
    <2> QED BY <1>2, <2>2 DEF HandedOut, Duties
  <1> QED BY <1>1, <1>2

SignOffInv == TypeOK /\ RoundIsRunning /\ Asked /\ HandedOver

\* The signatures, while they are collected and at the end.
SignaturesKnown ==
    status \in {"APPROVAL", "ARCHIVED"} =>
        /\ Signed = RequiredApprovers(content) \ Pending
        /\ Pending \subseteq RequiredApprovers(content)

LEMMA SignedWhileSigning == SignOffInv => SignaturesKnown
  <1> SUFFICES ASSUME SignOffInv, status \in {"APPROVAL", "ARCHIVED"}
               PROVE  /\ Signed = RequiredApprovers(content) \ Pending
                      /\ Pending \subseteq RequiredApprovers(content)
    BY DEF SignaturesKnown
  <1>1. RequiredApprovers(content) \subseteq Users
    BY ApproversAreUsers, StoredIsContent DEF SignOffInv, TypeOK
  <1>2. revision # 0
    BY ProtocolAssumption DEF SignOffInv, Asked, Revisions
  <1> QED BY <1>1, <1>2 DEF SignOffInv, Asked, Signed, Pending

LEMMA KnownNext == SignOffInv' => SignaturesKnown' /\ DutiesKnown'
  <1>1. SignOffInv => SignaturesKnown /\ DutiesKnown
    BY SignedWhileSigning, DutiesHandedOut DEF SignOffInv
  <1> QED BY <1>1, PTL

\* A step that leaves somebody, or nobody, to sign collects the signatures of
\* all the others.
LEMMA FinalizeCollects ==
    ASSUME SignOffInv, SignOffInv', NEW left, ApproveOrFinalize(left), left = Pending',
           status # "ARCHIVED", content' = content, NEW signed,
           signed = RequiredApprovers(content) \ left
    PROVE  Office!Collected(signed)
  <1>1. status' \in {"APPROVAL", "ARCHIVED"} /\ (status' = "ARCHIVED" <=> left = {})
    BY DEF ApproveOrFinalize
  <1>2. Signed' = signed /\ left \subseteq RequiredApprovers(content)
    <2>1. RequiredApprovers(content)' = RequiredApprovers(content)
      BY DEF RequiredApprovers
    <2> QED BY <1>1, <2>1, KnownNext DEF SignaturesKnown
  <1>3. signed = RequiredApprovers(content) <=> left = {}
    BY <1>2
  <1>4. Stage' = IF left = {} THEN "done" ELSE "signing"
    BY <1>1 DEF Stage, Editable
  <1>5. HandedOut' = (IF left = {} THEN Duties(content) ELSE {}) /\ HandedOut = {}
    <2>1. Duties(content)' = Duties(content)
      BY DEF Duties
    <2> QED BY <1>1, <2>1, KnownNext, DutiesHandedOut DEF SignOffInv, DutiesKnown
  <1> QED BY <1>2, <1>3, <1>4, <1>5 DEF Office!Collected

LEMMA StepsSignOff ==
    ASSUME SignOffInv, SignOffInv', [Next]_vars
    PROVE  [Office!Next]_(Office!signOffVars)
  <1> USE DEF Office!signOffVars
  <1>1. ASSUME NEW t \in Tabs, Send(t)
        PROVE  Office!Circulate
    <2>1. /\ status \in Editable /\ content' = content
          /\ ApproveOrFinalize(RequiredApprovers(content))
      BY <1>1, SendEffect DEF SignOffInv
    <2>2. Pending' = RequiredApprovers(content)
      <3>1. RequiredApprovers(content) \subseteq Users
        BY ApproversAreUsers, StoredIsContent DEF SignOffInv, TypeOK
      <3>2. revision' \in Revisions /\ revision' # 0
        BY <1>1, SendEffect, ProtocolAssumption DEF SignOffInv, Revisions
      <3> QED BY <1>1, <3>1, <3>2, SentRows DEF SignOffInv, Pending
    <2>3. Office!Collected({})
      BY <2>1, <2>2, FinalizeCollects DEF Editable
    <2>4. Stage = "open"
      BY <2>1 DEF Stage, Editable
    <2> QED BY <2>3, <2>4 DEF Office!Circulate
  <1>2. ASSUME NEW u \in Users, Approve(u)
        PROVE  Office!Sign(u)
    <2>1. /\ status = "APPROVAL" /\ u \in Pending /\ content' = content
          /\ ApproveOrFinalize(Pending \ {u})
      BY <1>2, ApproveEffect DEF SignOffInv
    <2>2. Pending' = Pending \ {u}
      <3>1. revision' = revision /\ revision \in Revisions /\ revision # 0
        BY <1>2, <2>1, ApproveEffect DEF SignOffInv, Pending
      <3>2. \A v \in Users :
               approvals'[revision][v] = "PENDING" <=> v # u /\ approvals[revision][v] = "PENDING"
        BY <1>2, <3>1, ApprovedRows DEF SignOffInv
      <3> QED BY <3>1, <3>2 DEF Pending
    <2>3. /\ Signed = RequiredApprovers(content) \ Pending
          /\ Pending \subseteq RequiredApprovers(content)
      BY <2>1, SignedWhileSigning DEF SignaturesKnown
    <2>4. Office!Collected(Signed \cup {u})
      <3>1. Signed \cup {u} = RequiredApprovers(content) \ (Pending \ {u})
        BY <2>1, <2>3
      <3> QED BY <2>1, <2>2, <3>1, FinalizeCollects
    <2>5. Stage = "signing" /\ u \in RequiredApprovers(content) \ Signed
      BY <2>1, <2>3 DEF Stage, Editable
    <2> QED BY <2>4, <2>5 DEF Office!Sign
  <1>3. ASSUME NEW u \in Users, ReturnForRevision(u)
        PROVE  Office!SendBack
    <2>1. status = "APPROVAL" /\ status' = "REVISION" /\ content' = content /\ tasks' = tasks
      BY <1>3, ReturnEffect DEF SignOffInv
    <2>2. Stage = "signing" /\ Stage' = "open" /\ Signed' = {}
      BY <2>1 DEF Stage, Editable, Signed
    <2>3. HandedOut' = HandedOut
      BY <2>1 DEF HandedOut
    <2> QED BY <2>1, <2>2, <2>3 DEF Office!SendBack
  <1>4. CASE Quiet
    <2>1. HandedOut' = HandedOut
      BY <1>4 DEF Quiet, HandedOut
    <2>2. CASE UNCHANGED <<status, content>>
      <3>1. Stage' = Stage
        BY <2>2 DEF Stage
      <3>2. Signed' = Signed
        BY <1>4, <2>2 DEF Quiet, Signed, roundVars
      <3> QED BY <2>1, <2>2, <3>1, <3>2
    <2>3. CASE /\ status \in Editable /\ status' \in {status, "deleted"}
               /\ content' \in StoredContent
      <3>1. Signed = {} /\ Signed' = {}
        BY <2>3 DEF Signed, Editable
      <3>2. Stage = "open" /\ Stage' \in {"open", "gone"}
        BY <2>3 DEF Stage, Editable
      <3>3. Office!Write \/ Office!Discard
        BY <2>1, <2>3, <3>1, <3>2, StoredIsContent DEF Office!Write, Office!Discard
      <3> QED BY <3>3 DEF Office!Next
    <2> QED BY <1>4, <2>2, <2>3 DEF Quiet
  <1> QED BY <1>1, <1>2, <1>3, <1>4, QuietSteps DEF SignOffInv, RoundStep, Office!Next

\* The protocol is signed off as SignOff says.
THEOREM ProtocolIsSignedOff == Spec => SignsOff
  <1>1. Init => Office!Init
    <2> SUFFICES ASSUME Init
                 PROVE  Office!Init
      OBVIOUS
    <2>1. content \in Content
      BY BlankIsStored, StoredIsContent DEF Init
    <2>2. Stage = "open" /\ Signed = {} /\ HandedOut = {}
      BY DEF Init, Stage, Editable, Signed, HandedOut
    <2> QED BY <2>1, <2>2 DEF Office!Init
  <1>2. SignOffInv /\ SignOffInv' /\ [Next]_vars => [Office!Next]_(Office!signOffVars)
    BY StepsSignOff
  <1>3. Init => SignOffInv
    BY TypeInit, RunningInit, AskedInit, HandedInit DEF SignOffInv
  <1>4. SignOffInv /\ [Next]_vars => SignOffInv'
    BY TypeNext, RunningNext, AskedNext, HandedNext DEF SignOffInv
  <1> QED BY <1>1, <1>2, <1>3, <1>4, PTL DEF Spec, SignsOff, Office!Spec

\* Status, approvals and tasks of the approvers say the same thing
\* (send_protocol_for_approval, approve_protocol, return_protocol_for_revision).
THEOREM QueueIsAlwaysTheRound == Spec => []QueueIsTheRound
<1>1. Spec => []RoundIsRunning
  BY RoundsEnd
<1>2. Spec => []QueueFollowsRound
  BY QueueAndRoundAgree
<1>. QED
  BY <1>1, <1>2, PTL DEF QueueIsTheRound

\* The last approval archives what was approved and hands out its work once
\* (approve_protocol).
THEOREM LastApprovalEndsIt == Spec => []LastApprovalArchives
<1>1. Spec => []ArchivedWasApproved
  BY ArchiveIsApproved
<1>2. Spec => []WorkIsHandedOutOnce
  BY WorkGoesOutOnce
<1>. QED
  BY <1>1, <1>2, PTL DEF LastApprovalArchives

\* Neither a decision nor an archived protocol is ever changed.
THEOREM HistoryStays == Spec => HistoryStands
<1>1. Spec => DecisionsAreHistory
  BY DecisionsStay
<1>2. Spec => ArchiveIsFinal
  BY ArchiveStays
<1>. QED
  BY <1>1, <1>2 DEF HistoryStands

=============================================================================
