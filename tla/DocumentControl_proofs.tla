------------------------ MODULE DocumentControl_proofs ------------------------
(***************************************************************************)
(* Proofs about DocumentControl: its safety properties for any number of   *)
(* people, versions and review dates, and that it implements Revisions.    *)
(*                                                                         *)
(* Each action that touches the versions or the tasks to approve and to    *)
(* read has a lemma that says what it does to them; QuietSteps says that   *)
(* every other step leaves both alone.                                     *)
(***************************************************************************)
EXTENDS DocumentControl, TLAPS

-----------------------------------------------------------------------------
(* What the steps do                                                        *)

\* Steps that leave the versions, their rounds and their tasks as they are.
Quiet == UNCHANGED <<versionVars, signTasks, readTasks>>

\* Steps that withdraw all open work: the trash and a cancellation.
Withdraws == WithdrawOpenWork /\ UNCHANGED <<count, current, uploader, readers>>

VersionStep ==
    \/ \E m \in Managers, people \in Audiences :
          \/ AddVersion(m, people)
          \/ \E signers \in SUBSET Users : SubmitVersion(m, people, signers)
          \/ RequestAcknowledgement(m, people)
    \/ \E v \in Numbers, u \in Users : ApproveVersion(v, u) \/ ReturnVersion(v, u)
    \/ \E v \in Numbers : RestoreVersion(v)
    \/ \E u \in Users : Acknowledge(u)

\* Every other step withdraws the work there is or leaves it alone, and takes a
\* document out of the library only together with its work.
LEMMA OtherSteps ==
    ASSUME [Next]_vars
    PROVE  \/ VersionStep
           \/ Withdraws
           \/ Quiet /\ (place' = "trash" => place = "trash")
  <1>1. ASSUME NEW new \in Statuses, SetStatus(new)
        PROVE  Withdraws \/ (Quiet /\ place' = place)
    BY <1>1 DEF SetStatus, Withdraws, Quiet, versionVars, taskVars
  <1>2. ASSUME NEW date \in Dates \cup {None}, SetReviewDate(date)
        PROVE  Quiet /\ place' = place
    BY <1>2 DEF SetReviewDate, Quiet, versionVars, taskVars
  <1>3. CASE Trash
    BY <1>3 DEF Trash, Withdraws
  <1>4. CASE Restore \/ AskToPurge \/ Purge \/ DropPurge
    BY <1>4 DEF Restore, AskToPurge, Purge, DropPurge, Quiet, versionVars, taskVars
  <1>5. CASE ListForReview \/ ReadForReview \/ CreateReviewTask \/ LeaveReview
    BY <1>5 DEF ListForReview, ReadForReview, CreateReviewTask, LeaveReview,
                Quiet, versionVars, taskVars
  <1>6. ASSUME NEW v \in Numbers, NEW date \in Dates,
               CompleteReview(v, date) \/ ReopenReview(v, date)
        PROVE  Quiet /\ place' = place
    BY <1>6 DEF CompleteReview, ReopenReview, SetReviewTask, Quiet, versionVars
  <1>7. CASE UNCHANGED vars
    BY <1>7 DEF vars, versionVars, taskVars, Quiet
  <1> QED BY <1>1, <1>2, <1>3, <1>4, <1>5, <1>6, <1>7 DEF Next, VersionStep

-----------------------------------------------------------------------------
(* Types                                                                    *)

LEMMA WithdrawnTypes ==
    /\ \A tasks \in [Users -> TaskStatuses] : Withdrawn(tasks) \in [Users -> TaskStatuses]
    /\ \A tasks \in [Dates -> TaskStatuses] : Withdrawn(tasks) \in [Dates -> TaskStatuses]
    /\ \A answers \in [Users -> Answers] : CancelledPending(answers) \in [Users -> Answers]
  BY DEF Withdrawn, CancelledPending, TaskStatuses, Answers

LEMMA EntryTypes ==
    ASSUME TypeOK, NEW v \in Numbers, NEW people
    PROVE  /\ Asked(v, people) \in [Users -> TaskStatuses]
           /\ ReadTasksOnEntry(v, people) \in [Numbers -> [Users -> TaskStatuses]]
  <1>1. Asked(v, people) \in [Users -> TaskStatuses]
    BY DEF TypeOK, Asked, TaskStatuses
  <1>2. \A w \in Numbers : readTasks[w] \in [Users -> TaskStatuses]
    BY DEF TypeOK
  <1>3. \A w \in Numbers : Withdrawn(readTasks[w]) \in [Users -> TaskStatuses]
    BY <1>2, WithdrawnTypes
  <1> QED BY <1>1, <1>2, <1>3 DEF ReadTasksOnEntry

\* What a version on approval or not stored yet is not.
LEMMA CurrentIsStored ==
    ASSUME TypeOK
    PROVE  current \in Numbers /\ round[current] \in {"NONE", "APPROVED"} /\ current <= count
  BY LibraryAssumption DEF TypeOK, Numbers

LEMMA TypeInit == Init => TypeOK
  <1> SUFFICES ASSUME Init PROVE TypeOK
    OBVIOUS
  <1>1. 1 \in Numbers /\ current \in {v \in 1 .. count : round[v] \in {"NONE", "APPROVED"}}
    BY LibraryAssumption DEF Init, Numbers
  <1>2. /\ round \in [Numbers -> Rounds]
        /\ \A v \in Numbers : round[v] = "absent" <=> v > count
    BY DEF Init, Rounds, Numbers
  <1>3. /\ uploader \in [Numbers -> Managers \cup {None}]
        /\ readers \in [Numbers -> SUBSET Users]
        /\ readTasks \in [Numbers -> [Users -> TaskStatuses]]
    BY LibraryAssumption DEF Init, TaskStatuses
  <1>4. /\ approvals \in [Numbers -> [Users -> Answers]]
        /\ signTasks \in [Numbers -> [Users -> TaskStatuses]]
        /\ reviewTasks \in [Numbers -> [Dates -> TaskStatuses]]
    BY DEF Init, Nowhere, Answers, TaskStatuses
  <1> QED BY <1>1, <1>2, <1>3, <1>4 DEF Init, TypeOK, Statuses

LEMMA StoreTypes ==
    ASSUME TypeOK, NEW m \in Managers, NEW people \in Audiences,
           NEW state \in {"NONE", "PENDING"}, StoreVersion(m, people, state)
    PROVE  /\ count' = count + 1 /\ count' \in Numbers
           /\ round' \in [Numbers -> Rounds]
           /\ \A v \in Numbers : round'[v] = "absent" <=> v > count'
           /\ uploader' \in [Numbers -> Managers \cup {None}]
           /\ readers' \in [Numbers -> SUBSET Users]
           /\ round[count'] = "absent"
           /\ \A v \in Numbers : round'[v] = IF v = count' THEN state ELSE round[v]
           /\ UNCHANGED <<place, status, reviewDate, reviewTasks, purging, reviewing>>
           /\ place = "library" /\ OnApproval = {}
  BY LibraryAssumption DEF TypeOK, StoreVersion, NextNumber, Numbers, Rounds, cardVars

LEMMA WithdrawTypes ==
    ASSUME TypeOK, Withdraws
    PROVE  /\ approvals' \in [Numbers -> [Users -> Answers]]
           /\ signTasks' \in [Numbers -> [Users -> TaskStatuses]]
           /\ readTasks' \in [Numbers -> [Users -> TaskStatuses]]
           /\ reviewTasks' \in [Numbers -> [Dates -> TaskStatuses]]
           /\ round' \in [Numbers -> Rounds]
           /\ \A v \in Numbers : round'[v] = "absent" <=> v > count
           /\ current \in {v \in 1 .. count : round'[v] \in {"NONE", "APPROVED"}}
  <1>1. /\ approvals' \in [Numbers -> [Users -> Answers]]
        /\ signTasks' \in [Numbers -> [Users -> TaskStatuses]]
        /\ readTasks' \in [Numbers -> [Users -> TaskStatuses]]
        /\ reviewTasks' \in [Numbers -> [Dates -> TaskStatuses]]
    BY WithdrawnTypes DEF Withdraws, WithdrawOpenWork, ApprovalsWithdrawn, TypeOK
  <1>2. /\ round' \in [Numbers -> Rounds]
        /\ \A v \in Numbers : round'[v] = "absent" <=> v > count
        /\ current \in {v \in 1 .. count : round'[v] \in {"NONE", "APPROVED"}}
    BY CurrentIsStored DEF Withdraws, WithdrawOpenWork, TypeOK, Rounds, Numbers
  <1> QED BY <1>1, <1>2

LEMMA TypeNext ==
    ASSUME TypeOK, [Next]_vars
    PROVE  TypeOK'
  <1>1. ASSUME NEW m \in Managers, NEW people \in Audiences, AddVersion(m, people)
        PROVE  TypeOK'
    <2>1. StoreVersion(m, people, "NONE") /\ current' = count' /\ UNCHANGED <<approvals, signTasks>>
      BY <1>1 DEF AddVersion, StoreVersion
    <2>2. readTasks' \in [Numbers -> [Users -> TaskStatuses]]
      BY <1>1, <2>1, EntryTypes, StoreTypes DEF AddVersion, StoreVersion
    <2> QED BY <2>1, <2>2, StoreTypes DEF TypeOK, Numbers
  <1>2. ASSUME NEW m \in Managers, NEW people \in Audiences, NEW signers \in SUBSET Users,
               SubmitVersion(m, people, signers)
        PROVE  TypeOK'
    <2>1. StoreVersion(m, people, "PENDING") /\ UNCHANGED <<current, readTasks>>
      BY <1>2 DEF SubmitVersion
    <2>2. /\ approvals' \in [Numbers -> [Users -> Answers]]
          /\ signTasks' \in [Numbers -> [Users -> TaskStatuses]]
      BY <1>2, <2>1 DEF SubmitVersion, StoreVersion, TypeOK, Answers, TaskStatuses
    <2>3. round'[current] = round[current]
      BY <2>1, StoreTypes, CurrentIsStored
    <2> QED BY <2>1, <2>2, <2>3, StoreTypes DEF TypeOK, Numbers
  <1>3. ASSUME NEW m \in Managers, NEW people \in Audiences, RequestAcknowledgement(m, people)
        PROVE  TypeOK'
    <2>1. Asked(current, people \ {m, uploader[current]}) \in [Users -> TaskStatuses]
      BY EntryTypes, CurrentIsStored
    <2>2. readers' \in [Numbers -> SUBSET Users]
      BY <1>3, LibraryAssumption, CurrentIsStored DEF RequestAcknowledgement, TypeOK
    <2> QED BY <1>3, <2>1, <2>2, CurrentIsStored
            DEF RequestAcknowledgement, TypeOK, cardVars
  <1>4. ASSUME NEW v \in Numbers, NEW u \in Users, ApproveVersion(v, u)
        PROVE  TypeOK'
    <2>1. /\ approvals' \in [Numbers -> [Users -> Answers]]
          /\ signTasks' \in [Numbers -> [Users -> TaskStatuses]]
          /\ UNCHANGED <<place, status, reviewDate, count, uploader, readers, reviewTasks,
                         purging, reviewing>>
          /\ round[v] = "PENDING"
      BY <1>4 DEF ApproveVersion, MayDecide, TypeOK, Answers, TaskStatuses, cardVars
    <2>2. CASE Pending(v) = {u}
      <3>1. readTasks' \in [Numbers -> [Users -> TaskStatuses]]
        BY <1>4, <2>2, EntryTypes DEF ApproveVersion
      <3>2. round' = [round EXCEPT ![v] = "APPROVED"] /\ current' = v
        BY <1>4, <2>2 DEF ApproveVersion
      <3>3. v \in 1 .. count
        BY <2>1 DEF TypeOK, Numbers
      <3>4. round' \in [Numbers -> Rounds] /\ \A w \in Numbers : round'[w] = "absent" <=> w > count
        BY <2>1, <3>2 DEF TypeOK, Rounds
      <3> QED BY <2>1, <3>1, <3>2, <3>3, <3>4 DEF TypeOK
    <2>3. CASE Pending(v) # {u}
      BY <1>4, <2>1, <2>3 DEF ApproveVersion, TypeOK
    <2> QED BY <2>2, <2>3
  <1>5. ASSUME NEW v \in Numbers, NEW u \in Users, ReturnVersion(v, u)
        PROVE  TypeOK'
    <2>1. /\ [approvals[v] EXCEPT ![u] = "RETURNED"] \in [Users -> Answers]
          /\ [signTasks[v] EXCEPT ![u] = "done"] \in [Users -> TaskStatuses]
      BY DEF TypeOK, Answers, TaskStatuses
    <2>2. /\ approvals' \in [Numbers -> [Users -> Answers]]
          /\ signTasks' \in [Numbers -> [Users -> TaskStatuses]]
      BY <1>5, <2>1, WithdrawnTypes DEF ReturnVersion, TypeOK
    <2>3. /\ round' = [round EXCEPT ![v] = "RETURNED"] /\ round[v] = "PENDING"
          /\ UNCHANGED <<place, status, reviewDate, count, current, uploader, readers, readTasks,
                         reviewTasks, purging, reviewing>>
      BY <1>5 DEF ReturnVersion, MayDecide, cardVars
    <2>4. /\ round' \in [Numbers -> Rounds]
          /\ \A w \in Numbers : round'[w] = "absent" <=> w > count
          /\ round'[current] = round[current]
      BY <2>3, CurrentIsStored DEF TypeOK, Rounds
    <2> QED BY <2>2, <2>3, <2>4 DEF TypeOK
  <1>6. ASSUME NEW v \in Numbers, RestoreVersion(v)
        PROVE  TypeOK'
    BY <1>6 DEF RestoreVersion, WasInForce, TypeOK, Rounds, Numbers, cardVars, taskVars
  <1>7. ASSUME NEW u \in Users, Acknowledge(u)
        PROVE  TypeOK'
    BY <1>7, CurrentIsStored DEF Acknowledge, TypeOK, TaskStatuses, cardVars, versionVars
  <1>8. ASSUME NEW new \in Statuses, SetStatus(new)
        PROVE  TypeOK'
    <2>1. CASE new = "CANCELLED"
      <3>1. Withdraws
        BY <1>8, <2>1 DEF SetStatus, Withdraws
      <3> QED BY <1>8, <3>1, WithdrawTypes DEF SetStatus, Withdraws, TypeOK
    <2>2. CASE new # "CANCELLED"
      BY <1>8, <2>2 DEF SetStatus, TypeOK, taskVars
    <2> QED BY <2>1, <2>2
  <1>9. ASSUME NEW date \in Dates \cup {None}, SetReviewDate(date)
        PROVE  TypeOK'
    BY <1>9 DEF SetReviewDate, TypeOK, versionVars, taskVars
  <1>10. CASE Trash
    <2>1. Withdraws
      BY <1>10 DEF Trash, Withdraws
    <2> QED BY <1>10, <2>1, WithdrawTypes DEF Trash, Withdraws, TypeOK, cardVars
  <1>11. CASE Restore \/ AskToPurge \/ Purge \/ DropPurge
    BY <1>11 DEF Restore, AskToPurge, Purge, DropPurge, TypeOK, cardVars, versionVars, taskVars
  <1>12. CASE ListForReview \/ ReadForReview \/ LeaveReview
    <2>1. reviewing' \in Review \cup {None}
      <3>1. CASE ListForReview \/ LeaveReview
        BY <3>1, LibraryAssumption DEF ListForReview, LeaveReview, TypeOK, Review
      <3>2. CASE ReadForReview
        <4>1. reviewing \in Review /\ current \in 0 .. MaxNumber
          BY <3>2, CurrentIsStored, LibraryAssumption DEF ReadForReview, TypeOK, Numbers
        <4> QED BY <3>2, <4>1 DEF ReadForReview, Review
      <3> QED BY <1>12, <3>1, <3>2
    <2> QED BY <1>12, <2>1 DEF ListForReview, ReadForReview, LeaveReview, TypeOK,
                cardVars, versionVars, taskVars
  <1>13. CASE CreateReviewTask
    <2>1. reviewing.version \in Numbers /\ reviewing.date \in Dates
      BY <1>13 DEF CreateReviewTask, TypeOK, Review, Numbers
    <2> QED BY <1>13, <2>1 DEF CreateReviewTask, TypeOK, TaskStatuses, cardVars, versionVars
  <1>14. ASSUME NEW v \in Numbers, NEW date \in Dates,
                CompleteReview(v, date) \/ ReopenReview(v, date)
         PROVE  TypeOK'
    <2>1. PICK to \in TaskStatuses :
             reviewTasks' = [reviewTasks EXCEPT ![v] = [reviewTasks[v] EXCEPT ![date] = to]]
      BY <1>14 DEF CompleteReview, ReopenReview, SetReviewTask, TaskStatuses
    <2>2. reviewTasks' \in [Numbers -> [Dates -> TaskStatuses]]
      BY <2>1 DEF TypeOK
    <2> QED BY <1>14, <2>2 DEF CompleteReview, ReopenReview, SetReviewTask, TypeOK,
                 cardVars, versionVars
  <1>15. CASE UNCHANGED vars
    BY <1>15 DEF vars, cardVars, versionVars, taskVars, TypeOK
  <1> QED BY <1>1, <1>2, <1>3, <1>4, <1>5, <1>6, <1>7, <1>8, <1>9, <1>10, <1>11, <1>12, <1>13,
             <1>14, <1>15 DEF Next

\* Every variable has its type, whatever is uploaded, decided and restored: the
\* version people read is never one on approval or returned.
THEOREM TypeCorrect == Spec => []TypeOK
  BY TypeInit, TypeNext, PTL DEF Spec

-----------------------------------------------------------------------------
(* Effects, row by row                                                      *)

LEMMA EntryEffect ==
    ASSUME TypeOK, NEW v \in Numbers, NEW people,
           readTasks' = ReadTasksOnEntry(v, people)
    PROVE  \A w \in Numbers, x \in Users :
               readTasks'[w][x] =
                   IF w = v
                   THEN IF x \in people /\ readTasks[w][x] = "none" THEN "open" ELSE readTasks[w][x]
                   ELSE IF w = current /\ readTasks[w][x] = "open" THEN "cancelled"
                   ELSE readTasks[w][x]
  <1>1. \A w \in Numbers : DOMAIN readTasks[w] = Users
    BY DEF TypeOK
  <1>2. \A w \in Numbers, x \in Users : Withdrawn(readTasks[w])[x] =
            IF readTasks[w][x] = "open" THEN "cancelled" ELSE readTasks[w][x]
    BY <1>1 DEF Withdrawn
  <1>3. \A x \in Users : Asked(v, people)[x] =
            IF x \in people /\ readTasks[v][x] = "none" THEN "open" ELSE readTasks[v][x]
    BY DEF Asked, AlreadyAsked
  <1> QED BY <1>2, <1>3 DEF ReadTasksOnEntry

LEMMA SubmitEffect ==
    ASSUME TypeOK, NEW m \in Managers, NEW people \in Audiences, NEW signers \in SUBSET Users,
           SubmitVersion(m, people, signers)
    PROVE  /\ StoreVersion(m, people, "PENDING") /\ signers # {}
           /\ UNCHANGED <<current, readTasks>>
           /\ \A w \in Numbers, x \in Users :
                 /\ approvals'[w][x] = IF w = count'
                                         THEN IF x \in signers THEN "PENDING" ELSE "none"
                                         ELSE approvals[w][x]
                 /\ signTasks'[w][x] = IF w = count'
                                         THEN IF x \in signers THEN "open" ELSE "none"
                                         ELSE signTasks[w][x]
  BY DEF SubmitVersion, StoreVersion, TypeOK

LEMMA ApproveEffect ==
    ASSUME TypeOK, NEW v \in Numbers, NEW u \in Users, ApproveVersion(v, u)
    PROVE  /\ round[v] = "PENDING" /\ u \in Pending(v) /\ place = "library" /\ v # current
           /\ UNCHANGED <<place, count, uploader, readers, reviewTasks, reviewing>>
           /\ \A w \in Numbers, x \in Users :
                 /\ approvals'[w][x] = IF w = v /\ x = u THEN "APPROVED" ELSE approvals[w][x]
                 /\ signTasks'[w][x] = IF w = v /\ x = u THEN "done" ELSE signTasks[w][x]
           /\ \/ /\ Pending(v) = {u} /\ current' = v
                 /\ \A w \in Numbers : round'[w] = IF w = v THEN "APPROVED" ELSE round[w]
                 /\ readTasks' = ReadTasksOnEntry(v, AskedOnEntry(v))
              \/ Pending(v) # {u} /\ UNCHANGED <<round, current, readTasks>>
  BY CurrentIsStored DEF ApproveVersion, MayDecide, TypeOK

LEMMA ReturnEffect ==
    ASSUME TypeOK, NEW v \in Numbers, NEW u \in Users, ReturnVersion(v, u)
    PROVE  /\ round[v] = "PENDING" /\ u \in Pending(v) /\ place = "library"
           /\ UNCHANGED <<place, count, current, uploader, readers, readTasks, reviewTasks, reviewing>>
           /\ \A w \in Numbers : round'[w] = IF w = v THEN "RETURNED" ELSE round[w]
           /\ \A w \in Numbers, x \in Users :
                 /\ approvals'[w][x] = IF w # v THEN approvals[w][x]
                                         ELSE IF x = u THEN "RETURNED"
                                         ELSE IF approvals[w][x] = "PENDING" THEN "CANCELLED"
                                         ELSE approvals[w][x]
                 /\ signTasks'[w][x] = IF w # v THEN signTasks[w][x]
                                         ELSE IF x = u THEN "done"
                                         ELSE IF signTasks[w][x] = "open" THEN "cancelled"
                                         ELSE signTasks[w][x]
  BY DEF ReturnVersion, MayDecide, CancelledPending, Withdrawn, TypeOK

LEMMA WithdrawEffect ==
    ASSUME TypeOK, Withdraws
    PROVE  /\ UNCHANGED <<count, current, uploader, readers>>
           /\ \A w \in Numbers : round'[w] = IF round[w] = "PENDING" THEN "RETURNED" ELSE round[w]
           /\ \A w \in Numbers, x \in Users :
                 /\ approvals'[w][x] = IF approvals[w][x] = "PENDING" THEN "CANCELLED"
                                         ELSE approvals[w][x]
                 /\ signTasks'[w][x] = IF signTasks[w][x] = "open" THEN "cancelled"
                                         ELSE signTasks[w][x]
                 /\ readTasks'[w][x] = IF readTasks[w][x] = "open" THEN "cancelled"
                                         ELSE readTasks[w][x]
           /\ \A w \in Numbers, d \in Dates :
                 reviewTasks'[w][d] = IF reviewTasks[w][d] = "open" THEN "cancelled"
                                      ELSE reviewTasks[w][d]
  BY DEF Withdraws, WithdrawOpenWork, ApprovalsWithdrawn, CancelledPending, Withdrawn, TypeOK

LEMMA RequestEffect ==
    ASSUME TypeOK, NEW m \in Managers, NEW people \in Audiences, RequestAcknowledgement(m, people)
    PROVE  /\ place = "library"
           /\ UNCHANGED <<place, count, current, round, uploader, approvals, signTasks, reviewTasks, reviewing>>
           /\ \A w \in Numbers :
                 readers'[w] = IF w = current THEN readers[w] \cup people ELSE readers[w]
           /\ \A w \in Numbers, x \in Users :
                 readTasks'[w][x] = IF /\ w = current /\ readTasks[w][x] = "none"
                                       /\ x \in people \ {m, uploader[current]}
                                    THEN "open" ELSE readTasks[w][x]
  BY CurrentIsStored DEF RequestAcknowledgement, Asked, AlreadyAsked, TypeOK

LEMMA AcknowledgeEffect ==
    ASSUME TypeOK, NEW u \in Users, Acknowledge(u)
    PROVE  /\ readTasks[current][u] = "open"
           /\ UNCHANGED <<place, versionVars, signTasks, reviewTasks, reviewing>>
           /\ \A w \in Numbers, x \in Users :
                 readTasks'[w][x] = IF w = current /\ x = u THEN "done" ELSE readTasks[w][x]
  BY CurrentIsStored DEF Acknowledge, TypeOK

-----------------------------------------------------------------------------
(* Rounds                                                                   *)

LEMMA RoundInit == Init => RoundIsWhole
  BY DEF Init, RoundIsWhole, Nowhere, OnApproval, Pending

LEMMA RoundNext ==
    ASSUME TypeOK, RoundIsWhole, [Next]_vars
    PROVE  RoundIsWhole'
  <1>1. ASSUME NEW m \in Managers, NEW people \in Audiences, AddVersion(m, people)
        PROVE  RoundIsWhole'
    BY <1>1, StoreTypes DEF AddVersion, RoundIsWhole, OnApproval, Pending
  <1>2. ASSUME NEW m \in Managers, NEW people \in Audiences, NEW signers \in SUBSET Users,
               SubmitVersion(m, people, signers)
        PROVE  RoundIsWhole'
    BY <1>2, SubmitEffect, StoreTypes DEF RoundIsWhole, OnApproval, Pending
  <1>3. ASSUME NEW m \in Managers, NEW people \in Audiences, RequestAcknowledgement(m, people)
        PROVE  RoundIsWhole'
    BY <1>3, RequestEffect DEF RoundIsWhole, OnApproval, Pending
  <1>4. ASSUME NEW v \in Numbers, NEW u \in Users, ApproveVersion(v, u)
        PROVE  RoundIsWhole'
    BY <1>4, ApproveEffect DEF RoundIsWhole, OnApproval, Pending
  <1>5. ASSUME NEW v \in Numbers, NEW u \in Users, ReturnVersion(v, u)
        PROVE  RoundIsWhole'
    BY <1>5, ReturnEffect DEF RoundIsWhole, OnApproval, Pending
  <1>6. ASSUME NEW v \in Numbers, RestoreVersion(v)
        PROVE  RoundIsWhole'
    BY <1>6 DEF RestoreVersion, taskVars, RoundIsWhole, OnApproval, Pending
  <1>7. ASSUME NEW u \in Users, Acknowledge(u)
        PROVE  RoundIsWhole'
    BY <1>7, AcknowledgeEffect, CurrentIsStored
       DEF versionVars, RoundIsWhole, OnApproval, Pending
  <1>8. CASE Withdraws
    BY <1>8, WithdrawEffect DEF RoundIsWhole, OnApproval, Pending
  <1>9. CASE Quiet /\ (place' = "trash" => place = "trash")
    BY <1>9 DEF Quiet, versionVars, RoundIsWhole, OnApproval, Pending
  <1> QED BY <1>1, <1>2, <1>3, <1>4, <1>5, <1>6, <1>7, <1>8, <1>9, OtherSteps DEF VersionStep

\* One round at a time, its tasks are its approvals, and the trash asks nothing
\* of anybody, for any number of approvers and versions.
THEOREM RoundsAreWhole == Spec => []RoundIsWhole
  <1>1. Init => TypeOK /\ RoundIsWhole
    BY TypeInit, RoundInit
  <1>2. TypeOK /\ RoundIsWhole /\ [Next]_vars => (TypeOK /\ RoundIsWhole)'
    BY TypeNext, RoundNext
  <1> QED BY <1>1, <1>2, PTL DEF Spec

-----------------------------------------------------------------------------
(* Readers                                                                  *)

LEMMA AskedInit == Init => EveryReaderIsAsked
  BY LibraryAssumption DEF Init, EveryReaderIsAsked, Numbers

LEMMA AskedNext ==
    ASSUME TypeOK, EveryReaderIsAsked, [Next]_vars
    PROVE  EveryReaderIsAsked'
  <1>1. ASSUME NEW m \in Managers, NEW people \in Audiences, AddVersion(m, people)
        PROVE  EveryReaderIsAsked'
    <2>1. StoreVersion(m, people, "NONE") /\ readTasks' = ReadTasksOnEntry(count', people \ {m})
      BY <1>1 DEF AddVersion, StoreVersion
    <2>2. \A w \in Numbers : readers'[w] = IF w = count' THEN people ELSE readers[w]
      BY <2>1, StoreTypes DEF StoreVersion, TypeOK
    <2>3. people \subseteq Users
      BY LibraryAssumption
    <2>4. count' \in Numbers /\ round[count'] = "absent"
          /\ \A w \in Numbers : round'[w] = IF w = count' THEN "NONE" ELSE round[w]
      BY <2>1, StoreTypes
    <2>5. \A w \in Numbers, x \in Users :
               readTasks'[w][x] =
                   IF w = count'
                   THEN IF x \in people \ {m} /\ readTasks[w][x] = "none"
                        THEN "open" ELSE readTasks[w][x]
                   ELSE IF w = current /\ readTasks[w][x] = "open" THEN "cancelled"
                   ELSE readTasks[w][x]
      BY <2>1, <2>4, EntryEffect
    <2>6. current \in Numbers /\ readers \in [Numbers -> SUBSET Users]
      BY CurrentIsStored DEF TypeOK
    <2> QED BY <2>2, <2>3, <2>4, <2>5, <2>6 DEF EveryReaderIsAsked
  <1>2. ASSUME NEW m \in Managers, NEW people \in Audiences, NEW signers \in SUBSET Users,
               SubmitVersion(m, people, signers)
        PROVE  EveryReaderIsAsked'
    <2>1. StoreVersion(m, people, "PENDING") /\ UNCHANGED readTasks
      BY <1>2, SubmitEffect
    <2>2. \A w \in Numbers : readers'[w] = IF w = count' THEN people ELSE readers[w]
      BY <2>1, StoreTypes DEF StoreVersion, TypeOK
    <2> QED BY <2>1, <2>2, StoreTypes DEF EveryReaderIsAsked
  <1>3. ASSUME NEW m \in Managers, NEW people \in Audiences, RequestAcknowledgement(m, people)
        PROVE  EveryReaderIsAsked'
    <2>1. uploader[current] \notin Users \ Managers
      BY CurrentIsStored, LibraryAssumption DEF TypeOK
    <2>2. /\ UNCHANGED round /\ round[current] \in {"NONE", "APPROVED"}
          /\ \A w \in Numbers :
                readers'[w] = IF w = current THEN readers[w] \cup people ELSE readers[w]
          /\ \A w \in Numbers, x \in Users :
                readTasks'[w][x] = IF /\ w = current /\ readTasks[w][x] = "none"
                                      /\ x \in people \ {m, uploader[current]}
                                   THEN "open" ELSE readTasks[w][x]
      BY <1>3, RequestEffect, CurrentIsStored
    <2>3. /\ people \subseteq Users /\ m \in Managers
          /\ \A w \in Numbers : readers[w] \subseteq Users
      BY LibraryAssumption DEF TypeOK
    <2>4. ASSUME NEW w \in Numbers, round[w] \in {"NONE", "APPROVED"},
                 NEW x \in readers'[w] \ Managers
          PROVE  readTasks'[w][x] # "none"
      <3>1. CASE x \in readers[w]
        <4>1. x \in Users /\ readTasks[w][x] # "none"
          BY <2>3, <2>4, <3>1 DEF EveryReaderIsAsked
        <4> QED BY <2>2, <4>1
      <3>2. CASE x \notin readers[w]
        <4>1. w = current /\ x \in people /\ x \in Users
          BY <2>2, <2>3, <3>2
        <4>2. x \in people \ {m, uploader[current]}
          BY <2>1, <2>3, <4>1
        <4> QED BY <2>2, <4>1, <4>2
      <3> QED BY <3>1, <3>2
    <2>5. ASSUME NEW w \in Numbers, round[w] \notin {"NONE", "APPROVED"}, NEW x \in Users
          PROVE  readTasks'[w][x] = "none"
      BY <2>2, <2>5 DEF EveryReaderIsAsked
    <2> QED BY <2>2, <2>4, <2>5 DEF EveryReaderIsAsked
  <1>4. ASSUME NEW v \in Numbers, NEW u \in Users, ApproveVersion(v, u)
        PROVE  EveryReaderIsAsked'
    <2>1. uploader[v] \notin Users \ Managers /\ readers[v] \subseteq Users
      BY LibraryAssumption DEF TypeOK
    <2>2. CASE UNCHANGED <<round, readTasks>>
      BY <1>4, <2>2, ApproveEffect DEF EveryReaderIsAsked
    <2>3. CASE /\ \A w \in Numbers : round'[w] = IF w = v THEN "APPROVED" ELSE round[w]
               /\ readTasks' = ReadTasksOnEntry(v, AskedOnEntry(v))
      <3>1. /\ round[v] = "PENDING" /\ UNCHANGED readers
            /\ \A w \in Numbers, x \in Users :
                  readTasks'[w][x] =
                      IF w = v
                      THEN IF x \in AskedOnEntry(v) /\ readTasks[w][x] = "none"
                           THEN "open" ELSE readTasks[w][x]
                      ELSE IF w = current /\ readTasks[w][x] = "open" THEN "cancelled"
                      ELSE readTasks[w][x]
        BY <1>4, <2>3, ApproveEffect, EntryEffect
      <3>2. \A w \in Numbers : readers[w] \subseteq Users
        BY DEF TypeOK
      <3>3. ASSUME NEW w \in Numbers, round'[w] \in {"NONE", "APPROVED"},
                   NEW x \in readers[w] \ Managers
            PROVE  readTasks'[w][x] # "none"
        <4>1. x \in Users
          BY <3>2, <3>3
        <4>2. CASE w = v
          <5>1. x \in AskedOnEntry(v)
            BY <2>1, <3>3, <4>1, <4>2 DEF AskedOnEntry
          <5> QED BY <3>1, <4>1, <4>2, <5>1
        <4>3. CASE w # v
          BY <2>3, <3>1, <3>3, <4>1, <4>3 DEF EveryReaderIsAsked
        <4> QED BY <4>2, <4>3
      <3>4. ASSUME NEW w \in Numbers, round'[w] \notin {"NONE", "APPROVED"}, NEW x \in Users
            PROVE  readTasks'[w][x] = "none"
        BY <2>3, <3>1, <3>4 DEF EveryReaderIsAsked
      <3> QED BY <3>1, <3>3, <3>4 DEF EveryReaderIsAsked
    <2> QED BY <1>4, <2>2, <2>3, ApproveEffect
  <1>5. ASSUME NEW v \in Numbers, NEW u \in Users, ReturnVersion(v, u)
        PROVE  EveryReaderIsAsked'
    BY <1>5, ReturnEffect DEF EveryReaderIsAsked
  <1>6. ASSUME NEW v \in Numbers, RestoreVersion(v)
        PROVE  EveryReaderIsAsked'
    BY <1>6 DEF RestoreVersion, taskVars, EveryReaderIsAsked
  <1>7. ASSUME NEW u \in Users, Acknowledge(u)
        PROVE  EveryReaderIsAsked'
    <2>1. /\ round[current] \in {"NONE", "APPROVED"} /\ UNCHANGED <<round, readers>>
          /\ \A w \in Numbers, x \in Users :
                readTasks'[w][x] = IF w = current /\ x = u THEN "done" ELSE readTasks[w][x]
      BY <1>7, AcknowledgeEffect, CurrentIsStored DEF versionVars
    <2>2. \A w \in Numbers : readers[w] \subseteq Users
      BY DEF TypeOK
    <2> QED BY <2>1, <2>2 DEF EveryReaderIsAsked
  <1>8. CASE Withdraws
    <2>1. /\ UNCHANGED readers
          /\ \A w \in Numbers : round'[w] = IF round[w] = "PENDING" THEN "RETURNED" ELSE round[w]
          /\ \A w \in Numbers, x \in Users :
                readTasks'[w][x] = IF readTasks[w][x] = "open" THEN "cancelled" ELSE readTasks[w][x]
      BY <1>8, WithdrawEffect
    <2>2. \A w \in Numbers : readers[w] \subseteq Users
      BY DEF TypeOK
    <2> QED BY <2>1, <2>2 DEF EveryReaderIsAsked
  <1>9. CASE Quiet
    BY <1>9 DEF Quiet, versionVars, EveryReaderIsAsked
  <1> QED BY <1>1, <1>2, <1>3, <1>4, <1>5, <1>6, <1>7, <1>8, <1>9, OtherSteps DEF VersionStep

\* Nobody a version was sent to is forgotten when it comes into force, and
\* nobody is asked to read one that has not.
THEOREM ReadersAreAsked == Spec => []EveryReaderIsAsked
  <1>1. Init => TypeOK /\ EveryReaderIsAsked
    BY TypeInit, AskedInit
  <1>2. TypeOK /\ EveryReaderIsAsked /\ [Next]_vars => (TypeOK /\ EveryReaderIsAsked)'
    BY TypeNext, AskedNext
  <1> QED BY <1>1, <1>2, PTL DEF Spec

-----------------------------------------------------------------------------
(* Records and revisions                                                    *)

\* The strengthening both need: what the approval rows of a version can be
\* while its round has not been closed against it.
Rows ==
    \A v \in Numbers, u \in Users :
        /\ round[v] \in {"absent", "NONE"} => approvals[v][u] = "none"
        /\ round[v] = "PENDING" => approvals[v][u] \in {"none", "PENDING", "APPROVED"}

LEMMA RowsNext ==
    ASSUME TypeOK, Rows, [Next]_vars
    PROVE  Rows'
  <1>1. ASSUME NEW m \in Managers, NEW people \in Audiences, AddVersion(m, people)
        PROVE  Rows'
    BY <1>1, StoreTypes DEF AddVersion, Rows
  <1>2. ASSUME NEW m \in Managers, NEW people \in Audiences, NEW signers \in SUBSET Users,
               SubmitVersion(m, people, signers)
        PROVE  Rows'
    BY <1>2, SubmitEffect, StoreTypes DEF Rows
  <1>3. ASSUME NEW m \in Managers, NEW people \in Audiences, RequestAcknowledgement(m, people)
        PROVE  Rows'
    BY <1>3, RequestEffect DEF Rows
  <1>4. ASSUME NEW v \in Numbers, NEW u \in Users, ApproveVersion(v, u)
        PROVE  Rows'
    BY <1>4, ApproveEffect DEF Rows
  <1>5. ASSUME NEW v \in Numbers, NEW u \in Users, ReturnVersion(v, u)
        PROVE  Rows'
    BY <1>5, ReturnEffect DEF Rows
  <1>6. ASSUME NEW v \in Numbers, RestoreVersion(v)
        PROVE  Rows'
    BY <1>6 DEF RestoreVersion, Rows
  <1>7. ASSUME NEW u \in Users, Acknowledge(u)
        PROVE  Rows'
    BY <1>7, AcknowledgeEffect DEF versionVars, Rows
  <1>8. CASE Withdraws
    <2>1. /\ \A w \in Numbers : round'[w] = IF round[w] = "PENDING" THEN "RETURNED" ELSE round[w]
          /\ \A w \in Numbers, x \in Users :
                approvals'[w][x] = IF approvals[w][x] = "PENDING" THEN "CANCELLED"
                                   ELSE approvals[w][x]
      BY <1>8, WithdrawEffect
    <2> QED BY <2>1 DEF Rows
  <1>9. CASE Quiet
    BY <1>9 DEF Quiet, versionVars, Rows
  <1> QED BY <1>1, <1>2, <1>3, <1>4, <1>5, <1>6, <1>7, <1>8, <1>9, OtherSteps DEF VersionStep

\* What is true of every state, together.
Whole == TypeOK /\ RoundIsWhole /\ Rows

LEMMA WholeAlways == Spec => []Whole
  <1>1. Init => Whole
    BY TypeInit, RoundInit DEF Init, Nowhere, Rows, Whole
  <1>2. Whole /\ [Next]_vars => Whole'
    BY TypeNext, RoundNext, RowsNext DEF Whole
  <1> QED BY <1>1, <1>2, PTL DEF Spec

Kept ==
    \A v \in Numbers, u \in Users :
        /\ readTasks[v][u] = "done" => readTasks'[v][u] = "done"
        /\ approvals[v][u] \in {"APPROVED", "RETURNED"} => approvals'[v][u] = approvals[v][u]

LEMMA KeptNext ==
    ASSUME TypeOK, Rows, [Next]_vars
    PROVE  Kept
  <1>1. ASSUME NEW m \in Managers, NEW people \in Audiences, AddVersion(m, people)
        PROVE  Kept
    <2>1. count' \in Numbers /\ readTasks' = ReadTasksOnEntry(count', people \ {m})
          /\ UNCHANGED approvals
      BY <1>1, StoreTypes DEF AddVersion, StoreVersion
    <2> QED BY <2>1, EntryEffect DEF Kept
  <1>2. ASSUME NEW m \in Managers, NEW people \in Audiences, NEW signers \in SUBSET Users,
               SubmitVersion(m, people, signers)
        PROVE  Kept
    BY <1>2, SubmitEffect, StoreTypes DEF Kept, Rows
  <1>3. ASSUME NEW m \in Managers, NEW people \in Audiences, RequestAcknowledgement(m, people)
        PROVE  Kept
    BY <1>3, RequestEffect DEF Kept
  <1>4. ASSUME NEW v \in Numbers, NEW u \in Users, ApproveVersion(v, u)
        PROVE  Kept
    BY <1>4, ApproveEffect, EntryEffect DEF Kept, Pending
  <1>5. ASSUME NEW v \in Numbers, NEW u \in Users, ReturnVersion(v, u)
        PROVE  Kept
    BY <1>5, ReturnEffect DEF Kept, Pending
  <1>6. ASSUME NEW v \in Numbers, RestoreVersion(v)
        PROVE  Kept
    BY <1>6 DEF RestoreVersion, taskVars, Kept
  <1>7. ASSUME NEW u \in Users, Acknowledge(u)
        PROVE  Kept
    BY <1>7, AcknowledgeEffect DEF versionVars, Kept
  <1>8. CASE Withdraws
    BY <1>8, WithdrawEffect DEF Kept
  <1>9. CASE Quiet
    BY <1>9 DEF Quiet, versionVars, Kept
  <1> QED BY <1>1, <1>2, <1>3, <1>4, <1>5, <1>6, <1>7, <1>8, <1>9, OtherSteps DEF VersionStep

\* The document is gone by the deletion alone, and stays gone; nothing touches
\* the version people read, or a round, of one that is gone.
LEMMA PlaceNext ==
    ASSUME [Next]_vars
    PROVE  \/ place # "gone" /\ place' # "gone"
           \/ Purge
           \/ place = "gone" /\ place' = "gone" /\ Quiet
  <1>1. CASE VersionStep
    BY <1>1 DEF VersionStep, AddVersion, SubmitVersion, StoreVersion, RequestAcknowledgement,
                ApproveVersion, ReturnVersion, MayDecide, RestoreVersion, Acknowledge
  <1>2. ASSUME NEW new \in Statuses, SetStatus(new)
        PROVE  place # "gone" /\ place' # "gone"
    BY <1>2 DEF SetStatus
  <1>3. CASE Trash \/ Restore \/ AskToPurge
    BY <1>3 DEF Trash, Restore, AskToPurge
  <1>4. ASSUME \/ \E date \in Dates \cup {None} : SetReviewDate(date)
               \/ DropPurge \/ ListForReview \/ ReadForReview \/ CreateReviewTask \/ LeaveReview
               \/ \E v \in Numbers, date \in Dates : CompleteReview(v, date) \/ ReopenReview(v, date)
               \/ UNCHANGED vars
        PROVE  UNCHANGED place /\ Quiet
    BY <1>4 DEF SetReviewDate, DropPurge, ListForReview, ReadForReview, CreateReviewTask,
                LeaveReview, CompleteReview, ReopenReview, SetReviewTask, vars, Quiet,
                versionVars, taskVars
  <1> QED BY <1>1, <1>2, <1>3, <1>4 DEF Next, VersionStep

\* A document tasks were issued on is never removed, however long ago that was
\* asked, and no answer to a request to read or to approve is ever lost.
THEOREM RecordsKept == Spec => RecordsAreKept
  <1>1. Whole /\ [Next]_vars =>
            [/\ place' = "gone" /\ place # "gone" => NothingIssued
             /\ \A v \in Numbers, u \in Users :
                   /\ readTasks[v][u] = "done" => readTasks'[v][u] = "done"
                   /\ approvals[v][u] \in {"APPROVED", "RETURNED"}
                         => approvals'[v][u] = approvals[v][u]]_vars
    <2>1. ASSUME Whole, [Next]_vars
          PROVE  Kept
      BY <2>1, KeptNext DEF Whole
    <2>2. ASSUME [Next]_vars, place' = "gone", place # "gone"
          PROVE  NothingIssued
      BY <2>2, PlaceNext DEF Purge, Deletable
    <2> QED BY <2>1, <2>2 DEF Kept
  <1> QED BY <1>1, WholeAlways, PTL DEF Spec, RecordsAreKept

-----------------------------------------------------------------------------
(* Reviews                                                                  *)

\* The strengthening: what the job is about to issue has not been issued.
ReviewIsNew ==
    reviewing # None /\ reviewing.version # 0 =>
        \A v \in Numbers : reviewTasks[v][reviewing.date] = "none"

\* The steps that issue no review task, and leave the job to what it read.
LEMMA ReviewsOtherwise ==
    ASSUME TypeOK, [Next]_vars, ~CreateReviewTask
    PROVE  /\ \A v \in Numbers, d \in Dates :
                  (reviewTasks'[v][d] # "none") <=> (reviewTasks[v][d] # "none")
           /\ \/ reviewing' = reviewing
              \/ reviewing' = None
              \/ reviewing' # None /\ reviewing'.version = 0
              \/ /\ reviewing' # None /\ reviewing'.date = reviewing.date
                 /\ reviewing \in Review /\ ~AlreadyRaised(reviewing.date)
  <1>1. ASSUME NEW m \in Managers, NEW people \in Audiences,
               \/ AddVersion(m, people)
               \/ \E signers \in SUBSET Users : SubmitVersion(m, people, signers)
               \/ RequestAcknowledgement(m, people)
        PROVE  UNCHANGED <<reviewTasks, reviewing>>
    BY <1>1 DEF AddVersion, SubmitVersion, StoreVersion, RequestAcknowledgement
  <1>2. ASSUME \/ \E v \in Numbers, u \in Users : ApproveVersion(v, u) \/ ReturnVersion(v, u)
               \/ \E v \in Numbers : RestoreVersion(v)
               \/ \E u \in Users : Acknowledge(u)
        PROVE  UNCHANGED <<reviewTasks, reviewing>>
    BY <1>2 DEF ApproveVersion, ReturnVersion, RestoreVersion, Acknowledge, taskVars
  <1>3. ASSUME \/ \E date \in Dates \cup {None} : SetReviewDate(date)
               \/ Restore \/ AskToPurge \/ Purge \/ DropPurge \/ UNCHANGED vars
        PROVE  UNCHANGED <<reviewTasks, reviewing>>
    BY <1>3 DEF SetReviewDate, Restore, AskToPurge, Purge, DropPurge, taskVars, vars
  <1>4. ASSUME Trash \/ \E new \in Statuses : SetStatus(new)
        PROVE  /\ UNCHANGED reviewing
               /\ \A v \in Numbers, d \in Dates :
                     (reviewTasks'[v][d] # "none") <=> (reviewTasks[v][d] # "none")
    <2>1. CASE Withdraws /\ UNCHANGED reviewing
      BY <2>1, WithdrawEffect
    <2>2. CASE UNCHANGED <<reviewTasks, reviewing>>
      BY <2>2
    <2> QED BY <1>4, <2>1, <2>2 DEF Trash, SetStatus, Withdraws, taskVars
  <1>5. ASSUME NEW w \in Numbers, NEW date \in Dates,
               CompleteReview(w, date) \/ ReopenReview(w, date)
        PROVE  /\ UNCHANGED reviewing
               /\ \A v \in Numbers, d \in Dates :
                     (reviewTasks'[v][d] # "none") <=> (reviewTasks[v][d] # "none")
    <2>1. PICK to \in {"open", "done"} :
             reviewTasks' = [reviewTasks EXCEPT ![w] = [reviewTasks[w] EXCEPT ![date] = to]]
      BY <1>5 DEF CompleteReview, ReopenReview, SetReviewTask
    <2>2. reviewTasks[w][date] # "none" /\ UNCHANGED reviewing
      BY <1>5 DEF CompleteReview, ReopenReview, SetReviewTask
    <2>3. \A v \in Numbers, d \in Dates :
             reviewTasks'[v][d] = IF v = w /\ d = date THEN to ELSE reviewTasks[v][d]
      BY <2>1 DEF TypeOK
    <2> QED BY <2>2, <2>3
  <1>6. CASE ListForReview \/ LeaveReview
    BY <1>6, LibraryAssumption DEF ListForReview, LeaveReview, TypeOK, taskVars
  <1>7. CASE ReadForReview
    BY <1>7, LibraryAssumption DEF ReadForReview, TypeOK, Review, taskVars
  <1> QED BY <1>1, <1>2, <1>3, <1>4, <1>5, <1>6, <1>7 DEF Next

LEMMA ReviewNext ==
    ASSUME TypeOK, ReviewIsNew, OneReviewPerDate, [Next]_vars
    PROVE  ReviewIsNew' /\ OneReviewPerDate'
  <1>1. CASE CreateReviewTask
    <2>1. reviewing.version \in Numbers /\ reviewing.date \in Dates /\ reviewing' = None
      BY <1>1 DEF CreateReviewTask, TypeOK, Review, Numbers
    <2>2. \A v \in Numbers, d \in Dates :
             reviewTasks'[v][d] = IF v = reviewing.version /\ d = reviewing.date THEN "open"
                                  ELSE reviewTasks[v][d]
      BY <1>1, <2>1 DEF CreateReviewTask, TypeOK
    <2>3. \A v \in Numbers : reviewTasks[v][reviewing.date] = "none"
      BY <1>1 DEF CreateReviewTask, ReviewIsNew
    <2> QED BY <2>1, <2>2, <2>3 DEF ReviewIsNew, OneReviewPerDate
  <1>2. CASE ~CreateReviewTask
    <2>1. \A v \in Numbers, d \in Dates :
             (reviewTasks'[v][d] # "none") <=> (reviewTasks[v][d] # "none")
      BY <1>2, ReviewsOtherwise
    <2>2. OneReviewPerDate'
      BY <2>1 DEF OneReviewPerDate
    <2>3. ReviewIsNew'
      <3>1. CASE reviewing' = reviewing
        <4>1. reviewing \in Review \cup {None}
          BY DEF TypeOK
        <4> QED BY <2>1, <3>1, <4>1 DEF ReviewIsNew, Review
      <3>2. CASE reviewing' = None \/ (reviewing' # None /\ reviewing'.version = 0)
        BY <3>2 DEF ReviewIsNew
      <3>3. CASE /\ reviewing' # None /\ reviewing'.date = reviewing.date
                 /\ reviewing \in Review /\ ~AlreadyRaised(reviewing.date)
        BY <2>1, <3>3 DEF ReviewIsNew, AlreadyRaised, Review
      <3> QED BY <1>2, <3>1, <3>2, <3>3, ReviewsOtherwise
    <2> QED BY <2>2, <2>3
  <1> QED BY <1>1, <1>2

\* One review date is asked for once, whatever is done to the document between
\* the job's reading of it and its task.
THEOREM OneReview == Spec => []OneReviewPerDate
  <1>1. Init => TypeOK /\ ReviewIsNew /\ OneReviewPerDate
    BY TypeInit DEF Init, ReviewIsNew, OneReviewPerDate
  <1>2. TypeOK /\ ReviewIsNew /\ OneReviewPerDate /\ [Next]_vars
            => (TypeOK /\ ReviewIsNew /\ OneReviewPerDate)'
    BY TypeNext, ReviewNext
  <1> QED BY <1>1, <1>2, PTL DEF Spec

-----------------------------------------------------------------------------
(* The promise                                                              *)

verdictBar == [v \in Numbers |-> VerdictOf(round[v])]
neededBar  == [v \in Numbers |-> {u \in Users : approvals[v][u] # "none"}]
signedBar  == [v \in Numbers |-> {u \in Users : approvals[v][u] = "APPROVED"}]
inForceBar == IF place = "gone" THEN 0 ELSE current

LEMMA PromiseInit == Init => Promise!Init
  BY LibraryAssumption DEF Init, Nowhere, Promise!Init, VerdictOf, Numbers

\* Only one version can be on approval, so nothing else waits for signatures.
LEMMA WaitingIsOnApproval ==
    ASSUME TypeOK
    PROVE  Promise!Waiting = OnApproval
  BY DEF TypeOK, Promise!Waiting, OnApproval, VerdictOf, Rounds

\* Withdrawn work is one refusal, or nothing if there was no round.
LEMMA WithdrawPromise ==
    ASSUME Whole, Withdraws, (place' = "gone") <=> (place = "gone")
    PROVE  [Promise!Next]_(Promise!vars)
  <1>1. /\ UNCHANGED inForceBar
        /\ \A w \in Numbers : round'[w] = IF round[w] = "PENDING" THEN "RETURNED" ELSE round[w]
        /\ \A w \in Numbers, x \in Users :
              approvals'[w][x] = IF approvals[w][x] = "PENDING" THEN "CANCELLED"
                                 ELSE approvals[w][x]
    BY WithdrawEffect DEF Whole, inForceBar
  <1>2. neededBar' = neededBar /\ signedBar' = signedBar
    BY <1>1 DEF neededBar, signedBar
  <1>3. CASE OnApproval = {}
    <2>1. \A w \in Numbers : round'[w] = round[w]
      BY <1>1, <1>3 DEF OnApproval
    <2>2. verdictBar' = verdictBar
      BY <2>1 DEF verdictBar
    <2> QED BY <1>1, <1>2, <2>2 DEF Promise!vars, verdictBar, neededBar, signedBar, inForceBar
  <1>4. ASSUME NEW v \in OnApproval
        PROVE  Promise!Refuse(v) /\ v \in Numbers
    <2>1. v \in Numbers /\ round[v] = "PENDING" /\ \A w \in OnApproval : w = v
      BY <1>4 DEF OnApproval, Whole, RoundIsWhole
    <2>2. \A w \in Numbers : round'[w] = IF w = v THEN "RETURNED" ELSE round[w]
      BY <1>1, <2>1 DEF OnApproval
    <2>3. verdictBar' = [verdictBar EXCEPT ![v] = "refused"] /\ verdictBar[v] = "waiting"
      <3>1. VerdictOf("RETURNED") = "refused" /\ VerdictOf("PENDING") = "waiting"
        BY DEF VerdictOf
      <3>2. \A w \in Numbers :
               VerdictOf(round'[w]) = IF w = v THEN "refused" ELSE VerdictOf(round[w])
        BY <2>2, <3>1
      <3> QED BY <2>1, <3>1, <3>2 DEF verdictBar
    <2> QED BY <1>1, <1>2, <2>1, <2>3 DEF Promise!Refuse, verdictBar, neededBar, signedBar, inForceBar
  <1> QED BY <1>3, <1>4 DEF Promise!Next

LEMMA VerdictTable ==
    /\ VerdictOf("absent") = "absent" /\ VerdictOf("PENDING") = "waiting"
    /\ VerdictOf("NONE") = "agreed" /\ VerdictOf("APPROVED") = "agreed"
    /\ VerdictOf("RETURNED") = "refused"
  BY DEF VerdictOf

\* What a change of one round is to the verdicts.
LEMMA VerdictStep ==
    ASSUME NEW v \in Numbers, NEW state,
           \A w \in Numbers : round'[w] = IF w = v THEN state ELSE round[w]
    PROVE  verdictBar' = [verdictBar EXCEPT ![v] = VerdictOf(state)]
  <1>1. \A w \in Numbers : VerdictOf(round'[w]) = IF w = v THEN VerdictOf(state)
                                                 ELSE VerdictOf(round[w])
    OBVIOUS
  <1> QED BY <1>1 DEF verdictBar

LEMMA InForceNumber ==
    ASSUME TypeOK, place # "gone"
    PROVE  inForceBar = current /\ inForceBar # 0 /\ current \in Numbers
  BY CurrentIsStored DEF inForceBar, Numbers

LEMMA VersionPromise ==
    ASSUME Whole, VersionStep, place # "gone", place' # "gone", TypeOK'
    PROVE  [Promise!Next]_(Promise!vars)
  <1>a. inForceBar = current /\ inForceBar # 0 /\ inForceBar' = current'
    BY InForceNumber DEF Whole, inForceBar
  <1>b. TypeOK
    BY DEF Whole
  <1>1. ASSUME NEW m \in Managers, NEW people \in Audiences, AddVersion(m, people)
        PROVE  \E v \in Numbers : Promise!Publish(v)
    <2>1. /\ count' \in Numbers /\ round[count'] = "absent" /\ OnApproval = {}
          /\ \A w \in Numbers : round'[w] = IF w = count' THEN "NONE" ELSE round[w]
          /\ current' = count' /\ UNCHANGED approvals
      BY <1>1, <1>b, StoreTypes DEF AddVersion, StoreVersion
    <2>2. verdictBar' = [verdictBar EXCEPT ![count'] = "agreed"]
      BY <2>1, VerdictStep, VerdictTable
    <2>3. verdictBar[count'] = "absent" /\ UNCHANGED <<neededBar, signedBar>>
      BY <2>1, VerdictTable DEF verdictBar, neededBar, signedBar
    <2> QED BY <1>a, <1>b, <2>1, <2>2, <2>3, WaitingIsOnApproval
            DEF Promise!Publish, verdictBar, neededBar, signedBar, inForceBar
  <1>2. ASSUME NEW m \in Managers, NEW people \in Audiences, NEW signers \in SUBSET Users,
               SubmitVersion(m, people, signers)
        PROVE  \E v \in Numbers : Promise!Propose(v, signers)
    <2>1. /\ count' \in Numbers /\ round[count'] = "absent" /\ OnApproval = {}
          /\ \A w \in Numbers : round'[w] = IF w = count' THEN "PENDING" ELSE round[w]
          /\ UNCHANGED current /\ signers # {}
          /\ \A w \in Numbers, x \in Users :
                approvals'[w][x] = IF w = count' THEN IF x \in signers THEN "PENDING" ELSE "none"
                                   ELSE approvals[w][x]
      BY <1>2, <1>b, SubmitEffect, StoreTypes
    <2>2. verdictBar' = [verdictBar EXCEPT ![count'] = "waiting"]
      BY <2>1, VerdictStep, VerdictTable
    <2>3. verdictBar[count'] = "absent"
      BY <2>1, VerdictTable DEF verdictBar
    <2>4. neededBar' = [neededBar EXCEPT ![count'] = signers]
      BY <2>1 DEF neededBar
    <2>5. \A x \in Users : approvals[count'][x] = "none"
      BY <2>1 DEF Whole, Rows
    <2>6. signedBar' = signedBar
      BY <2>1, <2>5 DEF signedBar
    <2> QED BY <1>a, <1>b, <2>1, <2>2, <2>3, <2>4, <2>6, WaitingIsOnApproval
            DEF Promise!Propose, verdictBar, neededBar, signedBar, inForceBar
  <1>3. ASSUME NEW m \in Managers, NEW people \in Audiences, RequestAcknowledgement(m, people)
        PROVE  UNCHANGED Promise!vars
    BY <1>3, <1>b, RequestEffect DEF Promise!vars
  <1>4. ASSUME NEW v \in Numbers, NEW u \in Users, ApproveVersion(v, u)
        PROVE  Promise!Sign(v, u)
    <2>1. /\ round[v] = "PENDING" /\ approvals[v][u] = "PENDING"
          /\ \A w \in Numbers, x \in Users :
                approvals'[w][x] = IF w = v /\ x = u THEN "APPROVED" ELSE approvals[w][x]
      BY <1>4, <1>b, ApproveEffect DEF Pending
    <2>2. UNCHANGED neededBar
      BY <2>1 DEF neededBar
    <2>3. signedBar' = [signedBar EXCEPT ![v] = signedBar[v] \cup {u}]
      <3>1. \A w \in Numbers : {x \in Users : approvals'[w][x] = "APPROVED"} =
               IF w = v THEN {x \in Users : approvals[w][x] = "APPROVED"} \cup {u}
               ELSE {x \in Users : approvals[w][x] = "APPROVED"}
        BY <2>1
      <3> QED BY <3>1 DEF signedBar
    <2>4. verdictBar[v] = "waiting" /\ u \in neededBar[v] \ signedBar[v]
      BY <2>1, VerdictTable DEF verdictBar, neededBar, signedBar
    <2>5. \A x \in Users : approvals[v][x] \in {"none", "PENDING", "APPROVED"}
      BY <2>1 DEF Whole, Rows
    <2>6. signedBar'[v] = neededBar[v] <=> Pending(v) = {u}
      <3>1. signedBar'[v] = {x \in Users : x = u \/ approvals[v][x] = "APPROVED"}
        BY <2>1 DEF signedBar
      <3>2. neededBar[v] = {x \in Users : approvals[v][x] \in {"PENDING", "APPROVED"}}
        BY <2>5 DEF neededBar
      <3> QED BY <2>1, <3>1, <3>2 DEF Pending
    <2>7. CASE Pending(v) = {u}
      <3>1. current' = v /\ \A w \in Numbers : round'[w] = IF w = v THEN "APPROVED" ELSE round[w]
        BY <1>4, <1>b, <2>7, ApproveEffect
      <3>2. verdictBar' = [verdictBar EXCEPT ![v] = "agreed"]
        BY <3>1, VerdictStep, VerdictTable
      <3> QED BY <1>a, <2>2, <2>3, <2>4, <2>6, <2>7, <3>1, <3>2
              DEF Promise!Sign, verdictBar, neededBar, signedBar, inForceBar
    <2>8. CASE Pending(v) # {u}
      <3>1. UNCHANGED <<round, current>>
        BY <1>4, <1>b, <2>8, ApproveEffect
      <3>2. verdictBar' = verdictBar
        BY <3>1 DEF verdictBar
      <3> QED BY <1>a, <2>2, <2>3, <2>4, <2>6, <2>8, <3>1, <3>2
              DEF Promise!Sign, verdictBar, neededBar, signedBar, inForceBar
    <2> QED BY <2>7, <2>8
  <1>5. ASSUME NEW v \in Numbers, NEW u \in Users, ReturnVersion(v, u)
        PROVE  Promise!Refuse(v)
    <2>1. /\ round[v] = "PENDING" /\ approvals[v][u] = "PENDING" /\ UNCHANGED current
          /\ \A w \in Numbers : round'[w] = IF w = v THEN "RETURNED" ELSE round[w]
          /\ \A w \in Numbers, x \in Users :
                approvals'[w][x] = IF w # v THEN approvals[w][x]
                                   ELSE IF x = u THEN "RETURNED"
                                   ELSE IF approvals[w][x] = "PENDING" THEN "CANCELLED"
                                   ELSE approvals[w][x]
      BY <1>5, <1>b, ReturnEffect DEF Pending
    <2>2. verdictBar[v] = "waiting" /\ verdictBar' = [verdictBar EXCEPT ![v] = "refused"]
      BY <2>1, VerdictStep, VerdictTable DEF verdictBar
    <2>3. UNCHANGED <<neededBar, signedBar>>
      BY <2>1 DEF neededBar, signedBar
    <2> QED BY <1>a, <2>1, <2>2, <2>3
            DEF Promise!Refuse, verdictBar, neededBar, signedBar, inForceBar
  <1>6. ASSUME NEW v \in Numbers, RestoreVersion(v)
        PROVE  Promise!Revert(v)
    <2>1. round[v] \in {"NONE", "APPROVED"}
      BY <1>6, <1>b DEF RestoreVersion, WasInForce, TypeOK, Rounds, Numbers
    <2>2. verdictBar[v] = "agreed" /\ UNCHANGED <<verdictBar, neededBar, signedBar>>
      BY <1>6, <2>1, VerdictTable DEF RestoreVersion, verdictBar, neededBar, signedBar
    <2>3. current' = v
      BY <1>6 DEF RestoreVersion
    <2> QED BY <1>a, <2>2, <2>3 DEF Promise!Revert, verdictBar, neededBar, signedBar, inForceBar
  <1>7. ASSUME NEW u \in Users, Acknowledge(u)
        PROVE  UNCHANGED Promise!vars
    BY <1>7, <1>b, AcknowledgeEffect DEF versionVars, Promise!vars
  <1> QED BY <1>1, <1>2, <1>3, <1>4, <1>5, <1>6, <1>7 DEF VersionStep, Promise!Next

LEMMA PromiseNext ==
    ASSUME Whole, [Next]_vars
    PROVE  [Promise!Next]_(Promise!vars)
  <1>1. CASE Purge
    <2>1. Quiet /\ place' = "gone"
      BY <1>1 DEF Purge, Quiet, taskVars
    <2> QED BY <2>1 DEF Quiet, versionVars, Promise!Remove, Promise!Next
  <1>2. CASE place = "gone" /\ place' = "gone" /\ Quiet
    BY <1>2 DEF Quiet, versionVars, Promise!vars
  <1>3. CASE place # "gone" /\ place' # "gone"
    <2>1. CASE VersionStep
      BY <1>3, <2>1, VersionPromise, TypeNext DEF Whole
    <2>2. CASE Withdraws
      BY <1>3, <2>2, WithdrawPromise
    <2>3. CASE Quiet
      BY <1>3, <2>3 DEF Quiet, versionVars, Promise!vars
    <2> QED BY <2>1, <2>2, <2>3, OtherSteps
  <1> QED BY <1>1, <1>2, <1>3, PlaceNext

\* The library keeps its promise: what people read was agreed by everybody
\* asked, and a refused version never comes into force.
THEOREM DocumentKeepsRevisions == Spec => KeepsRevisions
  <1>1. Init => Promise!Init
    BY PromiseInit
  <1>2. Whole /\ [Next]_vars => [Promise!Next]_(Promise!vars)
    BY PromiseNext
  <1> QED BY <1>1, <1>2, WholeAlways, PTL DEF Spec, KeepsRevisions, Promise!Spec

\* The round of a version and what its readers are asked, together
\* (add_document_version, approve_version).
THEOREM VersionsAreApprovedThenRead == Spec => []ApprovedThenRead
<1>1. Spec => []RoundIsWhole
  BY RoundsAreWhole
<1>2. Spec => []EveryReaderIsAsked
  BY ReadersAreAsked
<1>. QED
  BY <1>1, <1>2, PTL DEF ApprovedThenRead

=============================================================================
