-------------------------- MODULE ActWorkflow_proofs --------------------------
(***************************************************************************)
(* Proofs about ActWorkflow, for any plant, any act and any number of       *)
(* overlapping edits and substitutions.                                     *)
(*                                                                         *)
(* QueueFollowsAct and DecidedBeforeAnalysis each need only the types      *)
(* besides themselves.  That work is handed out once rests on the plan an  *)
(* approval hands out, on the people who stay, and on the prohibited        *)
(* defects being planned for once; that routing and permission agree, on    *)
(* no defect of the combined workshop standing next to another's.           *)
(***************************************************************************)
EXTENDS ActWorkflow, FiniteSetTheorems, TLAPS

USE DEF Statuses

-----------------------------------------------------------------------------
(* What the helpers return                                                  *)

LEMMA StageAssigneesAreUsers ==
    ASSUME NEW s \in Stages
    PROVE  StageAssignees(s) \subseteq Users
  BY PeopleAssumption DEF StageAssignees, RoleHolders, Stages, StatusOfStage

LEMMA MoveTaskType ==
    ASSUME NEW st \in SUBSET Stages, requests \in SUBSET LoanRequest, MoveTask(st)
    PROVE  queue' \in SUBSET Entry /\ requests' \in SUBSET LoanRequest
  <1>1. ASSUME NEW s \in Stages, StageAssignees(s) # {}
        PROVE  [stage |-> s, assignees |-> StageAssignees(s)] \in Entry
    <2>1. StageAssignees(s) \in (SUBSET Users) \ {{}}
      BY <1>1, StageAssigneesAreUsers
    <2> QED BY <2>1 DEF Entry
  <1>3. queue' = {[stage |-> s, assignees |-> StageAssignees(s)] :
                     s \in {t \in st : StageAssignees(t) # {}}}
    BY DEF MoveTask, EntriesLeftOpen
  <1>4. queue' \in SUBSET Entry
    BY <1>1, <1>3
  <1>5. ASSUME NEW request \in LoanRequest
        PROVE  [request EXCEPT !.open = FALSE] \in LoanRequest
    BY DEF LoanRequest
  <1>2. requests' \in SUBSET LoanRequest
    BY <1>5 DEF MoveTask
  <1> QED BY <1>4, <1>2

LEMMA NarrowedQueueType ==
    ASSUME NEW rows, NEW round, queue \in SUBSET Entry
    PROVE  NarrowedQueue(rows, round) \in SUBSET Entry
  <1> DEFINE remaining == RoleHolders(PendingKoRoles(rows, round))
  <1>1. CASE remaining = {}
    BY <1>1 DEF NarrowedQueue
  <1>2. CASE remaining # {}
    <2>1. remaining \in (SUBSET Users) \ {{}}
      BY <1>2 DEF RoleHolders
    <2> HIDE DEF remaining
    <2>2. \A entry \in Entry : [entry EXCEPT !.assignees = remaining] \in Entry
      BY <2>1 DEF Entry
    <2>3. NarrowedQueue(rows, round) =
            {IF entry.stage = "KO_REVIEW" THEN [entry EXCEPT !.assignees = remaining]
             ELSE entry : entry \in queue}
      BY <1>2 DEF NarrowedQueue, remaining
    <2> QED BY <2>2, <2>3
  <1> QED BY <1>1, <1>2

\* A decision changes no workshop, so the route of the act stays what it was.
LEMMA DecideType ==
    ASSUME defects \in [Defects -> DefectRow], NEW round \in Nat,
           NEW owned \in SUBSET Defects, NEW verdict \in [owned -> Verdicts]
    PROVE  /\ Decide(verdict, round) \in [Defects -> DefectRow]
           /\ \A d \in Defects : Decide(verdict, round)[d].shop = defects[d].shop
           /\ \A d \in Defects : Decide(verdict, round)[d] =
                 IF d \in owned
                 THEN [shop |-> defects[d].shop, decision |-> verdict[d], round |-> round]
                 ELSE defects[d]
  <1>0. DOMAIN verdict = owned /\ \A d \in owned : verdict[d] \in Verdicts
    OBVIOUS
  <1>1. ASSUME NEW d \in Defects
        PROVE  Decide(verdict, round)[d] =
                    IF d \in owned
                    THEN [shop |-> defects[d].shop, decision |-> verdict[d], round |-> round]
                    ELSE defects[d]
    BY <1>0 DEF Decide
  <1>2. ASSUME NEW d \in Defects
        PROVE  Decide(verdict, round)[d] \in DefectRow
    <2>1. defects[d] \in DefectRow /\ defects[d].shop \in Workshops \cup {Absent}
      BY DEF DefectRow
    <2>2. CASE d \in owned
      <3>1. verdict[d] \in Verdicts \cup {""}
        BY <1>0, <2>2
      <3>2. Decide(verdict, round)[d] =
               [shop |-> defects[d].shop, decision |-> verdict[d], round |-> round]
        BY <1>1, <2>2
      <3>3. [shop |-> defects[d].shop, decision |-> verdict[d], round |-> round] \in DefectRow
        BY <2>1, <3>1 DEF DefectRow
      <3> QED BY <3>2, <3>3
    <2>3. CASE d \notin owned
      BY <1>1, <2>1, <2>3
    <2> QED BY <2>2, <2>3
  <1>3. Decide(verdict, round) \in [Defects -> DefectRow]
    BY <1>2 DEF Decide
  <1> QED BY <1>1, <1>3

LEMMA SameShopsSameRoute ==
    ASSUME NEW rows, NEW rows2, \A d \in Defects : rows[d].shop = rows2[d].shop
    PROVE  Live(rows) = Live(rows2) /\ Shops(rows) = Shops(rows2)
  <1>1. Live(rows) = Live(rows2)
    BY DEF Live
  <1>2. Shops(rows) = Shops(rows2)
    BY <1>1 DEF Shops, Live
  <1> QED BY <1>1, <1>2

LEMMA RowFields ==
    \A x, y, z : LET row == [shop |-> x, decision |-> y, round |-> z]
                 IN  row.shop = x /\ row.decision = y /\ row.round = z
  OBVIOUS

LEMMA KoRoundType ==
    ASSUME koRound \in Nat
    PROVE  /\ KoRoundAtDecision \in Nat /\ KoRoundAtDecision # 0
           /\ koRound <= KoRoundAtDecision
  BY DEF KoRoundAtDecision

LEMMA BatchesType ==
    ASSUME NEW action \in CorrectiveAction
    PROVE  Batches(action) \subseteq
              [action : CorrectiveAction, assignees : (SUBSET Users) \ {{}}]
  <1>1. action.assignees \in (SUBSET Users) \ {{}}
    BY DEF CorrectiveAction
  <1>2. ASSUME NEW people \in (SUBSET Users) \ {{}}
        PROVE  [action |-> action, assignees |-> people]
                  \in [action : CorrectiveAction, assignees : (SUBSET Users) \ {{}}]
    OBVIOUS
  <1>3. \A u \in action.assignees : {u} \in (SUBSET Users) \ {{}}
    BY <1>1
  <1> QED BY <1>1, <1>2, <1>3 DEF Batches

LEMMA RowsAfterEditType ==
    ASSUME NEW request \in EditRequest, NEW layout \in Layouts, NEW touched \in SUBSET Defects,
           defects \in [Defects -> DefectRow]
    PROVE  RowsAfterEdit(request, layout, touched) \in [Defects -> DefectRow]
  <1>1. layout \in [Defects -> Workshops \cup {Absent}]
    BY DataAssumption DEF Layout
  <1>2. request.rows \in [Defects -> DefectRow]
    BY DEF EditRequest
  <1>3. [shop |-> Absent, decision |-> "", round |-> 0] \in DefectRow
    BY DEF DefectRow
  <1>4. ASSUME NEW row \in DefectRow, NEW shop \in Workshops \cup {Absent}
        PROVE  [row EXCEPT !.shop = shop] \in DefectRow
    BY DEF DefectRow
  <1>5. ASSUME NEW d \in Defects
        PROVE  RowsAfterEdit(request, layout, touched)[d] \in DefectRow
    BY <1>1, <1>2, <1>3, <1>4 DEF RowsAfterEdit
  <1> QED BY <1>5 DEF RowsAfterEdit

-----------------------------------------------------------------------------
(* Types                                                                    *)

LEMMA InitType == Init => TypeOK
  <1> SUFFICES ASSUME Init PROVE TypeOK
    OBVIOUS
  <1>1. defects \in [Defects -> DefectRow]
    <2>1. PICK layout \in Layouts :
             defects = [d \in Defects |-> [shop |-> layout[d], decision |-> "", round |-> 0]]
      BY DEF Init
    <2>2. layout \in [Defects -> Workshops \cup {Absent}]
      BY DataAssumption DEF Layout
    <2>3. \A shop \in Workshops \cup {Absent} :
             [shop |-> shop, decision |-> "", round |-> 0] \in DefectRow
      BY DEF DefectRow
    <2> QED BY <2>1, <2>2, <2>3
  <1> QED BY <1>1 DEF Init, TypeOK

LEMMA TransitionType ==
    ASSUME TypeOK, NEW u \in Users, Transition(u)
    PROVE  TypeOK'
  <1> USE DEF TypeOK
  <1>1. CASE SendToKo(u)
    <2>1. queue' \in SUBSET Entry /\ requests' \in SUBSET LoanRequest
      BY <1>1, MoveTaskType DEF SendToKo, Stages, StatusOfStage
    <2> QED BY <1>1, <2>1 DEF SendToKo, peopleVars, NextRound, StatusOfStage
  <1>2. CASE ApplyKoShare(u)
    <2>1. PICK verdict \in [DecidableDefects(u) -> Verdicts] :
             /\ defects' = Decide(verdict, KoRoundAtDecision)
             /\ queue' = NarrowedQueue(defects', KoRoundAtDecision)
      BY <1>2 DEF ApplyKoShare
    <2>2. DecidableDefects(u) \subseteq Defects
      BY DEF DecidableDefects, Live
    <2>3. defects' \in [Defects -> DefectRow]
      BY <2>1, <2>2, DecideType, KoRoundType
    <2>4. queue' \in SUBSET Entry
      BY <2>1, NarrowedQueueType
    <2> QED BY <1>2, <2>3, <2>4, KoRoundType DEF ApplyKoShare, peopleVars
  <1>3. CASE ApplyLastKoShare(u)
    <2>1. PICK verdict \in [DecidableDefects(u) -> Verdicts] :
             /\ defects' = Decide(verdict, KoRoundAtDecision)
             /\ EnsureRejectionTask(defects')
      BY <1>3 DEF ApplyLastKoShare
    <2>2. DecidableDefects(u) \subseteq Defects
      BY DEF DecidableDefects, Live
    <2>3. defects' \in [Defects -> DefectRow]
      BY <2>1, <2>2, DecideType, KoRoundType
    <2>4. queue' \in SUBSET Entry /\ requests' \in SUBSET LoanRequest
      BY <1>3, MoveTaskType DEF ApplyLastKoShare, Stages, StatusOfStage
    <2>5. rejections' \in Nat /\ openPrints' \in Nat
      BY <1>3, <2>1 DEF ApplyLastKoShare, EnsureRejectionTask, EnsurePrintTask
    <2> QED BY <1>3, <2>3, <2>4, <2>5, KoRoundType DEF ApplyLastKoShare, peopleVars
  <1>4. CASE ReturnToOtk(u)
    <2>1. queue' \in SUBSET Entry /\ requests' \in SUBSET LoanRequest
      BY <1>4, MoveTaskType DEF ReturnToOtk, Stages, StatusOfStage
    <2> QED BY <1>4, <2>1 DEF ReturnToOtk, peopleVars
  <1>5. CASE ApplyToAnalysis(u)
    <2>1. queue' \in SUBSET Entry /\ requests' \in SUBSET LoanRequest
      BY <1>5, MoveTaskType DEF ApplyToAnalysis, Stages, StatusOfStage
    <2> QED BY <1>5, <2>1 DEF ApplyToAnalysis, peopleVars
  <1>6. CASE ApplyStructuredToAnalysis(u)
    <2>1. queue' \in SUBSET Entry /\ requests' \in SUBSET LoanRequest
      BY <1>6, MoveTaskType DEF ApplyStructuredToAnalysis, Stages, StatusOfStage
    <2>2. plan' \in SUBSET CorrectiveAction
      BY <1>6, DataAssumption DEF ApplyStructuredToAnalysis
    <2> QED BY <1>6, <2>1, <2>2 DEF ApplyStructuredToAnalysis, peopleVars
  <1>7. CASE ApplyCombinedToAnalysis(u)
    <2>1. PICK verdict \in [Live(defects) -> Verdicts] :
             defects' = Decide(verdict, KoRoundAtDecision)
      BY <1>7 DEF ApplyCombinedToAnalysis
    <2>2. defects' \in [Defects -> DefectRow]
      BY <2>1, DecideType, KoRoundType DEF Live
    <2>3. queue' \in SUBSET Entry /\ requests' \in SUBSET LoanRequest
      BY <1>7, MoveTaskType DEF ApplyCombinedToAnalysis, Stages, StatusOfStage
    <2>4. plan' \in SUBSET CorrectiveAction
      BY <1>7, DataAssumption DEF ApplyCombinedToAnalysis
    <2>5. openPrints' \in Nat
      BY <1>7 DEF ApplyCombinedToAnalysis, EnsurePrintTask
    <2> QED BY <1>7, <2>2, <2>3, <2>4, <2>5, KoRoundType DEF ApplyCombinedToAnalysis, peopleVars
  <1>8. CASE ReturnToKo(u)
    <2>1. queue' \in SUBSET Entry /\ requests' \in SUBSET LoanRequest
      BY <1>8, MoveTaskType DEF ReturnToKo, Stages, StatusOfStage
    <2> QED BY <1>8, <2>1 DEF ReturnToKo, peopleVars, NextRound
  <1>9. CASE ReturnToTo(u)
    <2>1. queue' \in SUBSET Entry /\ requests' \in SUBSET LoanRequest
      BY <1>9, MoveTaskType DEF ReturnToTo, Stages, StatusOfStage
    <2> QED BY <1>9, <2>1 DEF ReturnToTo, peopleVars, NextRound
  <1>10. CASE ApproveAct(u)
    <2>1. queue' \in SUBSET Entry /\ requests' \in SUBSET LoanRequest
      BY <1>10, MoveTaskType DEF ApproveAct
    <2>2. handedOut' \subseteq [action : CorrectiveAction, assignees : (SUBSET Users) \ {{}}]
      BY <1>10, BatchesType DEF ApproveAct
    <2> QED BY <1>10, <2>1, <2>2 DEF ApproveAct, peopleVars
  <1> QED BY <1>1, <1>2, <1>3, <1>4, <1>5, <1>6, <1>7, <1>8, <1>9, <1>10 DEF Transition

LEMMA NextType == TypeOK /\ [Next]_vars => TypeOK'
  <1> SUFFICES ASSUME TypeOK, [Next]_vars PROVE TypeOK'
    OBVIOUS
  <1> USE DEF TypeOK, actVars, taskVars, peopleVars
  <1>1. CASE \E u \in Users : Transition(u)
    BY <1>1, TransitionType
  <1>2. CASE \E u \in Users : ReopenPrintTask(u)
    BY <1>2 DEF ReopenPrintTask
  <1>3. CASE \E e \in Editors, u \in Users : BeginEdit(e, u)
    <2>1. PICK e \in Editors, u \in Users : BeginEdit(e, u)
      BY <1>3
    <2>2. [editor |-> e, by |-> u, round |-> koRound, rows |-> defects] \in EditRequest
      BY DEF EditRequest
    <2> QED BY <2>1, <2>2 DEF BeginEdit
  <1>4. CASE \E request \in edits : CommitEdit(request)
    <2>1. PICK request \in edits : CommitEdit(request)
      BY <1>4
    <2>2. request \in EditRequest /\ request.round \in Nat
      BY DEF EditRequest
    <2>3. defects' \in [Defects -> DefectRow]
      BY <2>1, <2>2, RowsAfterEditType DEF CommitEdit
    <2> QED BY <2>1, <2>2, <2>3 DEF CommitEdit
  <1>5. CASE \E request \in edits : DropEdit(request)
    BY <1>5 DEF DropEdit
  <1>6. CASE \E loan \in Loans : BeginLoan(loan)
    <2>1. PICK loan \in Loans : BeginLoan(loan)
      BY <1>6
    <2>2. UNION {entry.assignees : entry \in EntriesToJoin(loan)} \subseteq Users
      BY DEF EntriesToJoin, Entry
    <2>3. (EntriesToJoin(loan) # {}) \in BOOLEAN
      OBVIOUS
    <2>4. [loan |-> loan, open |-> EntriesToJoin(loan) # {},
           seen |-> UNION {entry.assignees : entry \in EntriesToJoin(loan)}] \in LoanRequest
      BY <2>2, <2>3 DEF LoanRequest
    <2> QED BY <2>1, <2>4 DEF BeginLoan
  <1>7. CASE \E loan \in Loans : ExpireLoan(loan)
    BY <1>7 DEF ExpireLoan
  <1>8. CASE \E request \in requests : CommitLoan(request)
    <2>1. PICK request \in requests : CommitLoan(request)
      BY <1>8
    <2>2. request.loan \in Loans /\ request.seen \subseteq Users /\ request.loan[1] \in Users
      BY PeopleAssumption DEF LoanRequest
    <2>3. ASSUME NEW entry \in Entry
          PROVE  [entry EXCEPT !.assignees = AssigneesWithSubstitute(request, @)] \in Entry
      BY <2>2 DEF Entry, AssigneesWithSubstitute
    <2> QED BY <2>1, <2>2, <2>3 DEF CommitLoan
  <1>9. CASE \E u \in MayLeave : SwitchAccount(u)
    BY <1>9 DEF SwitchAccount
  <1>10. CASE CompletePrintTask
    BY <1>10 DEF CompletePrintTask
  <1>11. CASE UNCHANGED vars
    BY <1>11 DEF vars
  <1> QED BY <1>1, <1>2, <1>3, <1>4, <1>5, <1>6, <1>7, <1>8, <1>9, <1>10, <1>11 DEF Next

\* Every reachable state has its types: an open entry always has an assignee.
THEOREM TypeCorrect == Spec => []TypeOK
  <1> QED BY InitType, NextType, PTL DEF Spec

-----------------------------------------------------------------------------
(* The queue follows the act                                                *)

LEMMA MovedQueueFollows ==
    ASSUME NEW st \in SUBSET Stages, MoveTask(st),
           \A s \in st : StatusOfStage[s] = status',
           \A s, t \in st : s = t
    PROVE  QueueFollowsAct'
  <1>1. queue' = {[stage |-> s, assignees |-> StageAssignees(s)] :
                     s \in {t \in st : StageAssignees(t) # {}}}
    BY DEF MoveTask, EntriesLeftOpen
  <1>2. \A entry \in queue' : StatusOfStage[entry.stage] = status'
    BY <1>1
  <1>3. \A one, other \in queue' : one = other
    BY <1>1
  <1> QED BY <1>2, <1>3 DEF QueueFollowsAct

LEMMA TransitionKeepsQueue ==
    ASSUME TypeOK, QueueFollowsAct, NEW u \in Users, Transition(u)
    PROVE  QueueFollowsAct'
  <1> USE DEF Stages, StatusOfStage
  <1>1. CASE SendToKo(u)
    BY <1>1, MovedQueueFollows DEF SendToKo
  <1>2. CASE ApplyKoShare(u)
    <2>1. PICK rows : queue' = NarrowedQueue(rows, KoRoundAtDecision)
      BY <1>2 DEF ApplyKoShare
    <2>2. status' = status
      BY <1>2 DEF ApplyKoShare
    <2> DEFINE remaining == RoleHolders(PendingKoRoles(rows, KoRoundAtDecision))
               Kept(entry) == IF entry.stage = "KO_REVIEW"
                              THEN [entry EXCEPT !.assignees = remaining] ELSE entry
    <2>3. \A entry \in queue : Kept(entry).stage = entry.stage
      BY DEF TypeOK, Entry
    <2>6. queue' = queue \/ queue' = {Kept(entry) : entry \in queue}
      BY <2>1 DEF NarrowedQueue
    <2> HIDE DEF Kept
    <2>4. \A entry2 \in queue' : \E entry \in queue : entry2.stage = entry.stage
      BY <2>3, <2>6
    <2>5. \A one, other \in queue' : one = other
      BY <2>6 DEF QueueFollowsAct
    <2> QED BY <2>2, <2>4, <2>5 DEF QueueFollowsAct
  <1>3. CASE ApplyLastKoShare(u)
    BY <1>3, MovedQueueFollows DEF ApplyLastKoShare
  <1>4. CASE ReturnToOtk(u)
    BY <1>4, MovedQueueFollows DEF ReturnToOtk
  <1>5. CASE ApplyToAnalysis(u)
    BY <1>5, MovedQueueFollows DEF ApplyToAnalysis
  <1>6. CASE ApplyStructuredToAnalysis(u)
    BY <1>6, MovedQueueFollows DEF ApplyStructuredToAnalysis
  <1>7. CASE ApplyCombinedToAnalysis(u)
    BY <1>7, MovedQueueFollows DEF ApplyCombinedToAnalysis
  <1>8. CASE ReturnToKo(u)
    BY <1>8, MovedQueueFollows DEF ReturnToKo
  <1>9. CASE ReturnToTo(u)
    BY <1>9, MovedQueueFollows DEF ReturnToTo
  <1>10. CASE ApproveAct(u)
    BY <1>10, MovedQueueFollows DEF ApproveAct
  <1> QED BY <1>1, <1>2, <1>3, <1>4, <1>5, <1>6, <1>7, <1>8, <1>9, <1>10 DEF Transition

\* What a step other than a transition does to the act and its queue.
LEMMA OtherSteps ==
    ASSUME TypeOK, [Next]_vars, ~ \E u \in Users : Transition(u)
    PROVE  /\ status' = status /\ plan' = plan /\ handedOut' = handedOut
           /\ \/ queue' = queue
              \/ \E request \in requests : CommitLoan(request)
           /\ \/ koRound' = koRound /\ defects' = defects
              \/ \E request \in edits : CommitEdit(request)
  BY DEF Next, vars, actVars, taskVars, ReopenPrintTask, BeginEdit, CommitEdit, DropEdit,
         BeginLoan, ExpireLoan, CommitLoan, SwitchAccount, CompletePrintTask

LEMMA NextKeepsQueue ==
    ASSUME TypeOK, QueueFollowsAct, [Next]_vars
    PROVE  QueueFollowsAct'
  <1>1. CASE \E u \in Users : Transition(u)
    BY <1>1, TransitionKeepsQueue
  <1>2. CASE ~ \E u \in Users : Transition(u)
    <2>1. status' = status
      BY <1>2, OtherSteps
    <2>2. CASE queue' = queue
      BY <2>1, <2>2 DEF QueueFollowsAct
    <2>3. CASE \E request \in requests : CommitLoan(request)
      <3>1. PICK request \in requests : CommitLoan(request)
        BY <2>3
      <3> DEFINE Joined(entry) ==
                   [entry EXCEPT !.assignees = AssigneesWithSubstitute(request, @)]
      <3>2. \A entry \in queue : Joined(entry).stage = entry.stage
        BY DEF TypeOK, Entry
      <3>3. queue' = queue \/ queue' = {Joined(entry) : entry \in queue}
        BY <3>1 DEF CommitLoan
      <3> HIDE DEF Joined
      <3> QED BY <2>1, <3>2, <3>3 DEF QueueFollowsAct
    <2> QED BY <1>2, <2>2, <2>3, OtherSteps
  <1> QED BY <1>1, <1>2

\* The queue and the act never disagree: at most one open routing entry, of
\* the stage the act is in, and none once it is archived.
THEOREM QueueAndActAgree == Spec => []QueueFollowsAct
  <1>1. Init => QueueFollowsAct
    BY DEF Init, QueueFollowsAct
  <1>2. TypeOK /\ QueueFollowsAct /\ [Next]_vars => QueueFollowsAct'
    BY NextKeepsQueue
  <1> QED BY <1>1, <1>2, TypeCorrect, PTL DEF Spec

-----------------------------------------------------------------------------
(* Nothing passes the decisions undecided                                   *)

LEMMA EverythingDecided ==
    ASSUME NEW rows, NEW round, Waiting(rows, round) = {}
    PROVE  \A d \in Live(rows) : IsDecidedThisRound(rows[d], round)
  BY DEF Waiting

LEMMA NextKeepsDecided ==
    ASSUME TypeOK, DecidedBeforeAnalysis, [Next]_vars
    PROVE  DecidedBeforeAnalysis'
  <1> SUFFICES ASSUME PastDecisions'
               PROVE  \A d \in Live(defects') : IsDecidedThisRound(defects'[d], koRound')
    BY DEF DecidedBeforeAnalysis
  <1> USE DEF TypeOK
  \* Past the decisions before and after, and nothing decided has changed.
  <1>a. ASSUME PastDecisions, defects' = defects, koRound' = koRound
        PROVE  \A d \in Live(defects') : IsDecidedThisRound(defects'[d], koRound')
    BY <1>a DEF DecidedBeforeAnalysis
  <1>1. CASE \E u \in Users : Transition(u)
    <2>0. PICK u \in Users : Transition(u)
      BY <1>1
    <2> USE DEF StatusOfStage, PastDecisions
    <2>1. CASE SendToKo(u)
      <3>1. Combined' <=> Combined
        BY <2>1 DEF SendToKo, Combined, Shops, Live
      <3> QED BY <2>1, <3>1 DEF SendToKo
    <2>2. CASE ApplyKoShare(u)
      BY <2>2 DEF ApplyKoShare, CanApplyKoDecision
    <2>3. CASE ApplyLastKoShare(u)
      BY <2>3, EverythingDecided DEF ApplyLastKoShare
    <2>4. CASE ReturnToOtk(u)
      BY <2>4 DEF ReturnToOtk
    <2>5. CASE ApplyToAnalysis(u) \/ ApplyStructuredToAnalysis(u)
      BY <1>a, <2>5 DEF ApplyToAnalysis, ApplyStructuredToAnalysis, CanApplyToAnalysis
    <2>6. CASE ApplyCombinedToAnalysis(u)
      <3>1. PICK verdict \in [Live(defects) -> Verdicts] :
               defects' = Decide(verdict, KoRoundAtDecision)
        BY <2>6 DEF ApplyCombinedToAnalysis
      <3>0. Live(defects) \in SUBSET Defects
        BY DEF Live
      <3>2. \A d \in Defects : defects'[d].shop = defects[d].shop
        BY <3>0, <3>1, DecideType, KoRoundType
      <3>7. ASSUME NEW d \in Live(defects)
            PROVE  defects'[d] = [shop |-> defects[d].shop, decision |-> verdict[d],
                                  round |-> KoRoundAtDecision]
        BY <3>0, <3>1, DecideType, KoRoundType
      <3>3. Live(defects') = Live(defects)
        BY <3>2, SameShopsSameRoute
      <3>4. \A d \in Live(defects) : verdict[d] # ""
        BY DEF Verdicts
      <3>5. koRound' = KoRoundAtDecision /\ koRound' # 0
        BY <2>6, KoRoundType DEF ApplyCombinedToAnalysis
      <3>6. ASSUME NEW d \in Live(defects)
            PROVE  defects'[d].round = KoRoundAtDecision /\ defects'[d].decision = verdict[d]
        <4>2. defects'[d] = [shop |-> defects[d].shop, decision |-> verdict[d],
                             round |-> KoRoundAtDecision]
          BY <3>6, <3>7
        <4> QED BY <4>2, RowFields
      <3> QED BY <3>3, <3>4, <3>5, <3>6 DEF IsDecidedThisRound
    <2>7. CASE ReturnToKo(u)
      BY <2>7 DEF ReturnToKo
    <2>8. CASE ReturnToTo(u)
      <3>1. Combined' <=> Combined
        BY <2>8 DEF ReturnToTo, Combined, Shops, Live
      <3> QED BY <1>a, <2>8, <3>1 DEF ReturnToTo, CanReviewOtk
    <2>9. CASE ApproveAct(u)
      BY <1>a, <2>9 DEF ApproveAct, CanReviewOtk
    <2> QED BY <2>0, <2>1, <2>2, <2>3, <2>4, <2>5, <2>6, <2>7, <2>8, <2>9 DEF Transition
  <1>2. CASE ~ \E u \in Users : Transition(u)
    <2>1. CASE koRound' = koRound /\ defects' = defects
      <3>1. PastDecisions
        BY <1>2, <2>1, OtherSteps DEF PastDecisions, Combined, Shops, Live
      <3> QED BY <1>a, <2>1, <3>1
    <2>2. CASE \E request \in edits : CommitEdit(request)
      BY <2>2 DEF CommitEdit, RightRecheckedUnderLock, CanEditAct, PastDecisions
    <2> QED BY <1>2, <2>1, <2>2, OtherSteps
  <1> QED BY <1>1, <1>2

\* No act is analysed, reviewed or archived with a defect that the running
\* round has not decided, whatever edits and substitutions overlapped.
THEOREM NothingPassesUndecided == Spec => []DecidedBeforeAnalysis
  <1>1. Init => DecidedBeforeAnalysis
    BY DEF Init, DecidedBeforeAnalysis, PastDecisions
  <1>2. TypeOK /\ DecidedBeforeAnalysis /\ [Next]_vars => DecidedBeforeAnalysis'
    BY NextKeepsDecided
  <1> QED BY <1>1, <1>2, TypeCorrect, PTL DEF Spec

-----------------------------------------------------------------------------
(* The archive                                                              *)

\* Nothing that was begun before an act was archived reaches it afterwards.
THEOREM TheArchiveIsFinal == Spec => ArchivedIsFinal
  <1>1. ASSUME TypeOK, QueueFollowsAct, [Next]_vars, status = "ARCHIVED"
        PROVE  UNCHANGED <<actVars, queue, handedOut>>
    <2>1. ~ \E u \in Users : Transition(u)
      BY <1>1 DEF Transition, SendToKo, CanEditAct, ApplyKoShare, ApplyLastKoShare,
            CanApplyKoDecision, ReturnToOtk, CanReturnToOtk, ApplyToAnalysis,
            ApplyStructuredToAnalysis, ApplyCombinedToAnalysis, CanApplyToAnalysis,
            ReturnToKo, ReturnToTo, ApproveAct, CanReviewOtk
    <2>2. ~ \E request \in edits : CommitEdit(request)
      BY <1>1 DEF CommitEdit, RightRecheckedUnderLock, CanEditAct
    <2>3. queue = {}
      <3>1. \A s \in Stages : StatusOfStage[s] # "ARCHIVED"
        BY DEF Stages, StatusOfStage
      <3> QED BY <1>1, <3>1 DEF QueueFollowsAct, TypeOK, Entry
    <2>4. queue' = queue
      BY <1>1, <2>1, <2>3, OtherSteps DEF CommitLoan
    <2> QED BY <1>1, <2>1, <2>2, <2>4, OtherSteps DEF actVars
  <1>2. TypeOK /\ QueueFollowsAct /\ [Next]_vars
           => [status = "ARCHIVED" => UNCHANGED <<actVars, queue, handedOut>>]_vars
    BY <1>1
  <1> QED BY <1>2, TypeCorrect, QueueAndActAgree, PTL DEF Spec, ArchivedIsFinal

-----------------------------------------------------------------------------
(* The corrective actions are handed out once                               *)

\* What approval hands out is exactly the batches of the plan it approves.
HandedOutIsThePlan ==
    handedOut = IF status = "ARCHIVED" THEN UNION {Batches(action) : action \in plan} ELSE {}

\* Each task knows the corrective action it is of, so the tasks of an action
\* among those of a plan are its batches.
LEMMA TasksOfAnAction ==
    ASSUME NEW actions, NEW action \in actions
    PROVE  {task \in UNION {Batches(a) : a \in actions} : task.action = action}
              = Batches(action)
  <1>1. \A a \in actions : \A task \in Batches(a) : task.action = a
    BY DEF Batches
  <1> QED BY <1>1

\* However an action is split, each of its people is in one of its tasks.
LEMMA BatchesReachEachOnce ==
    ASSUME NEW action \in CorrectiveAction
    PROVE  /\ UNION {task.assignees : task \in Batches(action)} = action.assignees
           /\ \A u \in action.assignees :
                 Cardinality({task \in Batches(action) : u \in task.assignees}) = 1
           /\ action.split => \A task \in Batches(action) : Cardinality(task.assignees) = 1
           /\ ~action.split => Cardinality(Batches(action)) = 1
  <1> DEFINE Task(people) == [action |-> action, assignees |-> people]
  <1>1. /\ action.assignees \subseteq Users /\ action.assignees # {}
        /\ \A people : Task(people).assignees = people
    BY DEF CorrectiveAction
  <1>2. IsFiniteSet(action.assignees) /\ Cardinality(action.assignees) \in Nat \ {0}
    BY <1>1, PeopleAssumption, FS_Subset, FS_CardinalityType, FS_EmptySet
  <1>3. CASE action.split /\ Cardinality(action.assignees) > 1
    <2> DEFINE Own(u) == Task({u})
    <2>1. Batches(action) = {Own(u) : u \in action.assignees}
      BY <1>3 DEF Batches
    <2>a. \A u : Own(u).assignees = {u}
      OBVIOUS
    <2> HIDE DEF Own
    <2>2. UNION {task.assignees : task \in Batches(action)} = action.assignees
      BY <2>1, <2>a
    <2>3. ASSUME NEW u \in action.assignees
          PROVE  Cardinality({task \in Batches(action) : u \in task.assignees}) = 1
      <3>1. {task \in Batches(action) : u \in task.assignees} = {Own(u)}
        BY <2>1, <2>a
      <3> QED BY <3>1, FS_Singleton
    <2>4. \A task \in Batches(action) : Cardinality(task.assignees) = 1
      <3>1. ASSUME NEW task \in Batches(action)
            PROVE  \E u : task.assignees = {u}
        BY <2>1, <2>a
      <3> QED BY <3>1, FS_Singleton
    <2> QED BY <1>3, <2>2, <2>3, <2>4
  <1>4. CASE ~(action.split /\ Cardinality(action.assignees) > 1)
    <2>1. Batches(action) = {Task(action.assignees)}
      BY <1>4 DEF Batches
    <2>2. action.split => Cardinality(action.assignees) = 1
      BY <1>2, <1>4
    <2> DEFINE shared == Task(action.assignees)
    <2>a. Batches(action) = {shared} /\ shared.assignees = action.assignees
      BY <2>1
    <2> HIDE DEF Task, shared
    <2>3. UNION {task.assignees : task \in Batches(action)} = action.assignees
      BY <2>a
    <2>4. ASSUME NEW u \in action.assignees
          PROVE  Cardinality({task \in Batches(action) : u \in task.assignees}) = 1
      <3>1. {task \in Batches(action) : u \in task.assignees} = {shared}
        BY <2>a
      <3> QED BY <3>1, FS_Singleton
    <2>5. /\ action.split => \A task \in Batches(action) : Cardinality(task.assignees) = 1
          /\ Cardinality(Batches(action)) = 1
      BY <2>a, <2>2, FS_Singleton
    <2> QED BY <2>3, <2>4, <2>5
  <1> QED BY <1>3, <1>4

LEMMA HandedOutOnce ==
    ASSUME TypeOK, HandedOutIsThePlan
    PROVE  PlanHandedOutOnce
  <1>1. CASE status # "ARCHIVED"
    BY <1>1 DEF PlanHandedOutOnce, HandedOutIsThePlan
  <1>2. CASE status = "ARCHIVED"
    <2>1. ASSUME NEW action \in plan
          PROVE  /\ action \in CorrectiveAction
                 /\ {task \in handedOut : task.action = action} = Batches(action)
      BY <1>2, TasksOfAnAction DEF HandedOutIsThePlan, TypeOK
    <2> QED BY <1>2, <2>1, BatchesReachEachOnce DEF PlanHandedOutOnce
  <1> QED BY <1>1, <1>2

LEMMA NextHandsOutThePlan ==
    ASSUME TypeOK, HandedOutIsThePlan, [Next]_vars
    PROVE  HandedOutIsThePlan'
  <1>1. CASE \E u \in Users : Transition(u)
    <2>1. PICK u \in Users : Transition(u)
      BY <1>1
    <2>2. CASE ApproveAct(u)
      BY <2>2 DEF ApproveAct, HandedOutIsThePlan, Batches
    <2>3. CASE ~ApproveAct(u)
      <3>1. handedOut' = handedOut /\ status # "ARCHIVED" /\ status' # "ARCHIVED"
        BY <2>1, <2>3 DEF Transition, SendToKo, CanEditAct, ApplyKoShare, ApplyLastKoShare,
              CanApplyKoDecision, ReturnToOtk, CanReturnToOtk, ApplyToAnalysis,
              ApplyStructuredToAnalysis, ApplyCombinedToAnalysis, CanApplyToAnalysis,
              ReturnToKo, ReturnToTo, CanReviewOtk, StatusOfStage
      <3> QED BY <3>1 DEF HandedOutIsThePlan
    <2> QED BY <2>2, <2>3
  <1>2. CASE ~ \E u \in Users : Transition(u)
    BY <1>2, OtherSteps DEF HandedOutIsThePlan, Batches
  <1> QED BY <1>1, <1>2

-----------------------------------------------------------------------------
(* The replacement of a prohibited defect is planned once                   *)

\* Whoever does not leave keeps an active account, so that somebody of PDO is
\* there when КО prohibits a defect.
StayersActive == \A u \in Users \ MayLeave : active[u]

ProhibitedOfMp(rows) ==
    \E d \in Live(rows) : rows[d].shop = "MP_SHOP" /\ rows[d].decision = "prohibit"

LEMMA PeopleStayInTransitions ==
    ASSUME NEW u \in Users, Transition(u)
    PROVE  active' = active /\ lent' = lent
  BY DEF Transition, SendToKo, ApplyKoShare, ApplyLastKoShare, ReturnToOtk, ApplyToAnalysis,
         ApplyStructuredToAnalysis, ApplyCombinedToAnalysis, ReturnToKo, ReturnToTo, ApproveAct,
         peopleVars

LEMMA NextKeepsStayers ==
    ASSUME TypeOK, StayersActive, [Next]_vars
    PROVE  StayersActive'
  <1>1. CASE \E u \in MayLeave : SwitchAccount(u)
    BY <1>1 DEF SwitchAccount, StayersActive, TypeOK
  <1>2. CASE ~ \E u \in MayLeave : SwitchAccount(u)
    <2>1. active' = active
      BY <1>2, PeopleStayInTransitions
         DEF Next, vars, peopleVars, ReopenPrintTask, BeginEdit, CommitEdit, DropEdit,
             BeginLoan, ExpireLoan, CommitLoan, CompletePrintTask
    <2> QED BY <2>1 DEF StayersActive
  <1> QED BY <1>1, <1>2

LEMMA NextKeepsRejections ==
    ASSUME TypeOK, StayersActive, ProhibitedIsPlanned, [Next]_vars
    PROVE  ProhibitedIsPlanned'
  <1> USE DEF TypeOK
  <1> DEFINE Owed == PastDecisions /\ ~(Pdo \subseteq MayLeave) /\ ProhibitedOfMp(defects)
  <1>0. ProhibitedIsPlanned <=> rejections <= 1 /\ (Owed => rejections = 1)
    BY DEF ProhibitedIsPlanned, ProhibitedOfMp
  <1>00. ProhibitedIsPlanned' <=> rejections' <= 1 /\ (Owed' => rejections' = 1)
    BY DEF ProhibitedIsPlanned, ProhibitedOfMp
  <1>a. ASSUME rejections' = rejections, Owed' => Owed
        PROVE  ProhibitedIsPlanned'
    BY <1>0, <1>00, <1>a
  <1>b. ASSUME defects' = defects, PastDecisions' => PastDecisions
        PROVE  Owed' => Owed
    BY <1>b
  <1> HIDE DEF Owed
  <1>1. CASE \E u \in Users : Transition(u)
    <2>0. PICK u \in Users : Transition(u)
      BY <1>1
    <2> USE DEF StatusOfStage
    <2>1. CASE ApplyLastKoShare(u)
      <3>1. EnsureRejectionTask(defects')
        BY <2>1 DEF ApplyLastKoShare
      <3>2. ASSUME ~(Pdo \subseteq MayLeave) PROVE \E v \in Pdo : active[v]
        BY <3>2, PeopleAssumption DEF StayersActive
      <3>3. rejections' <= 1
        BY <1>0, <3>1 DEF EnsureRejectionTask
      <3>4. ASSUME Owed' PROVE rejections' = 1
        BY <1>0, <3>1, <3>2, <3>4 DEF EnsureRejectionTask, Owed, ProhibitedOfMp
      <3> QED BY <1>00, <3>3, <3>4
    <2>2. CASE ApplyCombinedToAnalysis(u)
      <3>1. PICK verdict \in [Live(defects) -> Verdicts] :
               defects' = Decide(verdict, KoRoundAtDecision)
        BY <2>2 DEF ApplyCombinedToAnalysis
      <3>2. Live(defects) \in SUBSET Defects
        BY DEF Live
      <3>0. defects \in [Defects -> DefectRow] /\ KoRoundAtDecision \in Nat
        BY KoRoundType
      <3>3. \A d \in Defects : defects'[d].shop = defects[d].shop
        BY <3>0, <3>1, <3>2, DecideType
      <3>4. Live(defects') = Live(defects) /\ Shops(defects') = Shops(defects)
        BY <3>3, SameShopsSameRoute
      <3>5. Shops(defects) = {"RL_SHOP"}
        BY <2>2 DEF ApplyCombinedToAnalysis, Combined, UsesCombinedTo
      <3>6. ~ProhibitedOfMp(defects')
        BY <3>4, <3>5 DEF ProhibitedOfMp, Shops
      <3>7. rejections' = rejections
        BY <2>2 DEF ApplyCombinedToAnalysis
      <3> QED BY <1>a, <3>6, <3>7 DEF Owed
    <2>3. CASE ~ApplyLastKoShare(u) /\ ~ApplyCombinedToAnalysis(u)
      <3>1. rejections' = rejections
        BY <2>0, <2>3 DEF Transition, SendToKo, ApplyKoShare, ReturnToOtk, ApplyToAnalysis,
              ApplyStructuredToAnalysis, ReturnToKo, ReturnToTo, ApproveAct
      <3>2. CASE ApplyKoShare(u)
        <4>1. status' = "KO_REVIEW"
          BY <3>2 DEF ApplyKoShare, CanApplyKoDecision
        <4>2. ~PastDecisions'
          BY <4>1 DEF PastDecisions
        <4> QED BY <1>a, <3>1, <4>2 DEF Owed
      <3>3. CASE ~ApplyKoShare(u)
        <4>1. defects' = defects
          BY <2>0, <2>3, <3>3 DEF Transition, SendToKo, ReturnToOtk, ApplyToAnalysis,
                ApplyStructuredToAnalysis, ReturnToKo, ReturnToTo, ApproveAct
        <4>2. Combined' <=> Combined
          BY <4>1 DEF Combined, Shops, Live
        <4>3. PastDecisions' => PastDecisions
          BY <2>0, <2>3, <3>3, <4>2 DEF PastDecisions, Transition, SendToKo, ReturnToOtk,
                ApplyToAnalysis, ApplyStructuredToAnalysis, CanApplyToAnalysis, ReturnToKo,
                ReturnToTo, CanReviewOtk, ApproveAct
        <4> QED BY <1>a, <1>b, <3>1, <4>1, <4>3
      <3> QED BY <3>2, <3>3
    <2> QED BY <2>1, <2>2, <2>3
  <1>2. CASE ~ \E u \in Users : Transition(u)
    <2>1. rejections' = rejections
      BY <1>2 DEF Next, vars, taskVars, ReopenPrintTask, BeginEdit, CommitEdit, DropEdit,
             BeginLoan, ExpireLoan, CommitLoan, SwitchAccount, CompletePrintTask
    <2>2. CASE koRound' = koRound /\ defects' = defects
      <3>1. PastDecisions' => PastDecisions
        BY <1>2, <2>2, OtherSteps DEF PastDecisions, Combined, Shops, Live
      <3> QED BY <1>a, <1>b, <2>1, <2>2, <3>1
    <2>3. CASE \E request \in edits : CommitEdit(request)
      <3>1. status' = "CREATED_OTK"
        BY <2>3 DEF CommitEdit, RightRecheckedUnderLock, CanEditAct
      <3>2. ~PastDecisions'
        BY <3>1 DEF PastDecisions
      <3> QED BY <1>a, <2>1, <3>2 DEF Owed
    <2> QED BY <1>2, <2>2, <2>3, OtherSteps
  <1> QED BY <1>1, <1>2

\* The replacement of a prohibited defect is asked of PDO once, whatever rounds
\* the act goes through, and approval hands out every corrective action, each
\* of its people once.
THEOREM WorkHandedOutOnce == Spec => []WorkIsHandedOutOnce
  <1>1. Init => HandedOutIsThePlan /\ StayersActive /\ ProhibitedIsPlanned
    <2> SUFFICES ASSUME Init PROVE HandedOutIsThePlan /\ StayersActive /\ ProhibitedIsPlanned
      OBVIOUS
    <2>1. status = "CREATED_OTK" /\ handedOut = {} /\ rejections = 0
          /\ active = [u \in Users |-> TRUE]
      BY DEF Init
    <2> QED BY <2>1 DEF HandedOutIsThePlan, StayersActive, ProhibitedIsPlanned, PastDecisions
  <1>2. TypeOK /\ HandedOutIsThePlan /\ StayersActive /\ ProhibitedIsPlanned /\ [Next]_vars
          => (HandedOutIsThePlan /\ StayersActive /\ ProhibitedIsPlanned)'
    BY NextHandsOutThePlan, NextKeepsStayers, NextKeepsRejections
  <1>3. TypeOK /\ HandedOutIsThePlan /\ ProhibitedIsPlanned => WorkIsHandedOutOnce
    BY HandedOutOnce DEF WorkIsHandedOutOnce
  <1> QED BY <1>1, <1>2, <1>3, TypeCorrect, PTL DEF Spec

-----------------------------------------------------------------------------
(* Rounds and the route                                                     *)
(*                                                                         *)
(* As long as the act does not move under an edit that is in flight, every  *)
(* round of decisions starts undecided and the workflow implements          *)
(* ActRoute. The strengthening is that no defect carries a round later than *)
(* the act's: it is what makes "one more" a round nothing is decided in,    *)
(* and exactly what an overlapping edit destroys by writing ko_round back.  *)

RoundsBehind == \A d \in Defects : defects[d].round <= koRound

HasDefects == Live(defects) # {}

RouteInv == TypeOK /\ RoundsBehind /\ HasDefects

-----------------------------------------------------------------------------
(* One lemma per kind of step: what it does to the defects and the round    *)

LEMMA SameDefects ==
    ASSUME defects' = defects
    PROVE  /\ Live(defects') = Live(defects) /\ Shops(defects') = Shops(defects)
           /\ Combined' <=> Combined
  BY DEF Combined

\* Nothing is decided in a round no defect has seen.
LEMMA NewRoundUndecided ==
    ASSUME RouteInv, defects' = defects, koRound' = NextRound
    PROVE  \A d \in Defects : ~IsDecidedThisRound(defects'[d], koRound')
  <1>1. ASSUME NEW d \in Defects
        PROVE  defects[d].round \in Nat /\ defects[d].round <= koRound /\ koRound \in Nat
    <2>1. defects[d] \in DefectRow
      BY DEF RouteInv, TypeOK
    <2> QED BY <2>1 DEF RouteInv, TypeOK, RoundsBehind, DefectRow
  <1>2. ASSUME NEW d \in Defects, IsDecidedThisRound(defects'[d], koRound')
        PROVE  FALSE
    <2>1. defects[d].round = koRound + 1
      BY <1>2 DEF NextRound, IsDecidedThisRound
    <2> QED BY <1>1, <2>1
  <1> QED BY <1>2

LEMMA DecisionStep ==
    ASSUME RouteInv, NEW owned \in SUBSET Live(defects), NEW verdict \in [owned -> Verdicts],
           defects' = Decide(verdict, KoRoundAtDecision), koRound' = KoRoundAtDecision
    PROVE  /\ Live(defects') = Live(defects)
           /\ Combined' <=> Combined
           /\ RoundsBehind'
           /\ \A d \in owned : IsDecidedThisRound(defects'[d], koRound')
           /\ \A d \in Live(defects) : IsDecidedThisRound(defects[d], koRound)
                                          => IsDecidedThisRound(defects'[d], koRound')
  <1>0. owned \in SUBSET Defects /\ defects \in [Defects -> DefectRow] /\ koRound \in Nat
    BY DEF Live, RouteInv, TypeOK
  <1>1. \A d \in Defects : defects'[d].shop = defects[d].shop
    BY <1>0, DecideType, KoRoundType
  <1>2. ASSUME NEW d \in Defects
        PROVE  /\ d \in owned => defects'[d] = [shop |-> defects[d].shop, decision |-> verdict[d],
                                              round |-> KoRoundAtDecision]
               /\ d \notin owned => defects'[d] = defects[d]
    <2>1. DOMAIN verdict = owned
      OBVIOUS
    <2> QED BY <2>1 DEF Decide
  <1>3. Live(defects') = Live(defects) /\ Shops(defects') = Shops(defects)
    BY <1>1, SameShopsSameRoute
  <1>4. Combined' <=> Combined
    BY <1>3 DEF Combined
  <1>6. ASSUME NEW d \in owned
        PROVE  /\ defects'[d].round = KoRoundAtDecision
               /\ IsDecidedThisRound(defects'[d], koRound')
    <2>1. defects'[d] = [shop |-> defects[d].shop, decision |-> verdict[d],
                         round |-> KoRoundAtDecision]
      BY <1>0, <1>2
    <2>2. verdict[d] # ""
      BY DEF Verdicts
    <2>3. defects'[d].round = KoRoundAtDecision /\ defects'[d].decision = verdict[d]
      BY <2>1, RowFields
    <2> QED BY <1>0, <2>2, <2>3, KoRoundType DEF IsDecidedThisRound
  <1>7. RoundsBehind'
    <2>1. ASSUME NEW d \in Defects
          PROVE  defects'[d].round <= koRound'
      <3>1. CASE d \in owned
        BY <1>0, <1>6, <3>1, KoRoundType
      <3>2. CASE d \notin owned
        <4>1. defects'[d] = defects[d] /\ defects[d].round <= koRound
          BY <1>2, <3>2 DEF RouteInv, RoundsBehind
        <4>2. defects[d].round \in Nat
          BY <1>0 DEF DefectRow
        <4> QED BY <1>0, <4>1, <4>2, KoRoundType
      <3> QED BY <3>1, <3>2
    <2> QED BY <2>1 DEF RoundsBehind
  <1>8. ASSUME NEW d \in Live(defects), IsDecidedThisRound(defects[d], koRound)
        PROVE  IsDecidedThisRound(defects'[d], koRound')
    <2>1. CASE d \in owned
      BY <1>6, <2>1
    <2>2. CASE d \notin owned
      <3>1. defects'[d] = defects[d]
        BY <1>2, <2>2 DEF Live
      <3>2. koRound' = koRound
        BY <1>8 DEF KoRoundAtDecision, IsDecidedThisRound
      <3> QED BY <1>8, <3>1, <3>2
    <2> QED BY <2>1, <2>2
  <1> QED BY <1>3, <1>4, <1>6, <1>7, <1>8

\* An edit that did not overlap leaves the workshops of the form it was given.
LEMMA EditedRows ==
    ASSUME ~OverlappingEdits, RouteInv, NEW request \in edits, CommitEdit(request)
    PROVE  /\ koRound' = koRound
           /\ \E layout \in Layouts :
                 /\ FormAccepts(defects, layout)
                 /\ \A d \in Defects : defects'[d].shop = layout[d]
                                       /\ defects'[d].round <= koRound
  <1>1. PICK layout \in Layouts, touched \in SUBSET Defects :
           /\ FormAccepts(request.rows, layout)
           /\ \A d \in Defects \ touched : layout[d] = request.rows[d].shop
           /\ defects' = RowsAfterEdit(request, layout, touched)
    BY DEF CommitEdit
  <1>2. request.rows = defects /\ request.round = koRound /\ koRound' = koRound
    BY DEF CommitEdit
  <1>3. defects \in [Defects -> DefectRow] /\ layout \in [Defects -> Workshops \cup {Absent}]
    BY DataAssumption DEF RouteInv, TypeOK, Layout
  <1>4. ASSUME NEW d \in Defects
        PROVE  defects'[d].shop = layout[d] /\ defects'[d].round <= koRound
    <2>1. defects[d] \in DefectRow /\ defects[d].round <= koRound /\ koRound \in Nat
      BY <1>3 DEF RouteInv, RoundsBehind, TypeOK
    <2>2. CASE d \notin touched
      BY <1>1, <1>2, <2>1, <2>2 DEF RowsAfterEdit
    <2>3. CASE d \in touched /\ layout[d] = Absent
      <3>1. defects'[d] = [shop |-> Absent, decision |-> "", round |-> 0]
        BY <1>1, <2>3 DEF RowsAfterEdit
      <3>2. defects'[d].shop = Absent /\ defects'[d].round = 0
        <4> DEFINE none == [shop |-> Absent, decision |-> "", round |-> 0]
        <4>1. none.shop = Absent /\ none.round = 0
          OBVIOUS
        <4> QED BY <3>1, <4>1
      <3> QED BY <2>1, <2>3, <3>2
    <2>4. CASE d \in touched /\ layout[d] # Absent
      <3>1. defects'[d] = [defects[d] EXCEPT !.shop = layout[d]]
        BY <1>1, <1>2, <2>4 DEF RowsAfterEdit
      <3> QED BY <2>1, <3>1 DEF DefectRow
    <2> QED BY <2>2, <2>3, <2>4
  <1> QED BY <1>1, <1>2, <1>4

LEMMA EditStep ==
    ASSUME ~OverlappingEdits, RouteInv, NEW request \in edits, CommitEdit(request)
    PROVE  RoundsBehind' /\ HasDefects' /\ koRound' = koRound
  <1>1. PICK layout \in Layouts :
           \A d \in Defects : defects'[d].shop = layout[d] /\ defects'[d].round <= koRound
    BY EditedRows
  <1>2. \E d \in Defects : layout[d] # Absent
    BY DataAssumption
  <1>3. koRound' = koRound
    BY EditedRows
  <1> QED BY <1>1, <1>2, <1>3 DEF RoundsBehind, HasDefects, Live

-----------------------------------------------------------------------------
(* What each kind of step does, in the words of the route                   *)

\* A step of nobody who acts on the act, its defects or its round.
LEMMA IdleStep ==
    ASSUME status' = status, defects' = defects, koRound' = koRound
    PROVE  UNCHANGED <<RouteStage, Live(defects), Settled>>
  BY SameDefects DEF RouteStage, Settled, Combined, Live, Shops

RouteStep ==
    \/ Route!Next
    \/ UNCHANGED <<RouteStage, Live(defects), Settled>>

\* A transition keeps the invariant and is a step of the route; entering the
\* decisions, it leaves nothing decided.
EntersDecisions ==
    status' # status /\ (status' = "KO_REVIEW" \/ (status' = "TO_ANALYSIS" /\ Combined'))

NothingDecided == \A d \in Live(defects) : ~IsDecidedThisRound(defects[d], koRound)

GoodStep ==
    /\ RoundsBehind' /\ HasDefects'
    /\ EntersDecisions => NothingDecided'
    /\ RouteStep

LEMMA OpenRoundStep ==
    ASSUME RouteInv, defects' = defects, koRound' = NextRound,
           RouteStage \in {"drafting", "analysing", "reviewing"}, RouteStage' = "deciding",
           status' # "CREATED_OTK"
    PROVE  GoodStep
  <1>1. Live(defects') = Live(defects)
    BY SameDefects
  <1>2. NothingDecided'
    BY NewRoundUndecided DEF NothingDecided, Live
  <1>3. Settled' = {}
    BY <1>2 DEF NothingDecided, Settled
  <1>4. RoundsBehind'
    <2>1. ASSUME NEW d \in Defects
          PROVE  defects'[d].round <= koRound'
      <3>1. defects[d] \in DefectRow /\ koRound \in Nat /\ defects[d].round <= koRound
        BY DEF RouteInv, TypeOK, RoundsBehind
      <3>2. defects[d].round \in Nat
        BY <3>1 DEF DefectRow
      <3> QED BY <3>1, <3>2 DEF NextRound
    <2> QED BY <2>1 DEF RoundsBehind
  <1>5. Route!OpenRound
    BY <1>1, <1>3 DEF Route!OpenRound
  <1> QED BY <1>1, <1>2, <1>4, <1>5 DEF GoodStep, HasDefects, RouteInv, RouteStep, Route!Next

\* The act moves and nothing is decided or withdrawn.
LEMMA MoveStep ==
    ASSUME RouteInv, defects' = defects, koRound' = koRound,
           status # "CREATED_OTK", status' # "CREATED_OTK", ~EntersDecisions,
           \/ RouteStage = "analysing" /\ RouteStage' = "reviewing"
           \/ RouteStage = "reviewing" /\ RouteStage' \in {"analysing", "archived"}
    PROVE  GoodStep
  <1>1. Live(defects') = Live(defects) /\ Settled' = Settled
    BY SameDefects DEF Settled
  <1>2. RoundsBehind' /\ HasDefects'
    BY <1>1 DEF RouteInv, RoundsBehind, HasDefects
  <1>3. Route!Analyse \/ Route!Reanalyse \/ Route!Archive
    BY <1>1 DEF Route!Analyse, Route!Reanalyse, Route!Archive
  <1> QED BY <1>2, <1>3 DEF GoodStep, RouteStep, Route!Next

LEMMA SettledIsDecided ==
    ASSUME status # "CREATED_OTK"
    PROVE  Settled = {d \in Live(defects) : IsDecidedThisRound(defects[d], koRound)}
  BY DEF Settled

\* The last share, on either route.
LEMMA LastShareStep ==
    ASSUME RouteInv, NEW owned \in SUBSET Live(defects), NEW verdict \in [owned -> Verdicts],
           defects' = Decide(verdict, KoRoundAtDecision), koRound' = KoRoundAtDecision,
           \A d \in Live(defects') : IsDecidedThisRound(defects'[d], koRound'),
           RouteStage = "deciding", RouteStage' \in {"analysing", "reviewing"},
           status' # "CREATED_OTK", ~EntersDecisions
    PROVE  GoodStep
  <1>1. Live(defects') = Live(defects) /\ RoundsBehind'
    BY DecisionStep
  <1>2. Settled' = Live(defects')
    BY DEF Settled
  <1>3. Route!SettleLast
    BY <1>1, <1>2 DEF Route!SettleLast
  <1> QED BY <1>1, <1>3 DEF GoodStep, RouteInv, HasDefects, RouteStep, Route!Next

LEMMA TransitionIsGood ==
    ASSUME RouteInv, NEW u \in Users, Transition(u)
    PROVE  GoodStep
  <1> USE DEF StatusOfStage
  <1>1. CASE SendToKo(u)
    <2>1. defects' = defects /\ koRound' = NextRound /\ status = "CREATED_OTK"
      BY <1>1 DEF SendToKo, CanEditAct
    <2>2. Combined' <=> Combined
      BY <2>1, SameDefects
    <2>3. status' # "CREATED_OTK" /\ RouteStage = "drafting" /\ RouteStage' = "deciding"
      BY <1>1, <2>1, <2>2 DEF SendToKo, RouteStage
    <2> QED BY <2>1, <2>3, OpenRoundStep
  <1>2. CASE ApplyKoShare(u)
    <2>1. PICK verdict \in [DecidableDefects(u) -> Verdicts] :
             /\ defects' = Decide(verdict, KoRoundAtDecision)
             /\ Waiting(defects', KoRoundAtDecision) # {}
      BY <1>2 DEF ApplyKoShare
    <2>2. /\ koRound' = KoRoundAtDecision /\ status' = status /\ status = "KO_REVIEW"
          /\ DecidableDefects(u) \in SUBSET Live(defects)
      BY <1>2 DEF ApplyKoShare, CanApplyKoDecision, DecidableDefects
    <2>3. /\ Live(defects') = Live(defects) /\ RoundsBehind'
          /\ \A d \in Live(defects) : IsDecidedThisRound(defects[d], koRound)
                                         => IsDecidedThisRound(defects'[d], koRound')
      BY <2>1, <2>2, DecisionStep
    <2>4. RouteStage = "deciding" /\ RouteStage' = "deciding"
      BY <2>2 DEF RouteStage
    <2>5. /\ Settled = {d \in Live(defects) : IsDecidedThisRound(defects[d], koRound)}
          /\ Settled' = {d \in Live(defects') : IsDecidedThisRound(defects'[d], koRound')}
      BY <2>2 DEF Settled
    <2>6. Settled' # Live(defects')
      BY <2>1, <2>2, <2>5 DEF Waiting
    <2>7. Route!Settle
      BY <2>3, <2>4, <2>5, <2>6 DEF Route!Settle
    <2> QED BY <2>2, <2>3, <2>7
            DEF GoodStep, EntersDecisions, RouteInv, HasDefects, RouteStep, Route!Next
  <1>3. CASE ApplyLastKoShare(u)
    <2>1. PICK verdict \in [DecidableDefects(u) -> Verdicts] :
             /\ defects' = Decide(verdict, KoRoundAtDecision)
             /\ Waiting(defects', KoRoundAtDecision) = {}
      BY <1>3 DEF ApplyLastKoShare
    <2>2. /\ koRound' = KoRoundAtDecision /\ status' = "TO_ANALYSIS" /\ status = "KO_REVIEW"
          /\ ~Combined /\ DecidableDefects(u) \in SUBSET Live(defects)
      BY <1>3 DEF ApplyLastKoShare, CanApplyKoDecision, DecidableDefects
    <2>3. Combined' <=> Combined
      BY <2>1, <2>2, DecisionStep
    <2>4. /\ RouteStage = "deciding" /\ RouteStage' = "analysing"
          /\ status' # "CREATED_OTK" /\ ~EntersDecisions
      BY <2>2, <2>3 DEF RouteStage, EntersDecisions
    <2>5. \A d \in Live(defects') : IsDecidedThisRound(defects'[d], koRound')
      BY <2>1, <2>2, EverythingDecided
    <2> QED BY <2>1, <2>2, <2>4, <2>5, LastShareStep
  <1>4. CASE ReturnToOtk(u)
    <2>1. defects' = defects /\ koRound' = koRound /\ status' = "CREATED_OTK"
      BY <1>4 DEF ReturnToOtk
    <2>2. RouteStage = "deciding" /\ RouteStage' = "drafting" /\ Settled' = {}
      BY <1>4, <2>1 DEF ReturnToOtk, CanReturnToOtk, CanApplyKoDecision, CanApplyToAnalysis,
                        RouteStage, Settled
    <2>3. Live(defects') = Live(defects)
      BY <2>1, SameDefects
    <2>4. Route!Withdraw
      BY <2>2, <2>3 DEF Route!Withdraw
    <2> QED BY <2>1, <2>3, <2>4 DEF GoodStep, EntersDecisions, RouteInv, RoundsBehind,
                                    HasDefects, RouteStep, Route!Next
  <1>5. CASE ApplyToAnalysis(u) \/ ApplyStructuredToAnalysis(u)
    <2>1. /\ defects' = defects /\ koRound' = koRound
          /\ status = "TO_ANALYSIS" /\ ~Combined /\ status' = "OTK_REVIEW"
      BY <1>5 DEF ApplyToAnalysis, ApplyStructuredToAnalysis, CanApplyToAnalysis
    <2>2. RouteStage = "analysing" /\ RouteStage' = "reviewing" /\ ~EntersDecisions
      BY <2>1 DEF RouteStage, EntersDecisions
    <2> QED BY <2>1, <2>2, MoveStep
  <1>6. CASE ApplyCombinedToAnalysis(u)
    <2>1. PICK verdict \in [Live(defects) -> Verdicts] :
             defects' = Decide(verdict, KoRoundAtDecision)
      BY <1>6 DEF ApplyCombinedToAnalysis
    <2>2. /\ koRound' = KoRoundAtDecision /\ status' = "OTK_REVIEW"
          /\ status = "TO_ANALYSIS" /\ Combined
      BY <1>6 DEF ApplyCombinedToAnalysis, CanApplyToAnalysis
    <2>3. \A d \in Live(defects') : IsDecidedThisRound(defects'[d], koRound')
      BY <2>1, <2>2, DecisionStep
    <2>4. /\ RouteStage = "deciding" /\ RouteStage' = "reviewing"
          /\ status' # "CREATED_OTK" /\ ~EntersDecisions
      BY <2>2 DEF RouteStage, EntersDecisions
    <2> QED BY <2>1, <2>2, <2>3, <2>4, LastShareStep
  <1>7. CASE ReturnToKo(u)
    <2>1. /\ defects' = defects /\ koRound' = NextRound
          /\ status = "TO_ANALYSIS" /\ ~Combined /\ status' = "KO_REVIEW"
      BY <1>7 DEF ReturnToKo, CanApplyToAnalysis
    <2>2. RouteStage = "analysing" /\ RouteStage' = "deciding"
      BY <2>1 DEF RouteStage
    <2> QED BY <2>1, <2>2, OpenRoundStep
  <1>8. CASE ReturnToTo(u)
    <2>1. /\ defects' = defects /\ status = "OTK_REVIEW" /\ status' = "TO_ANALYSIS"
          /\ koRound' = IF Combined THEN NextRound ELSE koRound
      BY <1>8 DEF ReturnToTo, CanReviewOtk
    <2>2. Combined' <=> Combined
      BY <2>1, SameDefects
    <2>3. CASE Combined
      <3>1. RouteStage = "reviewing" /\ RouteStage' = "deciding"
        BY <2>1, <2>2, <2>3 DEF RouteStage
      <3> QED BY <2>1, <2>3, <3>1, OpenRoundStep
    <2>4. CASE ~Combined
      <3>1. RouteStage = "reviewing" /\ RouteStage' = "analysing" /\ ~EntersDecisions
        BY <2>1, <2>2, <2>4 DEF RouteStage, EntersDecisions
      <3> QED BY <2>1, <2>4, <3>1, MoveStep
    <2> QED BY <2>3, <2>4
  <1>9. CASE ApproveAct(u)
    <2>1. /\ defects' = defects /\ koRound' = koRound
          /\ status = "OTK_REVIEW" /\ status' = "ARCHIVED"
      BY <1>9 DEF ApproveAct, CanReviewOtk
    <2>2. RouteStage = "reviewing" /\ RouteStage' = "archived" /\ ~EntersDecisions
      BY <2>1 DEF RouteStage, EntersDecisions
    <2> QED BY <2>1, <2>2, MoveStep
  <1> QED BY <1>1, <1>2, <1>3, <1>4, <1>5, <1>6, <1>7, <1>8, <1>9 DEF Transition

LEMMA NextIsGood ==
    ASSUME ~OverlappingEdits, RouteInv, [Next]_vars
    PROVE  GoodStep
  <1>1. CASE \E u \in Users : Transition(u)
    BY <1>1, TransitionIsGood
  <1>2. CASE ~ \E u \in Users : Transition(u)
    <2>1. status' = status
      BY <1>2, OtherSteps DEF RouteInv
    <2>2. CASE koRound' = koRound /\ defects' = defects
      BY <2>1, <2>2, IdleStep, SameDefects
         DEF GoodStep, RouteStep, EntersDecisions, RouteInv, RoundsBehind, HasDefects
    <2>3. CASE \E request \in edits : CommitEdit(request)
      <3>1. RoundsBehind' /\ HasDefects'
        BY <2>3, EditStep
      <3>2. status = "CREATED_OTK"
        BY <2>3 DEF CommitEdit, RightRecheckedUnderLock, CanEditAct
      <3>3. /\ RouteStage = "drafting" /\ RouteStage' = "drafting"
            /\ Settled = {} /\ Settled' = {}
        BY <2>1, <3>2 DEF RouteStage, Settled
      <3>4. Live(defects') \in (SUBSET Defects) \ {{}}
        BY <3>1 DEF HasDefects, Live
      <3>5. Route!Edit
        BY <3>3, <3>4 DEF Route!Edit
      <3> QED BY <2>1, <3>1, <3>5 DEF GoodStep, RouteStep, EntersDecisions, Route!Next
    <2> QED BY <1>2, <2>2, <2>3, OtherSteps DEF RouteInv
  <1> QED BY <1>1, <1>2

LEMMA InitIsGood == Init => RouteInv /\ Route!Init
  <1> SUFFICES ASSUME Init PROVE RouteInv /\ Route!Init
    OBVIOUS
  <1>1. PICK layout \in Layouts :
           defects = [d \in Defects |-> [shop |-> layout[d], decision |-> "", round |-> 0]]
    BY DEF Init
  <1>2. \A d \in Defects : defects[d].shop = layout[d] /\ defects[d].round = 0
    BY <1>1
  <1>3. HasDefects
    <2>1. PICK d \in Defects : layout[d] # Absent
      BY DataAssumption
    <2> QED BY <1>2, <2>1 DEF HasDefects, Live
  <1>4. RoundsBehind
    <2>1. koRound = 0 /\ \A d \in Defects : defects[d].round = 0
      BY <1>2 DEF Init
    <2> QED BY <2>1 DEF RoundsBehind
  <1>5. Route!Init
    BY <1>3 DEF Route!Init, Init, RouteStage, Settled, HasDefects, Live
  <1> QED BY <1>3, <1>4, <1>5, InitType DEF RouteInv

LEMMA RouteInvHolds ==
    ASSUME ~OverlappingEdits
    PROVE  Spec => []RouteInv
  <1>1. RouteInv /\ [Next]_vars => RouteInv'
    BY NextIsGood, NextType DEF RouteInv, GoodStep
  <1> QED BY <1>1, InitIsGood, PTL DEF Spec

\* "A new КО round: decisions from an earlier one no longer count" holds as
\* long as no edit is saved over a transition that happened under it.
THEOREM RoundsStartUndecided ==
    ASSUME ~OverlappingEdits
    PROVE  Spec => RoundStartsUndecided
  <1>1. RouteInv /\ [Next]_vars =>
          [status' # status /\ (status' = "KO_REVIEW" \/ (status' = "TO_ANALYSIS" /\ Combined'))
             => \A d \in Live(defects') : ~IsDecidedThisRound(defects'[d], koRound')]_vars
    BY NextIsGood DEF GoodStep, EntersDecisions, NothingDecided
  <1> QED BY <1>1, RouteInvHolds, PTL DEF Spec, RoundStartsUndecided

\* The workflow, with all its roles, returns and tasks, implements ActRoute.
THEOREM WorkflowRefinesRoute ==
    ASSUME ~OverlappingEdits
    PROVE  Spec => RefinesRoute
  <1>1. RouteInv /\ [Next]_vars => [Route!Next]_(Route!routeVars)
    BY NextIsGood DEF GoodStep, RouteStep, Route!routeVars
  <1> QED BY <1>1, InitIsGood, RouteInvHolds, PTL DEF Spec, RefinesRoute, Route!Spec

-----------------------------------------------------------------------------
(* Routing and permission agree                                             *)
(*                                                                         *)
(* acts/permissions.py asks the roles of a defect to route the act and the  *)
(* roles of a person to let them act.  The two agree on every workshop but  *)
(* the combined one, whose defects are routed to every КО and decided by    *)
(* the general one alone: they agree about an act as long as a defect of    *)
(* the combined workshop is not mixed with another workshop's.              *)

RlAlone == "RL_SHOP" \in Shops(defects) => Combined

\* One defect: the roles it is routed to, and the person who may decide it.
LEMMA KoRolesOfADefectDecideIt ==
    ASSUME NEW shop \in Workshops \ {"RL_SHOP"}, NEW held,
           held \cap KoRolesForDefect(shop) # {}
    PROVE  IsKo(held) /\ CanDecideDefect(shop, held)
  <1>1. CASE shop \in DOMAIN WorkshopKoRole
    <2>1. KoRolesForDefect(shop) = {"ko", WorkshopKoRole[shop]}
      BY <1>1 DEF KoRolesForDefect
    <2>2. WorkshopKoRole[shop] \in KoRoles
      BY <1>1 DEF WorkshopKoRole, KoRoles
    <2> QED BY <1>1, <2>1, <2>2 DEF CanDecideDefect, IsKo, KoRoles
  <1>2. CASE shop \notin DOMAIN WorkshopKoRole
    <2>1. shop = ""
      BY <1>2 DEF Workshops, WorkshopKoRole
    <2> QED BY <1>2, <2>1 DEF KoRolesForDefect, IsKo, CanDecideDefect
  <1> QED BY <1>1, <1>2

LEMMA WhoDecidesADefectHasItsRole ==
    ASSUME NEW shop \in Workshops, NEW held, IsKo(held), ~HasFullActAccess(held),
           CanDecideDefect(shop, held)
    PROVE  held \cap KoRolesForDefect(shop) # {}
  <1>1. CASE shop \in DOMAIN WorkshopKoRole
    <2>1. KoRolesForDefect(shop) = {"ko", WorkshopKoRole[shop]} /\ shop # ""
      BY <1>1 DEF KoRolesForDefect, WorkshopKoRole
    <2> QED BY <2>1 DEF CanDecideDefect
  <1>2. CASE shop \notin DOMAIN WorkshopKoRole
    BY <1>2 DEF KoRolesForDefect, IsKo
  <1> QED BY <1>1, <1>2

\* The act: КО ...
LEMMA KoRoutingIsPermission ==
    ASSUME NEW shops \in SUBSET Workshops, NEW held
    PROVE  /\ "RL_SHOP" \notin shops /\ held \cap KoRolesForAct(shops) # {}
                => IsKo(held) /\ HasKoShare(shops, held)
           /\ IsKo(held) /\ HasKoShare(shops, held) /\ ~HasFullActAccess(held)
                => held \cap KoRolesForAct(shops) # {}
  <1>1. CASE shops = {}
    BY <1>1 DEF KoRolesForAct, HasKoShare, IsKo
  <1>2. CASE shops # {}
    <2>1. KoRolesForAct(shops) = UNION {KoRolesForDefect(shop) : shop \in shops}
      BY <1>2 DEF KoRolesForAct, KoRolesFor
    <2>2. HasKoShare(shops, held) <=> \E shop \in shops : CanDecideDefect(shop, held)
      BY <1>2 DEF HasKoShare
    <2>3. ASSUME "RL_SHOP" \notin shops, held \cap KoRolesForAct(shops) # {}
          PROVE  IsKo(held) /\ HasKoShare(shops, held)
      <3>1. PICK shop \in shops : held \cap KoRolesForDefect(shop) # {}
        BY <2>1, <2>3
      <3> QED BY <2>2, <2>3, <3>1, KoRolesOfADefectDecideIt
    <2>4. ASSUME IsKo(held), HasKoShare(shops, held), ~HasFullActAccess(held)
          PROVE  held \cap KoRolesForAct(shops) # {}
      <3>1. PICK shop \in shops : CanDecideDefect(shop, held)
        BY <2>2, <2>4
      <3>2. held \cap KoRolesForDefect(shop) # {}
        BY <2>4, <3>1, WhoDecidesADefectHasItsRole
      <3> QED BY <2>1, <3>2
    <2> QED BY <2>3, <2>4
  <1> QED BY <1>1, <1>2

\* ... and the technologists.
LEMMA ToRoutingIsPermission ==
    ASSUME NEW shops \in SUBSET Workshops, NEW held
    PROVE  /\ held \cap ToRolesForAct(shops) # {} => IsTo(held) /\ HasToShare(shops, held)
           /\ HasToShare(shops, held) /\ ~HasFullActAccess(held)
                => held \cap ToRolesForAct(shops) # {}
  BY DEF ToRolesForAct, IsTo, HasToShare, ToRoles, WorkshopToRole

LEMMA ShopsAreWorkshops ==
    ASSUME TypeOK
    PROVE  Shops(defects) \in SUBSET Workshops
  <1>1. \A d \in Live(defects) : defects[d] \in DefectRow /\ defects[d].shop # Absent
    BY DEF Live, TypeOK
  <1> QED BY <1>1 DEF Shops, DefectRow

RoutedEntry(entry) ==
    /\ \A u \in entry.assignees : MayActByRole(u)'
    /\ \A u \in Users : (MayActByRole(u) /\ ~HasFullActAccess(UserRoles(u)))'
                          => u \in entry.assignees

\* A stage the act moves to is routed to those who may act in it.
LEMMA StageIsRouted ==
    ASSUME TypeOK, NEW s \in Stages, status' = StatusOfStage[s],
           Shops(defects') = Shops(defects), active' = active, lent' = lent,
           s = "KO_REVIEW" => "RL_SHOP" \notin Shops(defects),
           NEW entry, entry.assignees = StageAssignees(s)
    PROVE  RoutedEntry(entry)
  <1>1. \A u : UserRoles(u)' = UserRoles(u)
    BY DEF UserRoles
  <1>2. CreatorIsEligibleOtk' <=> CreatorIsEligibleOtk
    BY <1>1 DEF CreatorIsEligibleOtk
  <1>3. Shops(defects) \in SUBSET Workshops
    BY ShopsAreWorkshops
  <1>4. \A roles : \A u : u \in RoleHolders(roles) <=> u \in Users /\ UserRoles(u) \cap roles # {}
    BY DEF RoleHolders
  <1>5. CASE s = "OTK_REWORK"
    <2>1. status' = "CREATED_OTK"
      BY <1>5 DEF StatusOfStage
    <2>2. entry.assignees = IF CreatorIsEligibleOtk THEN {Creator} ELSE RoleHolders({"otk"})
      BY <1>5 DEF StageAssignees
    <2>3. \A u : MayActByRole(u)' <=> "otk" \in UserRoles(u) /\ (u = Creator \/ ~CreatorIsEligibleOtk)
      BY <1>1, <1>2, <2>1 DEF MayActByRole, CanWorkOnCreatedOtkAct
    <2>4. CreatorIsEligibleOtk <=> "otk" \in UserRoles(Creator)
      BY DEF CreatorIsEligibleOtk
    <2> QED BY <1>4, <2>2, <2>3, <2>4 DEF RoutedEntry
  <1>6. CASE s = "KO_REVIEW"
    <2>1. status' = "KO_REVIEW"
      BY <1>6 DEF StatusOfStage
    <2>2. entry.assignees = RoleHolders(KoRolesForAct(Shops(defects)))
      BY <1>6 DEF StageAssignees
    <2>3. \A u : MayActByRole(u)' <=> IsKo(UserRoles(u)) /\ HasKoShare(Shops(defects), UserRoles(u))
      BY <1>1, <2>1 DEF MayActByRole
    <2>4. \A u : HasFullActAccess(UserRoles(u))' <=> HasFullActAccess(UserRoles(u))
      BY <1>1 DEF HasFullActAccess
    <2> QED BY <1>3, <1>4, <1>6, <2>2, <2>3, <2>4, KoRoutingIsPermission DEF RoutedEntry
  <1>7. CASE s = "TO_ANALYSIS"
    <2>1. status' = "TO_ANALYSIS"
      BY <1>7 DEF StatusOfStage
    <2>2. entry.assignees = RoleHolders(ToRolesForAct(Shops(defects)))
      BY <1>7 DEF StageAssignees
    <2>3. \A u : MayActByRole(u)' <=> IsTo(UserRoles(u)) /\ HasToShare(Shops(defects), UserRoles(u))
      BY <1>1, <2>1 DEF MayActByRole
    <2>4. \A u : HasFullActAccess(UserRoles(u))' <=> HasFullActAccess(UserRoles(u))
      BY <1>1 DEF HasFullActAccess
    <2> QED BY <1>3, <1>4, <2>2, <2>3, <2>4, ToRoutingIsPermission DEF RoutedEntry
  <1>8. CASE s = "OTK_REVIEW"
    <2>1. status' = "OTK_REVIEW"
      BY <1>8 DEF StatusOfStage
    <2>2. entry.assignees = RoleHolders({"otk"})
      BY <1>8 DEF StageAssignees
    <2>3. \A u : MayActByRole(u)' <=> "otk" \in UserRoles(u)
      BY <1>1, <2>1 DEF MayActByRole
    <2> QED BY <1>4, <2>2, <2>3 DEF RoutedEntry
  <1> QED BY <1>5, <1>6, <1>7, <1>8 DEF Stages, StatusOfStage

\* Deciding defects changes the workshop of none.
LEMMA DecisionsKeepShops ==
    ASSUME TypeOK, NEW owned \in SUBSET Live(defects), NEW verdict \in [owned -> Verdicts],
           defects' = Decide(verdict, KoRoundAtDecision)
    PROVE  Live(defects') = Live(defects) /\ Shops(defects') = Shops(defects)
  <1>1. /\ owned \in SUBSET Defects /\ defects \in [Defects -> DefectRow]
        /\ KoRoundAtDecision \in Nat
    BY KoRoundType DEF Live, TypeOK
  <1>2. \A d \in Defects : defects'[d].shop = defects[d].shop
    BY <1>1, DecideType
  <1> QED BY <1>2, SameShopsSameRoute

LEMMA TransitionsKeepShops ==
    ASSUME TypeOK, NEW u \in Users, Transition(u)
    PROVE  Live(defects') = Live(defects) /\ Shops(defects') = Shops(defects)
  <1>1. CASE ApplyKoShare(u) \/ ApplyLastKoShare(u)
    <2>1. PICK verdict \in [DecidableDefects(u) -> Verdicts] :
             defects' = Decide(verdict, KoRoundAtDecision)
      BY <1>1 DEF ApplyKoShare, ApplyLastKoShare
    <2>2. DecidableDefects(u) \in SUBSET Live(defects)
      BY DEF DecidableDefects
    <2> QED BY <2>1, <2>2, DecisionsKeepShops
  <1>2. CASE ApplyCombinedToAnalysis(u)
    BY <1>2, DecisionsKeepShops DEF ApplyCombinedToAnalysis
  <1>3. CASE ~(ApplyKoShare(u) \/ ApplyLastKoShare(u) \/ ApplyCombinedToAnalysis(u))
    <2>1. defects' = defects
      BY <1>3 DEF Transition, SendToKo, ReturnToOtk, ApplyToAnalysis,
            ApplyStructuredToAnalysis, ReturnToKo, ReturnToTo, ApproveAct
    <2> QED BY <2>1, SameDefects
  <1> QED BY <1>1, <1>2, <1>3

\* Every transition but an unfinished share of КО moves the act to one stage,
\* or to the archive.
LEMMA TransitionsMove ==
    ASSUME RlAlone, NEW u \in Users, Transition(u), status' # status
    PROVE  \/ MoveTask({})
           \/ \E s \in Stages : /\ MoveTask({s}) /\ status' = StatusOfStage[s]
                                /\ s = "KO_REVIEW" => "RL_SHOP" \notin Shops(defects)
  <1> USE DEF Stages, StatusOfStage
  <1>1. CASE SendToKo(u)
    BY <1>1 DEF SendToKo, RlAlone
  <1>2. CASE ReturnToKo(u)
    BY <1>2 DEF ReturnToKo, RlAlone
  <1>3. CASE ~SendToKo(u) /\ ~ReturnToKo(u)
    BY <1>3 DEF Transition, ApplyKoShare, ApplyLastKoShare, ReturnToOtk, ApplyToAnalysis,
       ApplyStructuredToAnalysis, ApplyCombinedToAnalysis, ReturnToTo, ApproveAct
  <1> QED BY <1>1, <1>2, <1>3

LEMMA StepIsRouted ==
    ASSUME TypeOK, RlAlone, [Next]_vars, status' # status, NEW entry \in queue'
    PROVE  RoutedEntry(entry)
  <1>1. PICK u \in Users : Transition(u)
    BY OtherSteps
  <1>2. ~MoveTask({})
    BY DEF MoveTask, EntriesLeftOpen
  <1>3. PICK s \in Stages : /\ MoveTask({s}) /\ status' = StatusOfStage[s]
                            /\ s = "KO_REVIEW" => "RL_SHOP" \notin Shops(defects)
    BY <1>1, <1>2, TransitionsMove
  <1>4. entry.assignees = StageAssignees(s)
    BY <1>3 DEF MoveTask, EntriesLeftOpen
  <1> QED BY <1>1, <1>3, <1>4, StageIsRouted, TransitionsKeepShops, PeopleStayInTransitions

\* A share of the decisions leaves the entry with people who owe one.
LEMMA ShareIsNarrowed ==
    ASSUME TypeOK, RlAlone, NEW u \in Users, ApplyKoShare(u), NEW entry \in queue',
           entry \notin queue, NEW v \in entry.assignees
    PROVE  \E d \in Live(defects') :
              /\ ~IsDecidedThisRound(defects'[d], koRound')
              /\ CanDecideDefect(defects'[d].shop, UserRoles(v))
  <1>1. PICK verdict \in [DecidableDefects(u) -> Verdicts] :
           /\ defects' = Decide(verdict, KoRoundAtDecision)
           /\ Waiting(defects', KoRoundAtDecision) # {}
           /\ queue' = NarrowedQueue(defects', KoRoundAtDecision)
    BY DEF ApplyKoShare
  <1>2. koRound' = KoRoundAtDecision /\ "RL_SHOP" \notin Shops(defects)
    BY DEF ApplyKoShare, CanApplyKoDecision, RlAlone
  <1>3. Shops(defects') = Shops(defects) /\ Shops(defects) \in SUBSET Workshops
    BY TransitionsKeepShops, ShopsAreWorkshops DEF Transition
  <1> DEFINE waiting == Waiting(defects', koRound')
             remaining == RoleHolders(PendingKoRoles(defects', koRound'))
  <1>4. entry.assignees = remaining
    <2>1. PICK old \in queue : entry = IF old.stage = "KO_REVIEW"
                                        THEN [old EXCEPT !.assignees = remaining] ELSE old
      BY <1>1, <1>2 DEF NarrowedQueue
    <2>2. old \in Entry /\ entry = [old EXCEPT !.assignees = remaining]
      BY <2>1 DEF TypeOK
    <2> HIDE DEF remaining
    <2> QED BY <2>2 DEF Entry
  <1>5. waiting \subseteq Live(defects') /\ waiting # {}
    BY <1>1, <1>2 DEF Waiting
  <1>6. PendingKoRoles(defects', koRound')
           = UNION {KoRolesForDefect(shop) : shop \in {defects'[d].shop : d \in waiting}}
    BY <1>5 DEF PendingKoRoles, KoRolesFor
  <1>7. PICK d \in waiting : UserRoles(v) \cap KoRolesForDefect(defects'[d].shop) # {}
    <2>1. UserRoles(v) \cap PendingKoRoles(defects', koRound') # {}
      BY <1>4 DEF RoleHolders
    <2> QED BY <1>6, <2>1
  <1>8. defects'[d].shop \in Workshops \ {"RL_SHOP"}
    BY <1>2, <1>3, <1>5 DEF Shops
  <1>9. CanDecideDefect(defects'[d].shop, UserRoles(v))
    BY <1>7, <1>8, KoRolesOfADefectDecideIt
  <1> QED BY <1>5, <1>9 DEF Waiting

LEMMA StepIsNarrowed ==
    ASSUME TypeOK, RlAlone, [Next]_vars,
           status = "KO_REVIEW", status' = status, defects' # defects,
           NEW entry \in queue', entry \notin queue, NEW v \in entry.assignees
    PROVE  \E d \in Live(defects') :
              /\ ~IsDecidedThisRound(defects'[d], koRound')
              /\ CanDecideDefect(defects'[d].shop, UserRoles(v))
  <1>1. ~ \E request \in edits : CommitEdit(request)
    BY DEF CommitEdit, RightRecheckedUnderLock, CanEditAct
  <1>2. PICK u \in Users : Transition(u)
    BY <1>1, OtherSteps
  <1>3. ApplyKoShare(u)
    BY <1>2 DEF Transition, SendToKo, CanEditAct, ApplyLastKoShare, ReturnToOtk, ApplyToAnalysis,
       ApplyStructuredToAnalysis, ApplyCombinedToAnalysis, ReturnToKo, ReturnToTo, ApproveAct,
       CanApplyToAnalysis, CanReviewOtk
  <1> QED BY <1>3, ShareIsNarrowed

\* A form that is accepted never puts a defect of the combined workshop next to
\* another workshop's, unless the rows it was loaded with did.
LEMMA FormKeepsRlAlone ==
    ASSUME NEW rows, NEW layout, FormAccepts(rows, layout),
           "RL_SHOP" \in Shops(rows) => UsesCombinedTo(Shops(rows)),
           NEW d \in Defects, layout[d] = "RL_SHOP", NEW e \in Defects, layout[e] # Absent
    PROVE  layout[e] = "RL_SHOP"
  <1> SUFFICES ASSUME layout[e] # "RL_SHOP" PROVE FALSE
    OBVIOUS
  <1> DEFINE first == FirstRow(rows, {c \in Defects : layout[c] # Absent})
             Unchanged(c) == c \in Live(rows) /\ layout[c] = rows[c].shop
  <1>1. \A c \in {d, e} : layout[c] = layout[first] \/ (Unchanged(c) /\ Unchanged(first))
    BY DEF FormAccepts, Absent
  <1> HIDE DEF first
  <1>2. \A c : Unchanged(c) => layout[c] \in Shops(rows)
    BY DEF Shops
  <1>3. layout[d] \in Shops(rows) /\ layout[e] \in Shops(rows)
    BY <1>1, <1>2
  <1> QED BY <1>3 DEF UsesCombinedTo

LEMMA NextKeepsRlAlone ==
    ASSUME ~OverlappingEdits, RouteInv, RlAlone, [Next]_vars
    PROVE  RlAlone'
  <1>1. CASE Shops(defects') = Shops(defects)
    BY <1>1 DEF RlAlone, Combined
  <1>2. CASE \E u \in Users : Transition(u)
    BY <1>1, <1>2, TransitionsKeepShops DEF RouteInv
  <1>3. CASE defects' = defects
    BY <1>1, <1>3
  <1>4. CASE \E request \in edits : CommitEdit(request)
    <2>1. PICK request \in edits : CommitEdit(request)
      BY <1>4
    <2>2. PICK layout \in Layouts : /\ FormAccepts(defects, layout)
                                    /\ \A d \in Defects : defects'[d].shop = layout[d]
      BY <2>1, EditedRows
    <2>3. \A shop : shop \in Shops(defects') <=> \E d \in Defects : layout[d] = shop /\ shop # Absent
      BY <2>2 DEF Shops, Live
    <2>4. ASSUME "RL_SHOP" \in Shops(defects'), NEW shop \in Shops(defects')
          PROVE  shop = "RL_SHOP"
      BY <2>2, <2>3, <2>4, FormKeepsRlAlone DEF RlAlone, Combined
    <2> QED BY <2>4 DEF RlAlone, Combined, UsesCombinedTo
  <1> QED BY <1>2, <1>3, <1>4, OtherSteps DEF RouteInv

\* Who an act is routed to, by a transition or a share of the decisions, and who
\* may act on it are the same people, however edits and substitutions overlap,
\* as long as no defect of the combined workshop is mixed with another's.
LEMMA RoutedWhileRlAlone == Spec /\ []RlAlone => RoutedToThoseWhoAct
  <1>1. TypeOK /\ RlAlone /\ [Next]_vars =>
          [status' # status => \A entry \in queue' :
              /\ \A u \in entry.assignees : MayActByRole(u)'
              /\ \A u \in Users : (MayActByRole(u) /\ ~HasFullActAccess(UserRoles(u)))'
                                    => u \in entry.assignees]_vars
    BY StepIsRouted DEF RoutedEntry
  <1>2. TypeOK /\ RlAlone /\ [Next]_vars =>
          [status = "KO_REVIEW" /\ status' = status /\ defects' # defects =>
             \A entry \in queue' :
                \/ entry \in queue
                \/ \A u \in entry.assignees : \E d \in Live(defects') :
                      /\ ~IsDecidedThisRound(defects'[d], koRound')
                      /\ CanDecideDefect(defects'[d].shop, UserRoles(u))]_vars
    BY StepIsNarrowed
  <1> QED BY <1>1, <1>2, TypeCorrect, PTL
          DEF Spec, RoutedToThoseWhoAct, RoutedToThoseWhoMayAct, NarrowedToThoseWhoOweOne

\* Without overlapping edits it is enough that the act began so: the form never
\* mixes the combined workshop with another one.
THEOREM RoutingAgreesWithPermission ==
    ASSUME ~OverlappingEdits
    PROVE  Spec /\ RlAlone => RoutedToThoseWhoAct
  <1>1. RouteInv /\ RlAlone /\ [Next]_vars => RlAlone'
    BY NextKeepsRlAlone
  <1> QED BY <1>1, RouteInvHolds, RoutedWhileRlAlone, PTL DEF Spec
=============================================================================
