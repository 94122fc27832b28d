---------------------------- MODULE ActWorkflow ----------------------------
(***************************************************************************)
(* The workflow of one nonconformity act: acts/services.py, the edit view  *)
(* of acts/views.py, the routing entries tasks/services.py mirrors the act *)
(* with, and «замещения» (accounts/), which lend roles while acts wait.    *)
(*                                                                         *)
(* Every transition of the services is one database transaction that takes *)
(* the act's row lock first, so it is one action here.  Two operations are *)
(* not: the edit view loads the act before it locks it, and saving a       *)
(* substitution reads a task's assignees before it locks the task.  Each   *)
(* of those is a pair of actions that anything may come between.           *)
(***************************************************************************)
EXTENDS ActRoles, Naturals, FiniteSets

CONSTANTS
    Users,             \* the employees
    Profile,           \* the role of each user's profile
    Creator,           \* the author of the act
    Pdo,               \* the employees of the department `PDO`
    MayLeave,          \* the users whose account may be switched off and on
    Loans,             \* the substitutions: pairs <<user, lent role>>
    Defects,           \* primary keys of the defect rows the act may have
    Layouts,           \* workshops per row an act form may be filled in with
    Editors,           \* edit requests that may be in flight at once
    Plans,             \* sets of corrective actions an analysis may submit
    MaxRound,          \* bound on Act.ko_round
    MaxPrints,         \* bound on the print tasks completed
    OverlappingEdits   \* may the act change under an edit that is in flight?

Absent == "absent"     \* the workshop of a row the act does not have

Verdicts == {"permit", "prohibit"}

Statuses == {"CREATED_OTK", "KO_REVIEW", "TO_ANALYSIS", "OTK_REVIEW", "ARCHIVED"}

\* Task.WorkflowStage, and the status each stage entry stands for.
StatusOfStage ==
    [OTK_REWORK  |-> "CREATED_OTK", KO_REVIEW  |-> "KO_REVIEW",
     TO_ANALYSIS |-> "TO_ANALYSIS", OTK_REVIEW |-> "OTK_REVIEW"]
Stages == DOMAIN StatusOfStage

Layout == [Defects -> Workshops \cup {Absent}]
DefectRow == [shop : Workshops \cup {Absent}, decision : Verdicts \cup {""}, round : Nat]
Entry == [stage : Stages, assignees : (SUBSET Users) \ {{}}]
EditRequest == [editor : Editors, by : Users, round : Nat, rows : [Defects -> DefectRow]]
LoanRequest == [loan : Loans, open : BOOLEAN, seen : SUBSET Users]
CorrectiveAction == [name : STRING, assignees : (SUBSET Users) \ {{}}, split : BOOLEAN]

ASSUME PeopleAssumption ==
    /\ IsFiniteSet(Users)
    /\ Profile \in [Users -> Roles]
    /\ Creator \in Users
    /\ Pdo \subseteq Users
    /\ MayLeave \subseteq Users
    /\ Loans \subseteq Users \X (Roles \ {"admin"})

ASSUME DataAssumption ==
    /\ Defects \subseteq Nat
    /\ Layouts \subseteq Layout
    /\ \A layout \in Layouts : \E d \in Defects : layout[d] # Absent
    /\ \A plan \in Plans : plan # {} /\ plan \subseteq CorrectiveAction
    /\ MaxRound \in Nat /\ MaxPrints \in Nat
    /\ OverlappingEdits \in BOOLEAN

VARIABLES
    status,       \* Act.status
    koRound,      \* Act.ko_round
    defects,      \* the act's defect rows: workshop, decision and its round
    plan,         \* the corrective actions of the structured analysis
    queue,        \* the act's open ACT_WORKFLOW tasks
    openPrints,   \* its ACT_PRINT tasks in progress ...
    donePrints,   \* ... and completed
    rejections,   \* its ACT_REJECTION tasks, whatever their status
    handedOut,    \* its ACT tasks: a corrective action and who does it
    active,       \* whose account and profile are active
    lent,         \* the substitutions in force
    edits,        \* edit requests between their read and their lock
    requests      \* substitutions being saved, between read and lock

actVars    == <<status, koRound, defects, plan>>
taskVars   == <<queue, openPrints, donePrints, rejections, handedOut>>
peopleVars == <<active, lent>>
vars == <<actVars, taskVars, peopleVars, edits, requests>>

-----------------------------------------------------------------------------
(* Roles and rights                                                         *)

\* accounts.roles: the profile's role and the lent ones, none when inactive.
UserRoles(u) ==
    IF active[u] THEN {Profile[u]} \cup {loan[2] : loan \in {l \in lent : l[1] = u}} ELSE {}

RoleHolders(roles) == {u \in Users : UserRoles(u) \cap roles # {}}

Live(rows)  == {d \in Defects : rows[d].shop # Absent}
Shops(rows) == {rows[d].shop : d \in Live(rows)}
Combined    == UsesCombinedTo(Shops(defects))

CreatorIsEligibleOtk == "otk" \in UserRoles(Creator)

CanWorkOnCreatedOtkAct(u) ==
    "otk" \in UserRoles(u) /\ (u = Creator \/ ~CreatorIsEligibleOtk)

\* can_send_to_ko and can_edit_act.
CanEditAct(u) ==
    /\ status = "CREATED_OTK"
    /\ HasFullActAccess(UserRoles(u)) \/ CanWorkOnCreatedOtkAct(u)

CanApplyKoDecision(u) ==
    /\ status = "KO_REVIEW" /\ ~Combined
    /\ \/ HasFullActAccess(UserRoles(u))
       \/ IsKo(UserRoles(u)) /\ HasKoShare(Shops(defects), UserRoles(u))

CanApplyToAnalysis(u) ==
    /\ status = "TO_ANALYSIS"
    /\ \/ HasFullActAccess(UserRoles(u))
       \/ IsTo(UserRoles(u)) /\ HasToShare(Shops(defects), UserRoles(u))

CanReturnToOtk(u) == CanApplyKoDecision(u) \/ (Combined /\ CanApplyToAnalysis(u))

CanReviewOtk(u) ==
    /\ status = "OTK_REVIEW"
    /\ HasFullActAccess(UserRoles(u)) \/ "otk" \in UserRoles(u)

-----------------------------------------------------------------------------
(* Decisions of the current round                                           *)

\* is_decided_this_round: a decision of an earlier round does not count.
IsDecidedThisRound(row, round) ==
    round # 0 /\ row.round = round /\ row.decision # ""

\* Mutant: any decision counts, whatever round it was made in.
WaitingOfAnyRound(rows, round) == {d \in Live(rows) : rows[d].decision = ""}

Waiting(rows, round) == {d \in Live(rows) : ~IsDecidedThisRound(rows[d], round)}

\* Mutant: the roles of every defect, decided or not.
RolesOfEveryDefect(rows, round) == KoRolesForAct(Shops(rows))

\* pending_ko_roles: the roles that still owe a decision.
PendingKoRoles(rows, round) ==
    IF Live(rows) = {} THEN KoRoles
    ELSE KoRolesFor({rows[d].shop : d \in Waiting(rows, round)})

\* decidable_defects at the KO stage.
DecidableDefects(u) ==
    {d \in Live(defects) : CanDecideDefect(defects[d].shop, UserRoles(u))}

\* The rows with a verdict entered for each defect of the verdict's domain.
Decide(verdict, round) ==
    [d \in Defects |->
        IF d \in DOMAIN verdict
        THEN [shop |-> defects[d].shop, decision |-> verdict[d], round |-> round]
        ELSE defects[d]]

-----------------------------------------------------------------------------
(* The queue entry that follows the act                                     *)

\* Mutant: rework is the whole department's, as the other stages are.
AssigneesByStageRole(stage) ==
    CASE stage \in {"OTK_REWORK", "OTK_REVIEW"} -> RoleHolders({"otk"})
      [] stage = "KO_REVIEW"   -> RoleHolders(KoRolesForAct(Shops(defects)))
      [] stage = "TO_ANALYSIS" -> RoleHolders(ToRolesForAct(Shops(defects)))

\* Who a stage is routed to when the act, with these defects, enters it.
StageAssignees(stage) ==
    CASE stage = "OTK_REWORK" ->
            IF CreatorIsEligibleOtk THEN {Creator} ELSE RoleHolders({"otk"})
      [] stage = "KO_REVIEW"   -> RoleHolders(KoRolesForAct(Shops(defects)))
      [] stage = "TO_ANALYSIS" -> RoleHolders(ToRolesForAct(Shops(defects)))
      [] stage = "OTK_REVIEW"  -> RoleHolders({"otk"})

\* Mutant: the finished stage's entry is not closed.
FinishedStageStaysOpen == queue

\* close_act_workflow_tasks: the open entries the act keeps, i.e. none.
EntriesLeftOpen == {}

\* move_act_workflow_task: close what is open, then open the next stage; with
\* nobody to assign there is no task.  A substitution being saved that listed
\* the closed entry holds a task that is no longer open.
MoveTask(stages) ==
    /\ queue' = EntriesLeftOpen \cup
         {[stage |-> s, assignees |-> StageAssignees(s)] :
              s \in {t \in stages : StageAssignees(t) # {}}}
    /\ requests' = {[request EXCEPT !.open = FALSE] : request \in requests}

\* Mutant: the entry is narrowed even when nobody would remain.
NarrowedToNobody(rows, round) ==
    {IF entry.stage = "KO_REVIEW"
     THEN [entry EXCEPT !.assignees = RoleHolders(PendingKoRoles(rows, round))]
     ELSE entry : entry \in queue}

\* _narrow_ko_workflow_task: keep the people whose defects still wait, and
\* leave the entry as it is when nobody would remain.
NarrowedQueue(rows, round) ==
    LET remaining == RoleHolders(PendingKoRoles(rows, round))
    IN  IF remaining = {} THEN queue
        ELSE {IF entry.stage = "KO_REVIEW" THEN [entry EXCEPT !.assignees = remaining]
              ELSE entry : entry \in queue}

\* ensure_act_print_task: nothing while one is open or nobody could print it.
EnsurePrintTask ==
    openPrints' =
        IF openPrints = 0 /\ RoleHolders(ActPrintRecipientRoles(Shops(defects))) # {}
        THEN openPrints + 1 ELSE openPrints

\* Mutant: nobody looks whether the act already has its rejection task.
RejectionTaskEveryTime(rows) ==
    rejections' =
        IF /\ \E d \in Live(rows) : rows[d].shop = "MP_SHOP" /\ rows[d].decision = "prohibit"
           /\ rejections < MaxRound
           /\ \E u \in Pdo : active[u]
        THEN rejections + 1 ELSE rejections

\* _ensure_rejection_task: one for the act, ever, if КО prohibited a defect of
\* workshop MP and somebody works in PDO.
EnsureRejectionTask(rows) ==
    rejections' =
        IF /\ \E d \in Live(rows) : rows[d].shop = "MP_SHOP" /\ rows[d].decision = "prohibit"
           /\ rejections = 0
           /\ \E u \in Pdo : active[u]
        THEN rejections + 1 ELSE rejections

-----------------------------------------------------------------------------
Init ==
    /\ status = "CREATED_OTK"
    /\ koRound = 0
    /\ \E layout \in Layouts :
           defects = [d \in Defects |-> [shop |-> layout[d], decision |-> "", round |-> 0]]
    /\ plan = {}
    /\ queue = {} /\ openPrints = 0 /\ donePrints = 0 /\ rejections = 0 /\ handedOut = {}
    /\ active = [u \in Users |-> TRUE]
    /\ lent = {}
    /\ edits = {}
    /\ requests = {}

-----------------------------------------------------------------------------
(* Transitions of the act, each one transaction under the act's row lock    *)

\* Mutant: sending an act on does not open a new round.
SameRound == koRound

\* A new round: the decisions of an earlier one no longer count.
NextRound == koRound + 1

SendToKo(u) ==
    LET stage == IF Combined THEN "TO_ANALYSIS" ELSE "KO_REVIEW" IN
    /\ CanEditAct(u)
    /\ koRound < MaxRound
    /\ status' = StatusOfStage[stage]
    /\ koRound' = NextRound
    /\ MoveTask({stage})
    /\ UNCHANGED <<defects, plan, openPrints, donePrints, rejections, handedOut,
                   peopleVars, edits>>

\* An act that entered KO before rounds were counted has round 0.
KoRoundAtDecision == IF koRound = 0 THEN 1 ELSE koRound

\* apply_ko_decision, while other workshops still owe theirs.
ApplyKoShare(u) ==
    /\ CanApplyKoDecision(u)
    /\ DecidableDefects(u) # {}
    /\ \E verdict \in [DecidableDefects(u) -> Verdicts] :
          LET rows == Decide(verdict, KoRoundAtDecision) IN
          /\ Waiting(rows, KoRoundAtDecision) # {}
          /\ defects' = rows
          /\ queue' = NarrowedQueue(rows, KoRoundAtDecision)
    /\ koRound' = KoRoundAtDecision
    /\ UNCHANGED <<status, plan, openPrints, donePrints, rejections, handedOut,
                   peopleVars, edits, requests>>

\* apply_ko_decision with the last share.  An act left without defects is
\* decided as a whole.
ApplyLastKoShare(u) ==
    /\ CanApplyKoDecision(u)
    /\ DecidableDefects(u) # {} \/ Live(defects) = {}
    /\ \E verdict \in [DecidableDefects(u) -> Verdicts] :
          LET rows == Decide(verdict, KoRoundAtDecision) IN
          /\ Waiting(rows, KoRoundAtDecision) = {}
          /\ defects' = rows
          /\ EnsureRejectionTask(rows)
    /\ koRound' = KoRoundAtDecision
    /\ status' = "TO_ANALYSIS"
    /\ MoveTask({"TO_ANALYSIS"})
    /\ EnsurePrintTask
    /\ UNCHANGED <<plan, donePrints, handedOut, peopleVars, edits>>

ReturnToOtk(u) ==
    /\ CanReturnToOtk(u)
    /\ status' = "CREATED_OTK"
    /\ MoveTask({"OTK_REWORK"})
    /\ UNCHANGED <<koRound, defects, plan, openPrints, donePrints, rejections, handedOut,
                   peopleVars, edits>>

\* apply_to_analysis: the analysis as free text, which keeps whatever
\* structure was submitted before.
ApplyToAnalysis(u) ==
    /\ CanApplyToAnalysis(u)
    /\ ~Combined
    /\ status' = "OTK_REVIEW"
    /\ MoveTask({"OTK_REVIEW"})
    /\ UNCHANGED <<koRound, defects, plan, openPrints, donePrints, rejections, handedOut,
                   peopleVars, edits>>

\* apply_structured_to_analysis on the ordinary route.
ApplyStructuredToAnalysis(u) ==
    /\ CanApplyToAnalysis(u)
    /\ ~Combined
    /\ status' = "OTK_REVIEW"
    /\ plan' \in Plans
    /\ MoveTask({"OTK_REVIEW"})
    /\ UNCHANGED <<koRound, defects, openPrints, donePrints, rejections, handedOut,
                   peopleVars, edits>>

\* ... and on the combined one, where it also decides every defect.
ApplyCombinedToAnalysis(u) ==
    /\ CanApplyToAnalysis(u)
    /\ Combined
    /\ \E verdict \in [Live(defects) -> Verdicts] :
          defects' = Decide(verdict, KoRoundAtDecision)
    /\ koRound' = KoRoundAtDecision
    /\ status' = "OTK_REVIEW"
    /\ plan' \in Plans
    /\ MoveTask({"OTK_REVIEW"})
    /\ EnsurePrintTask
    /\ UNCHANGED <<donePrints, rejections, handedOut, peopleVars, edits>>

ReturnToKo(u) ==
    /\ CanApplyToAnalysis(u)
    /\ ~Combined
    /\ koRound < MaxRound
    /\ status' = "KO_REVIEW"
    /\ koRound' = NextRound
    /\ MoveTask({"KO_REVIEW"})
    /\ UNCHANGED <<defects, plan, openPrints, donePrints, rejections, handedOut,
                   peopleVars, edits>>

ReturnToTo(u) ==
    /\ CanReviewOtk(u)
    /\ Combined => koRound < MaxRound
    /\ status' = "TO_ANALYSIS"
    /\ koRound' = IF Combined THEN NextRound ELSE koRound
    /\ MoveTask({"TO_ANALYSIS"})
    /\ UNCHANGED <<defects, plan, openPrints, donePrints, rejections, handedOut,
                   peopleVars, edits>>

\* Mutant: everybody gets a task of their own, split or not.
BatchPerAssignee(action) == {[action |-> action, assignees |-> {u}] : u \in action.assignees}

\* The tasks one corrective action becomes: one each when split, else one.
Batches(action) ==
    IF action.split /\ Cardinality(action.assignees) > 1
    THEN {[action |-> action, assignees |-> {u}] : u \in action.assignees}
    ELSE {[action |-> action, assignees |-> action.assignees]}

ApproveAct(u) ==
    /\ CanReviewOtk(u)
    /\ plan # {}
    /\ \A action \in plan : \A v \in action.assignees : active[v]
    /\ handedOut = {}
    /\ handedOut' = UNION {Batches(action) : action \in plan}
    /\ status' = "ARCHIVED"
    /\ MoveTask({})
    /\ UNCHANGED <<koRound, defects, plan, openPrints, donePrints, rejections,
                   peopleVars, edits>>

-----------------------------------------------------------------------------
(* The edit view: load, then lock, then write the loaded act back           *)

\* The rows of the form that were loaded come first, in the order of their keys.
FirstRow(rows, kept) ==
    LET old == kept \cap Live(rows)
        candidates == IF old # {} THEN old ELSE kept
    IN  CHOOSE d \in candidates : \A e \in candidates : d <= e

\* Every defect names the workshop of the first one, except that an act that
\* already mixed workshops keeps them in the rows that are unchanged.
FormAccepts(rows, layout) ==
    LET kept == {d \in Defects : layout[d] # Absent}
        first == FirstRow(rows, kept)
        Unchanged(d) == d \in Live(rows) /\ layout[d] = rows[d].shop
    IN  \A d \in kept :
            /\ layout[d] # ""
            /\ \/ layout[d] = layout[first]
               \/ Cardinality(Shops(rows)) > 1 /\ Unchanged(d) /\ Unchanged(first)

\* act_edit loads the act and its defects, finds it may be edited, and
\* validates the form, all without a lock.
BeginEdit(e, u) ==
    /\ CanEditAct(u)
    /\ \A request \in edits : request.editor # e
    /\ edits' = edits \cup {[editor |-> e, by |-> u, round |-> koRound, rows |-> defects]}
    /\ UNCHANGED <<actVars, taskVars, peopleVars, requests>>

\* The rows after the form is saved: the rows it touched are written whole
\* from what was loaded, the others stay as the database has them now.
RowsAfterEdit(request, layout, touched) ==
    [d \in Defects |->
        IF d \notin touched THEN defects[d]
        ELSE IF layout[d] = Absent THEN [shop |-> Absent, decision |-> "", round |-> 0]
        ELSE [request.rows[d] EXCEPT !.shop = layout[d]]]

\* Mutant: the right asked before the lock is believed.
RightNotRechecked(request) == TRUE

\* Under the lock the right to edit is asked again ...
RightRecheckedUnderLock(request) == CanEditAct(request.by)

\* ... and the status is taken from the locked act.  Every other column,
\* ko_round included, is the loaded one.  A new row takes a key nobody has.
\* OverlappingEdits = FALSE leaves out the requests the act moved under.
CommitEdit(request) ==
    /\ request \in edits
    /\ RightRecheckedUnderLock(request)
    /\ OverlappingEdits \/ (request.round = koRound /\ request.rows = defects)
    /\ \E layout \in Layouts, touched \in SUBSET Defects :
          /\ FormAccepts(request.rows, layout)
          /\ \A d \in Defects \ touched : layout[d] = request.rows[d].shop
          /\ \A d \in touched \ Live(request.rows) : d \notin Live(defects)
          /\ defects' = RowsAfterEdit(request, layout, touched)
    /\ koRound' = request.round
    /\ edits' = edits \ {request}
    /\ UNCHANGED <<status, plan, taskVars, peopleVars, requests>>

\* The form was not valid, or the act had moved on: nothing is written.
DropEdit(request) ==
    /\ request \in edits
    /\ edits' = edits \ {request}
    /\ UNCHANGED <<actVars, taskVars, peopleVars, requests>>

-----------------------------------------------------------------------------
(* Substitutions, accounts, and the print task                              *)

\* SUBSTITUTABLE_WORKFLOW_STAGES: the stages a lent role joins.
SubstitutableStages(role) ==
    CASE role = "otk"       -> {"OTK_REVIEW"}
      [] role \in KoRoles   -> {"KO_REVIEW"}
      [] role \in ToRoles   -> {"TO_ANALYSIS"}
      [] OTHER              -> {}

\* The open entries a substitute of this role joins.
EntriesToJoin(loan) ==
    {entry \in queue :
        /\ entry.stage \in SubstitutableStages(loan[2])
        /\ loan[1] \notin entry.assignees
        /\ entry.stage = "KO_REVIEW" => loan[2] \in KoRolesForAct(Shops(defects))
        /\ entry.stage = "TO_ANALYSIS" => loan[2] \in ToRolesForAct(Shops(defects))}

\* The transaction that saves a substitution lists the entry and reads its
\* assignees.  The new role is not visible to others before it commits.
BeginLoan(loan) ==
    /\ \A request \in requests : request.loan # loan
    /\ requests' = requests \cup
         {[loan |-> loan, open |-> EntriesToJoin(loan) # {},
           seen |-> UNION {entry.assignees : entry \in EntriesToJoin(loan)}]}
    /\ UNCHANGED <<actVars, taskVars, peopleVars, edits>>

\* replace_task_assignees: the task, now locked, gets exactly this set.
AssigneesWithSubstitute(request, assignees) == request.seen \cup {request.loan[1]}

CommitLoan(request) ==
    /\ request \in requests
    /\ queue' = IF request.open
                THEN {[entry EXCEPT !.assignees = AssigneesWithSubstitute(request, @)] :
                         entry \in queue}
                ELSE queue
    /\ lent' = lent \cup {request.loan}
    /\ requests' = requests \ {request}
    /\ UNCHANGED <<actVars, openPrints, donePrints, rejections, handedOut, active, edits>>

\* The period of a substitution ends; nothing else is undone.
ExpireLoan(loan) ==
    /\ loan \in lent
    /\ lent' = lent \ {loan}
    /\ UNCHANGED <<actVars, taskVars, active, edits, requests>>

SwitchAccount(u) ==
    /\ active' = [active EXCEPT ![u] = ~@]
    /\ UNCHANGED <<actVars, taskVars, lent, edits, requests>>

\* complete_task by an assignee of the print task.
CompletePrintTask ==
    /\ openPrints > 0 /\ donePrints < MaxPrints
    /\ openPrints' = openPrints - 1
    /\ donePrints' = donePrints + 1
    /\ UNCHANGED <<actVars, queue, rejections, handedOut, peopleVars, edits, requests>>

\* reopen_task by an administrator.
ReopenPrintTask(u) ==
    /\ "admin" \in UserRoles(u)
    /\ donePrints > 0
    /\ openPrints' = openPrints + 1
    /\ donePrints' = donePrints - 1
    /\ UNCHANGED <<actVars, queue, rejections, handedOut, peopleVars, edits, requests>>

-----------------------------------------------------------------------------
Transition(u) ==
    \/ SendToKo(u) \/ ApplyKoShare(u) \/ ApplyLastKoShare(u) \/ ReturnToOtk(u)
    \/ ApplyToAnalysis(u) \/ ApplyStructuredToAnalysis(u) \/ ApplyCombinedToAnalysis(u)
    \/ ReturnToKo(u) \/ ReturnToTo(u) \/ ApproveAct(u)

Next ==
    \/ \E u \in Users : Transition(u) \/ ReopenPrintTask(u)
    \/ \E e \in Editors, u \in Users : BeginEdit(e, u)
    \/ \E request \in edits : CommitEdit(request) \/ DropEdit(request)
    \/ \E loan \in Loans : BeginLoan(loan) \/ ExpireLoan(loan)
    \/ \E request \in requests : CommitLoan(request)
    \/ \E u \in MayLeave : SwitchAccount(u)
    \/ CompletePrintTask

Spec == Init /\ [][Next]_vars

-----------------------------------------------------------------------------
(* Properties                                                               *)

\* Every variable has its type; in particular an open queue entry always has
\* somebody on it (the TaskWorkflowError of replace_task_assignees is never
\* what a decision of КО runs into).
TypeOK ==
    /\ status \in Statuses
    /\ koRound \in Nat
    /\ defects \in [Defects -> DefectRow]
    /\ plan \in SUBSET CorrectiveAction
    /\ queue \in SUBSET Entry
    /\ openPrints \in Nat /\ donePrints \in Nat /\ rejections \in Nat
    /\ handedOut \in SUBSET [action : CorrectiveAction, assignees : (SUBSET Users) \ {{}}]
    /\ active \in [Users -> BOOLEAN]
    /\ lent \in SUBSET Loans
    /\ edits \in SUBSET EditRequest
    /\ requests \in SUBSET LoanRequest

\* "The queue and the act can never disagree" (acts/services.py): an act has
\* at most one open routing entry, it is the entry of the stage the act is in
\* now, and an archived act has none, whatever transitions, edits and
\* substitutions overlapped.
QueueFollowsAct ==
    /\ \A entry \in queue : StatusOfStage[entry.stage] = status
    /\ \A one, other \in queue : one = other

\* An act past the decisions has one of the running round on every defect, on
\* both routes: a workshop that was owed a decision cannot be overtaken by
\* another one's share, by an edit or by a return.
PastDecisions ==
    \/ status \in {"OTK_REVIEW", "ARCHIVED"}
    \/ status = "TO_ANALYSIS" /\ ~Combined
DecidedBeforeAnalysis ==
    PastDecisions => \A d \in Live(defects) : IsDecidedThisRound(defects[d], koRound)

\* Whoever a transition routes the act to may act on it where it arrives, and
\* everybody who may act by role is told: routing (roles of an act) and
\* permission (roles of a person) are two pieces of code that must agree.
MayActByRole(u) ==
    \/ status = "CREATED_OTK" /\ CanWorkOnCreatedOtkAct(u)
    \/ status = "KO_REVIEW" /\ IsKo(UserRoles(u)) /\ HasKoShare(Shops(defects), UserRoles(u))
    \/ status = "TO_ANALYSIS" /\ IsTo(UserRoles(u)) /\ HasToShare(Shops(defects), UserRoles(u))
    \/ status = "OTK_REVIEW" /\ "otk" \in UserRoles(u)
RoutedToThoseWhoMayAct ==
    [][status' # status =>
          \A entry \in queue' :
              /\ \A u \in entry.assignees : MayActByRole(u)'
              /\ \A u \in Users : (MayActByRole(u) /\ ~HasFullActAccess(UserRoles(u)))'
                                    => u \in entry.assignees]_vars

\* A share of КО's decisions leaves the entry with people who still owe one
\* ("their part is done"), unless nobody is left who could.
NarrowedToThoseWhoOweOne ==
    [][status = "KO_REVIEW" /\ status' = status /\ defects' # defects =>
          \A entry \in queue' :
              \/ entry \in queue
              \/ \A u \in entry.assignees : \E d \in Live(defects') :
                    /\ ~IsDecidedThisRound(defects'[d], koRound')
                    /\ CanDecideDefect(defects'[d].shop, UserRoles(u))]_vars

\* Routing and permission agree, when an act changes its stage and between
\* the shares of a stage.
RoutedToThoseWhoAct == RoutedToThoseWhoMayAct /\ NarrowedToThoseWhoOweOne

\* ПДО plans a replacement for an act with a prohibited defect of workshop MP,
\* and is asked once however many rounds the act goes through.
ProhibitedIsPlanned ==
    /\ rejections <= 1
    /\ (/\ PastDecisions
        /\ ~(Pdo \subseteq MayLeave)
        /\ \E d \in Live(defects) :
              defects[d].shop = "MP_SHOP" /\ defects[d].decision = "prohibit")
       => rejections = 1

\* The archive is final: an edit begun while the act was a draft, or a
\* transition asked of a stale page, changes nothing of an archived act.
ArchivedIsFinal == [][status = "ARCHIVED" => UNCHANGED <<actVars, queue, handedOut>>]_vars

\* Approval hands out every corrective action of the plan, to each of its
\* people once: one task each when it is split, one shared task otherwise.
PlanHandedOutOnce ==
    /\ status # "ARCHIVED" => handedOut = {}
    /\ status = "ARCHIVED" => \A action \in plan :
          LET mine == {task \in handedOut : task.action = action} IN
          /\ UNION {task.assignees : task \in mine} = action.assignees
          /\ \A u \in action.assignees : Cardinality({task \in mine : u \in task.assignees}) = 1
          /\ action.split => \A task \in mine : Cardinality(task.assignees) = 1
          /\ ~action.split => Cardinality(mine) = 1

\* The work an act leads to is handed out once: the replacement with a
\* prohibited defect, however often the act is returned, and the corrective
\* actions with the approval, to each of their people.
WorkIsHandedOutOnce == ProhibitedIsPlanned /\ PlanHandedOutOnce

\* "A new КО round: decisions from an earlier one no longer count": an act that
\* enters the decisions has nothing decided.
RoundStartsUndecided ==
    [][status' # status /\ (status' = "KO_REVIEW" \/ (status' = "TO_ANALYSIS" /\ Combined'))
          => \A d \in Live(defects') : ~IsDecidedThisRound(defects'[d], koRound')]_vars

-----------------------------------------------------------------------------
(* The act implements the route                                             *)

RouteStage ==
    CASE status = "CREATED_OTK" -> "drafting"
      [] status = "KO_REVIEW" \/ (status = "TO_ANALYSIS" /\ Combined) -> "deciding"
      [] status = "TO_ANALYSIS" /\ ~Combined -> "analysing"
      [] status = "OTK_REVIEW" -> "reviewing"
      [] status = "ARCHIVED" -> "archived"

\* What is decided matters to the route once the draft has been sent on.
Settled ==
    IF status = "CREATED_OTK" THEN {}
    ELSE {d \in Live(defects) : IsDecidedThisRound(defects[d], koRound)}

Route == INSTANCE ActRoute WITH stage <- RouteStage, live <- Live(defects), settled <- Settled

\* Without overlapping edits the workflow is an implementation of the route.
RefinesRoute == Route!Spec

=============================================================================
