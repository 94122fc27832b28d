----------------------------- MODULE BoardCards -----------------------------
(***************************************************************************)
(* The cards of one board: boards/services.py and boards/columns.py, with  *)
(* the tasks of tasks/services.py they are the work of.  Every write locks *)
(* the board first, so an action is a whole service call.  What is hard    *)
(* lies between the calls: a card names its column, its subtasks follow it *)
(* from tab to tab, columns have rules about whom they put on a card, an   *)
(* action of the board names a column and people, the manager takes any of *)
(* that away meanwhile, and an edit form was drawn some calls ago.         *)
(*                                                                         *)
(* There is always somebody who may: an administrator, besides the members *)
(* and the owner.  Where a card stands among the cards of its column is    *)
(* the subject of BoardOrder.                                              *)
(***************************************************************************)
EXTENDS Naturals, FiniteSets

CONSTANTS
    People,
    Owner,
    Choices,          \* the sets of people a card's form may name
    RuleChoices,      \* those that a column's pins or an action may name
    SubBoards,
    Columns,          \* primary keys of working columns
    Actions,          \* the buttons that pass a card on
    MaxCards,         \* bound on the cards, subtasks included
    MaxTop,           \* bound on the cards that are no subtasks
    MaxSubtasks,      \* MAX_SUBTASKS
    DefaultColumns,   \* the working ones of DEFAULT_COLUMNS
    MaxVersion,       \* bound on the edits of a card
    MaxEdited,        \* bound on the cards ever edited
    MaxReturned,      \* bound on the cards ever reopened
    MaxChanges,       \* bound on changes of the board and its people
    Done,             \* the closing column of whatever tab
    None

ASSUME BoardAssumption ==
    /\ Owner \in People
    /\ Choices \subseteq SUBSET People /\ RuleChoices \subseteq SUBSET People
    /\ None \notin People \cup SubBoards \cup Columns \cup 1 .. MaxCards
    /\ Done \notin Columns /\ Done # None
    /\ MaxCards \in Nat /\ MaxTop \in Nat /\ MaxSubtasks \in Nat
    /\ DefaultColumns \in Nat \ {0}
    /\ MaxVersion \in Nat /\ MaxEdited \in Nat /\ MaxReturned \in Nat /\ MaxChanges \in Nat

Cards      == 1 .. MaxCards       \* a card is its number
TaskStates == {"none", "IN_PROGRESS", "COMPLETED", "CANCELLED"}
Modes      == {"KEEP", "ADD", "REPLACE"}

Card == [task : TaskStates,
         home : SubBoards \cup {None},
         column : Columns \cup {None},          \* None: it was deleted
         parent : Cards \cup {None},
         people : SUBSET People,
         version : Nat,
         stay : Columns \cup {None, Done},      \* the last stay of its journal
         asked : BOOLEAN]                       \* "all subtasks are done" was said

NoCard == [task |-> "none", home |-> None, column |-> None, parent |-> None,
           people |-> {}, version |-> 0, stay |-> None, asked |-> FALSE]

VARIABLES
    shelved,    \* the board is in the archive
    members,
    active,     \* people whose account and profile are active
    home,       \* the tab of each working column, None if there is no such column
    first,      \* the first working column of each tab, None if there is no such tab
    used,       \* columns that were ever created
    pins,       \* whom each column puts on the cards that enter it
    action,
    card,
    returned,   \* cards that were taken back into work
    changes

structure == <<home, first, used>>
rules == <<pins, action>>
cardVars == <<card, returned>>
peopleVars == <<members, active>>
vars == <<shelved, members, active, home, first, used, pins, action, card,
          returned, changes>>

-----------------------------------------------------------------------------
(* Where a card stands, and who may be on it                                *)

Exists(c) == card[c].task # "none"
Open(c)   == card[c].task = "IN_PROGRESS"

\* Mutant: work that stands in no column is not counted.
OpenInColumns == {c \in Cards : Open(c) /\ card[c].parent = None}

\* _open_card_count, and holds_open_card in remove_board_member
OpenCards == {c \in Cards : Open(c)}

Subtasks(c) == {d \in Cards : card[d].parent = c}
Tabs == {s \in SubBoards : first[s] # None}

\* columns.card_column, of a card in work
WorkingColumn(k) == IF k.column # None THEN k.column ELSE first[k.home]

\* columns.card_column
Standing(k) ==
    IF k.parent # None THEN None
    ELSE CASE k.task = "COMPLETED" -> Done
           [] k.task = "IN_PROGRESS" -> WorkingColumn(k)
           [] OTHER -> None

\* _clean_assignees
Assignable == members \cap active

\* _pinned_ids
Pinned(col) == pins[col].people \cap Assignable

\* _pin_target
PinTarget(col, current) ==
    IF Pinned(col) = {} THEN current
    ELSE IF pins[col].mode = "REPLACE" THEN Pinned(col) ELSE current \cup Pinned(col)

\* _move_locked and _apply_column_entry: a card that enters a column.
Entered(k, col) ==
    [k EXCEPT !.column = col, !.home = home[col], !.stay = col,
              !.people = PinTarget(col, @)]

\* Step 2 of run_board_action
Handed(a, current) ==
    LET people == action[a].people \cap Assignable
    IN  CASE action[a].mode = "ADD" -> current \cup people
          [] action[a].mode = "REPLACE" /\ people # {} -> people
          [] OTHER -> current

\* Mutant: the subtasks stay on the tab their card left.
LeftBehind(c, s) == [d \in Subtasks(c) |-> card[d]]

\* _move_locked: the subtasks of a card go where it goes.
TakenAlong(c, s) == [d \in Subtasks(c) |-> [card[d] EXCEPT !.home = s]]

\* The bounds on edits
Within(c, version) ==
    /\ version <= MaxVersion
    /\ Cardinality({d \in Cards : card[d].version > 1 \/ (d = c /\ version > 1)}) <= MaxEdited

\* A card moved, with its subtasks.
Placed(c, k) ==
    /\ Within(c, k.version)
    /\ card' = [d \in Cards |->
                  CASE d = c -> k
                    [] d \in Subtasks(c) -> TakenAlong(c, k.home)[d]
                    [] OTHER -> card[d]]

\* Mutant: only an edit form raises the version.
NoStep(k, edited) == k

\* move_card, run_board_action: what a form holds was changed under it.
Stepped(k, edited) == IF edited THEN [k EXCEPT !.version = @ + 1] ELSE k

-----------------------------------------------------------------------------
(* Cards                                                                    *)

Numbered == Cardinality({c \in Cards : Exists(c)})

\* _new_card: the next number of the board, whoever asks for it.
NewCard(k) ==
    LET c == Numbered + 1
    IN  c \in Cards /\ card' = [card EXCEPT ![c] = k]

\* create_card, create_cards_from_list: at the end of a working column.
CreateCard(col, ids) ==
    /\ ~shelved
    /\ home[col] # None
    /\ ids # {} /\ ids \subseteq Assignable
    /\ Cardinality({c \in Cards : Exists(c) /\ card[c].parent = None}) < MaxTop
    /\ NewCard(Entered([NoCard EXCEPT !.task = "IN_PROGRESS", !.people = ids, !.version = 1], col))
    /\ UNCHANGED <<shelved, peopleVars, structure, rules, returned, changes>>

\* create_subtask, create_subtasks_from_list, checklist_item_to_subtask
CreateSubtask(c, ids) ==
    /\ ~shelved
    /\ Open(c) /\ card[c].parent = None
    /\ Cardinality(Subtasks(c)) < MaxSubtasks
    /\ ids # {} /\ ids \subseteq Assignable
    /\ LET d == Numbered + 1
       IN  /\ d \in Cards
           /\ card' = [card EXCEPT
                  ![d] = [NoCard EXCEPT !.task = "IN_PROGRESS", !.home = card[c].home,
                                        !.parent = c, !.people = ids, !.version = 1],
                  ![c].asked = FALSE]
    /\ UNCHANGED <<shelved, peopleVars, structure, rules, returned, changes>>

\* update_card: ids are the people posted; a text that changed raises the
\* version even when they did not.
UpdateCard(c, version, ids) ==
    /\ ~shelved
    /\ Open(c)
    /\ version = card[c].version
    /\ ids # {} /\ ids \subseteq Assignable
    /\ Within(c, version + 1)
    /\ card' = [card EXCEPT ![c].people = ids, ![c].version = @ + 1]
    /\ UNCHANGED <<shelved, peopleVars, structure, rules, returned, changes>>

\* _movable_card, _refuse_closed_task
Movable(c) == ~shelved /\ Open(c) /\ card[c].parent = None

\* move_card into another column of whatever tab
MoveCard(c, col) ==
    /\ Movable(c)
    /\ home[col] # None /\ col # WorkingColumn(card[c])
    /\ LET k == Entered(card[c], col)
       IN  Placed(c, Stepped(k, k.people # card[c].people))
    /\ UNCHANGED <<shelved, peopleVars, structure, rules, returned, changes>>

\* move_card within the column: a card whose column was deleted names the one
\* it stands in, and the journal has no entry of it.
ReorderCard(c) ==
    /\ Movable(c)
    /\ card' = [card EXCEPT ![c].column = WorkingColumn(card[c])]
    /\ UNCHANGED <<shelved, peopleVars, structure, rules, returned, changes>>

\* run_board_action: the move, then the action's own people.
RunAction(c, a) ==
    /\ Movable(c)
    /\ action[a].live
    /\ LET col == action[a].target
           k == Entered(card[c], col)
           people == Handed(a, k.people)
       IN  /\ home[col] # None /\ col # WorkingColumn(card[c])
           /\ Placed(c, Stepped([k EXCEPT !.people = people],
                                k.people # card[c].people \/ people # k.people))
    /\ UNCHANGED <<shelved, peopleVars, structure, rules, returned, changes>>

\* Mutant: whether anything was done is asked of the last subtask only.
OnlyTheLastCounts(c, task) ==
    /\ Open(card[c].parent)
    /\ \A d \in Subtasks(card[c].parent) \ {c} : ~Open(d)
    /\ task = "COMPLETED"

\* _ask_parent_done, once c is closed as task says
AllSubtasksDone(c, task) ==
    LET siblings == Subtasks(card[c].parent) \ {c}
    IN  /\ Open(card[c].parent)
        /\ \A d \in siblings : ~Open(d)
        /\ task = "COMPLETED" \/ \E d \in siblings : card[d].task = "COMPLETED"

Closed(c, task, stay) ==
    [d \in Cards |->
        CASE d = c -> [card[c] EXCEPT !.task = task, !.stay = IF @ = None THEN None ELSE stay]
          [] d = card[c].parent -> [card[d] EXCEPT !.asked = @ \/ AllSubtasksDone(c, task)]
          [] OTHER -> card[d]]

\* complete_card asks the task's own right only, a shelved board included.
CompleteCard(c) ==
    /\ Open(c)
    /\ card' = Closed(c, "COMPLETED", Done)
    /\ UNCHANGED <<shelved, peopleVars, structure, rules, returned, changes>>

CancelCard(c) ==
    /\ ~shelved
    /\ Open(c)
    /\ card' = Closed(c, "CANCELLED", None)
    /\ UNCHANGED <<shelved, peopleVars, structure, rules, returned, changes>>

\* reopen_card: whoever was on the card is on it again.
ReopenCard(c) ==
    /\ ~shelved
    /\ card[c].task = "COMPLETED"
    /\ card' = [d \in Cards |->
          CASE d = c -> [card[c] EXCEPT !.task = "IN_PROGRESS",
                                        !.stay = IF @ = None THEN None ELSE WorkingColumn(card[c])]
            [] d = card[c].parent -> [card[d] EXCEPT !.asked = FALSE]
            [] OTHER -> card[d]]
    /\ returned' = returned \cup {c}
    /\ Cardinality(returned') <= MaxReturned
    /\ UNCHANGED <<shelved, peopleVars, structure, rules, changes>>

-----------------------------------------------------------------------------
(* The board: its tabs, its columns and their rules, its actions            *)

\* _manageable_board; the bound is on the changes.
Manage == ~shelved /\ changes < MaxChanges /\ changes' = changes + 1

\* _refuse_action_target
ActionsLeadTo(cols) == \E a \in Actions : action[a].target \in cols

ColumnsOf(s) == {col \in Columns : home[col] = s}

NoPins == [people |-> {}, mode |-> "ADD"]

\* create_sub_board
CreateSubBoard(s, cols) ==
    /\ Manage
    /\ first[s] = None
    /\ cols \subseteq Columns \ used /\ Cardinality(cols) = DefaultColumns
    /\ home' = [col \in Columns |-> IF col \in cols THEN s ELSE home[col]]
    /\ \E col \in cols : first' = [first EXCEPT ![s] = col]
    /\ used' = used \cup cols
    /\ UNCHANGED <<shelved, peopleVars, rules, cardVars>>

\* delete_sub_board
DeleteSubBoard(s) ==
    /\ Manage
    /\ s \in Tabs /\ Tabs # {s}
    /\ \A c \in Cards : card[c].home # s
    /\ ~ActionsLeadTo(ColumnsOf(s))
    /\ home' = [col \in Columns |-> IF home[col] = s THEN None ELSE home[col]]
    /\ first' = [first EXCEPT ![s] = None]
    /\ pins' = [col \in Columns |-> IF home[col] = s THEN NoPins ELSE pins[col]]
    /\ UNCHANGED <<shelved, peopleVars, used, action, cardVars>>

\* create_column: after the working ones.
CreateColumn(s, col) ==
    /\ Manage
    /\ s \in Tabs
    /\ col \in Columns \ used
    /\ home' = [home EXCEPT ![col] = s]
    /\ used' = used \cup {col}
    /\ UNCHANGED <<shelved, peopleVars, first, rules, cardVars>>

\* move_column: of the order, all that a card sees is which column is first.
MoveColumn(s, col) ==
    /\ Manage
    /\ s \in Tabs
    /\ home[col] = s /\ first[s] # col
    /\ first' = [first EXCEPT ![s] = col]
    /\ UNCHANGED <<shelved, peopleVars, home, used, rules, cardVars>>

\* Mutant: only the cards that name the column are asked about.
OnlyThoseNaming(col) == {c \in Cards : Open(c) /\ card[c].column = col}

\* _in_column_q, of open cards
OpenIn(col) == {c \in OpenCards : Standing(card[c]) = col}

\* delete_column: the closed cards that named it name none.
DeleteColumn(col) ==
    /\ Manage
    /\ home[col] # None
    /\ ColumnsOf(home[col]) # {col}
    /\ OpenIn(col) = {}
    /\ ~ActionsLeadTo({col})
    /\ home' = [home EXCEPT ![col] = None]
    /\ IF first[home[col]] = col
       THEN \E other \in ColumnsOf(home[col]) \ {col} : first' = [first EXCEPT ![home[col]] = other]
       ELSE UNCHANGED first
    /\ card' = [c \in Cards |-> IF card[c].column = col THEN [card[c] EXCEPT !.column = None]
                                                        ELSE card[c]]
    /\ pins' = [pins EXCEPT ![col] = NoPins]
    /\ UNCHANGED <<shelved, peopleVars, used, action, returned>>

\* set_column_pins; without people the mode says nothing.
SetColumnPins(col, people, mode) ==
    /\ Manage
    /\ home[col] # None
    /\ people \subseteq Assignable
    /\ mode # "KEEP"
    /\ pins' = [pins EXCEPT ![col] = IF people = {} THEN NoPins ELSE [people |-> people, mode |-> mode]]
    /\ UNCHANGED <<shelved, peopleVars, structure, action, cardVars>>

\* create_action, update_action; an action that is KEEP has no people.
SetAction(a, col, people, mode) ==
    /\ Manage
    /\ home[col] # None
    /\ people \subseteq Assignable /\ (people = {} <=> mode = "KEEP")
    /\ action' = [action EXCEPT ![a] = [target |-> col, people |-> people, mode |-> mode,
                                        live |-> IF @.target = None THEN TRUE ELSE @.live]]
    /\ UNCHANGED <<shelved, peopleVars, structure, pins, cardVars>>

\* archive_action, both ways
ArchiveAction(a) ==
    /\ Manage
    /\ action[a].target # None
    /\ action' = [action EXCEPT ![a].live = ~@]
    /\ UNCHANGED <<shelved, peopleVars, structure, pins, cardVars>>

-----------------------------------------------------------------------------
(* The people and the shelf                                                 *)

\* add_board_members
AddMember(u) ==
    /\ Manage
    /\ u \in active \ members
    /\ members' = members \cup {u}
    /\ UNCHANGED <<shelved, active, structure, rules, cardVars>>

\* Mutant: an action keeps the people it was set up with.
ActionPeopleKept(u) == action

\* BoardActionAssignee rows go with the membership.
WithoutPerson(u) == [a \in Actions |-> [action[a] EXCEPT !.people = @ \ {u}]]

\* remove_board_member: the pins and the people of actions go with it.
RemoveMember(u) ==
    /\ Manage
    /\ u \in members \ {Owner}
    /\ \A c \in OpenCards : u \notin card[c].people
    /\ members' = members \ {u}
    /\ pins' = [col \in Columns |-> [pins[col] EXCEPT !.people = @ \ {u}]]
    /\ action' = WithoutPerson(u)
    /\ UNCHANGED <<shelved, active, structure, cardVars>>

\* An account or a profile is switched off or on (accounts).
SwitchAccount(u) ==
    /\ changes < MaxChanges /\ changes' = changes + 1
    /\ active' = IF u \in active THEN active \ {u} ELSE active \cup {u}
    /\ UNCHANGED <<shelved, members, structure, rules, cardVars>>

\* archive_board; the requests are those of BoardRequests.
ArchiveBoard ==
    /\ Manage
    /\ OpenCards = {}
    /\ shelved' = TRUE
    /\ UNCHANGED <<peopleVars, structure, rules, cardVars>>

\* restore_board
RestoreBoard ==
    /\ shelved
    /\ shelved' = FALSE
    /\ UNCHANGED <<peopleVars, structure, rules, cardVars, changes>>

-----------------------------------------------------------------------------
NoAction == [target |-> None, people |-> {}, mode |-> "KEEP", live |-> FALSE]

\* create_board, and the tabs and columns its manager made of it before the
\* first card.
Init ==
    /\ shelved = FALSE
    /\ members \in {who \in SUBSET People : Owner \in who}
    /\ active = People
    /\ home \in [Columns -> SubBoards \cup {None}]
    /\ \E col \in Columns : home[col] # None
    /\ used = {col \in Columns : home[col] # None}
    /\ first \in [SubBoards -> Columns \cup {None}]
    /\ \A s \in SubBoards : IF ColumnsOf(s) = {} THEN first[s] = None ELSE first[s] \in ColumnsOf(s)
    /\ pins = [col \in Columns |-> NoPins]
    /\ action = [a \in Actions |-> NoAction]
    /\ card = [c \in Cards |-> NoCard]
    /\ returned = {}
    /\ changes = 0

CardStep ==
    \/ \E col \in Columns, ids \in Choices : CreateCard(col, ids)
    \/ \E c \in Cards, ids \in Choices :
          \/ CreateSubtask(c, ids)
          \/ \E version \in 1 .. MaxVersion : UpdateCard(c, version, ids)
    \/ \E c \in Cards, col \in Columns : MoveCard(c, col)
    \/ \E c \in Cards, a \in Actions : RunAction(c, a)
    \/ \E c \in Cards :
          \/ ReorderCard(c)
          \/ CompleteCard(c) \/ CancelCard(c) \/ ReopenCard(c)

BoardStep ==
    \/ \E s \in SubBoards, cols \in SUBSET Columns : CreateSubBoard(s, cols)
    \/ \E s \in SubBoards : DeleteSubBoard(s)
    \/ \E s \in SubBoards, col \in Columns : CreateColumn(s, col) \/ MoveColumn(s, col)
    \/ \E col \in Columns : DeleteColumn(col)
    \/ \E col \in Columns, people \in RuleChoices \cup {{}}, mode \in Modes : SetColumnPins(col, people, mode)
    \/ \E a \in Actions, col \in Columns, people \in RuleChoices \cup {{}}, mode \in Modes :
          SetAction(a, col, people, mode)
    \/ \E a \in Actions : ArchiveAction(a)
    \/ \E u \in People : AddMember(u) \/ RemoveMember(u) \/ SwitchAccount(u)
    \/ ArchiveBoard \/ RestoreBoard

Next == CardStep \/ BoardStep

Spec == Init /\ [][Next]_vars

-----------------------------------------------------------------------------
(* Properties                                                               *)

TypeOK ==
    /\ shelved \in BOOLEAN
    /\ members \in SUBSET People /\ active \in SUBSET People
    /\ home \in [Columns -> SubBoards \cup {None}]
    /\ first \in [SubBoards -> Columns \cup {None}]
    /\ used \in SUBSET Columns
    /\ pins \in [Columns -> [people : SUBSET People, mode : {"ADD", "REPLACE"}]]
    /\ action \in [Actions -> [target : Columns \cup {None}, people : SUBSET People,
                               mode : Modes, live : BOOLEAN]]
    /\ card \in [Cards -> Card]
    /\ returned \in SUBSET Cards
    /\ changes \in Nat

\* Every card has a place to be worked on in: its tab exists and has a first
\* working column, the column it names is one of that tab's (delete_column,
\* delete_sub_board), and a subtask is on the tab of its card, which is itself
\* no subtask, with no column of its own (_move_locked, BoardCard.clean).
CardsHaveAPlace ==
    /\ \A s \in Tabs : home[first[s]] = s
    /\ \A c \in Cards : Exists(c) =>
          /\ card[c].home \in Tabs
          /\ card[c].column # None => home[card[c].column] = card[c].home
          /\ card[c].parent # None =>
                /\ card[c].column = None
                /\ Exists(card[c].parent)
                /\ card[card[c].parent].parent = None
                /\ card[card[c].parent].home = card[c].home

\* What the board will do to the cards to come names only what there is: the
\* pins of a column and the people of an action are members, and an action,
\* archived or not, leads to a column of the board (remove_board_member,
\* _refuse_action_target).
RulesNameWhatThereIs ==
    /\ \A col \in Columns : pins[col].people \subseteq members
    /\ \A a \in Actions :
          /\ action[a].people \subseteq members
          /\ action[a].target # None => home[action[a].target] # None

\* An open card is the work of members of the board, unless it was taken back
\* into work: reopening keeps whoever was on it (remove_board_member,
\* _clean_assignees, _pinned_ids).
OpenCardsAreMembersWork ==
    \A c \in Cards \ returned : Open(c) => card[c].people # {} /\ card[c].people \subseteq members

\* The shelf hides no work in progress, though completing does not ask about
\* it (archive_board).
ShelvedAtRest == shelved => \A c \in Cards : ~Open(c)

\* Both of the places of cards and of the board's own rules.
NothingDangles == CardsHaveAPlace /\ RulesNameWhatThereIs

\* Both of the work that is open: whose it is, and on which boards.
WorkIsInHand == OpenCardsAreMembersWork /\ ShelvedAtRest

\* Whoever works on a card was asked whether it is done, once all its subtasks
\* were closed and one was done, unless it was closed then (_ask_parent_done).
AskedWhenSubtasksDone ==
    \A c \in Cards \ returned :
        /\ Open(c)
        /\ \E d \in Subtasks(c) : card[d].task = "COMPLETED"
        /\ \A d \in Subtasks(c) : ~Open(d)
        => card[c].asked

\* Whoever is put on a card or taken off it, by whatever of the calls that do
\* so, makes the forms drawn before go stale: none of them puts the old people
\* back silently (update_card, move_card, run_board_action).
FormsGoStale ==
    [][\A c \in Cards : Exists(c) /\ card[c].people # card[c].people'
                        => card[c].version < card[c].version']_vars

\* A card goes from column to column with an entry of its journal, which is
\* what its stages are counted from, whoever deletes columns meanwhile.  Only
\* changing the order of the columns moves a card that names none.
MovesAreJournalled ==
    [][\A c \in Cards :
          /\ Open(c) /\ Open(c)'
          /\ Standing(card[c]) # Standing(card[c])'
          => \/ card[c].stay' = Standing(card[c])'
             \/ card[c].column = None /\ UNCHANGED <<card, home>>]_vars

=============================================================================
