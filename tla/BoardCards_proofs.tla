-------------------------- MODULE BoardCards_proofs --------------------------
(***************************************************************************)
(* What holds of the cards of a board for any number of people, tabs,      *)
(* columns, actions and cards.                                             *)
(***************************************************************************)
EXTENDS BoardCards, FiniteSetTheorems, TLAPS

\* Cards are numbered from one and none is ever taken away.
Numbering == \E n \in 0 .. MaxCards : \A c \in Cards : Exists(c) <=> c <= n

\* A column is on a tab, and a tab with columns has a first one.
ColumnsHaveATab == \A col \in Columns : home[col] # None => home[col] \in Tabs

\* A column that stands was created.
ColumnsAreUsed == \A col \in Columns : home[col] # None => col \in used

\* An action that can be used leads somewhere.
LiveActionsLead == \A a \in Actions : action[a].live => action[a].target # None

IInv ==
    /\ TypeOK
    /\ Numbering
    /\ ColumnsHaveATab
    /\ ColumnsAreUsed
    /\ LiveActionsLead
    /\ CardsHaveAPlace
    /\ RulesNameWhatThereIs
    /\ OpenCardsAreMembersWork
    /\ ShelvedAtRest

-----------------------------------------------------------------------------
\* The number a new card gets is the first that no card has.
LEMMA NextNumber ==
    ASSUME NEW n \in 0 .. MaxCards, \A c \in Cards : Exists(c) <=> c <= n
    PROVE  Numbered = n
<1>1. {c \in Cards : Exists(c)} = 1 .. n
  BY BoardAssumption, SMT DEF Cards
<1>2. Cardinality(1 .. n) = n
  BY FS_Interval, BoardAssumption, SMT
<1> QED
  BY <1>1, <1>2 DEF Numbered

\* A step that makes no card and unmakes none.
LEMMA SameNumbers ==
    ASSUME Numbering, \A c \in Cards : Exists(c)' <=> Exists(c)
    PROVE  Numbering'
BY DEF Numbering, Cards

\* A card that is made has a number no card had.
LEMMA NewNumber ==
    ASSUME TypeOK, Numbering, NEW k \in Card, k.task # "none", NewCard(k)
    PROVE  /\ Numbered + 1 \in Cards
           /\ ~Exists(Numbered + 1)
           /\ card' = [card EXCEPT ![Numbered + 1] = k]
           /\ Numbering'
<1>1. PICK n \in 0 .. MaxCards : \A c \in Cards : Exists(c) <=> c <= n
  BY DEF Numbering
<1>2. Numbered = n
  BY <1>1, NextNumber
<1>3. /\ n + 1 \in Cards
      /\ card' = [card EXCEPT ![n + 1] = k]
  BY <1>2 DEF NewCard
<1>4. ~Exists(n + 1)
  BY <1>1, <1>3, SMT
<1>5. n + 1 \in 0 .. MaxCards
  BY <1>3, BoardAssumption, SMT DEF Cards
<1>6. \A c \in Cards : Exists(c)' <=> c <= n + 1
  BY <1>1, <1>3, SMT DEF Exists, TypeOK, Cards
<1>7. Numbering'
  BY <1>5, <1>6 DEF Numbering, Cards
<1> QED
  BY <1>2, <1>3, <1>4, <1>7

-----------------------------------------------------------------------------
\* Whoever a column puts on a card is somebody, and a member.
LEMMA PinnedPeople ==
    ASSUME TypeOK, NEW col \in Columns, NEW current \in SUBSET People
    PROVE  /\ PinTarget(col, current) \in SUBSET People
           /\ PinTarget(col, current) \subseteq current \cup members
           /\ current # {} => PinTarget(col, current) # {}
BY DEF TypeOK, PinTarget, Pinned, Assignable

\* A card that enters a column stands in it, on its tab.
LEMMA EnteredCard ==
    ASSUME TypeOK, NEW k \in Card, NEW col \in Columns, home[col] # None
    PROVE  /\ Entered(k, col) \in Card
           /\ Entered(k, col) = [k EXCEPT !.column = col, !.home = home[col], !.stay = col,
                                          !.people = PinTarget(col, k.people)]
           /\ Entered(k, col).people \subseteq k.people \cup members
           /\ k.people # {} => Entered(k, col).people # {}
<1>1. k.people \in SUBSET People
  BY DEF Card
<1>2. PinTarget(col, k.people) \in SUBSET People
  BY <1>1, PinnedPeople
<1>3. home[col] \in SubBoards
  BY DEF TypeOK
<1>4. Entered(k, col) = [k EXCEPT !.column = col, !.home = home[col], !.stay = col,
                                  !.people = PinTarget(col, k.people)]
  BY DEF Entered
<1>5. Entered(k, col) \in Card
  BY <1>2, <1>3, <1>4 DEF Card
<1>6. Entered(k, col).people = PinTarget(col, k.people)
  BY <1>4 DEF Card
<1> QED
  BY <1>1, <1>4, <1>5, <1>6, PinnedPeople

\* Whoever an action hands a card to is somebody, and a member.
LEMMA HandedPeople ==
    ASSUME TypeOK, NEW a \in Actions, NEW current \in SUBSET People
    PROVE  /\ Handed(a, current) \in SUBSET People
           /\ Handed(a, current) \subseteq current \cup members
           /\ current # {} => Handed(a, current) # {}
BY DEF TypeOK, Handed, Assignable

\* What a step that changes cards only has to show.
LEMMA CardStepKeeps ==
    ASSUME IInv, card' \in [Cards -> Card], returned' \in SUBSET Cards, Numbering',
           UNCHANGED <<shelved, peopleVars, structure, rules>>, changes' \in Nat,
           \A c \in Cards : card'[c].task # "none" =>
              /\ card'[c].home \in Tabs
              /\ card'[c].column # None => home[card'[c].column] = card'[c].home
              /\ card'[c].parent # None =>
                    /\ card'[c].column = None
                    /\ card'[card'[c].parent].task # "none"
                    /\ card'[card'[c].parent].parent = None
                    /\ card'[card'[c].parent].home = card'[c].home,
           \A c \in Cards : card'[c].task = "IN_PROGRESS" =>
              /\ ~shelved
              /\ c \notin returned' => card'[c].people # {} /\ card'[c].people \subseteq members
    PROVE  IInv'
<1>1. TypeOK'
  BY DEF IInv, TypeOK, peopleVars, structure, rules
<1>2. Tabs' = Tabs
  BY DEF Tabs, structure
<1>3. \A s \in Tabs' : home'[first'[s]] = s
  BY <1>2 DEF IInv, CardsHaveAPlace, structure
<1>4. CardsHaveAPlace'
  BY <1>2, <1>3 DEF CardsHaveAPlace, Exists, structure
<1>5. RulesNameWhatThereIs'
  BY DEF IInv, RulesNameWhatThereIs, structure, rules, peopleVars
<1>6. OpenCardsAreMembersWork' /\ ShelvedAtRest'
  BY DEF OpenCardsAreMembersWork, ShelvedAtRest, Open, peopleVars
<1>7. ColumnsHaveATab' /\ ColumnsAreUsed'
  BY <1>2 DEF IInv, ColumnsHaveATab, ColumnsAreUsed, structure
<1>8. LiveActionsLead'
  BY DEF IInv, LiveActionsLead, rules
<1> QED
  BY <1>1, <1>4, <1>5, <1>6, <1>7, <1>8 DEF IInv

\* Where the cards are, as the invariant says it, of their records.
LEMMA CardsAre ==
    ASSUME IInv
    PROVE  \A c \in Cards :
              /\ card[c] \in Card
              /\ card[c].task # "none" =>
                    /\ card[c].home \in Tabs
                    /\ card[c].column # None => home[card[c].column] = card[c].home
                    /\ card[c].parent # None =>
                          /\ card[c].parent \in Cards
                          /\ card[c].column = None
                          /\ card[card[c].parent].task # "none"
                          /\ card[card[c].parent].parent = None
                          /\ card[card[c].parent].home = card[c].home
              /\ card[c].task = "IN_PROGRESS" =>
                    /\ ~shelved
                    /\ c \notin returned => card[c].people # {} /\ card[c].people \subseteq members
BY DEF IInv, TypeOK, CardsHaveAPlace, Exists, Card, OpenCardsAreMembersWork, ShelvedAtRest, Open

\* No card is a subtask of its own.
LEMMA NoOwnParent ==
    ASSUME IInv, NEW c \in Cards, card[c].task # "none"
    PROVE  card[c].parent # c
BY CardsAre, BoardAssumption DEF Cards

\* A step that takes no card from its place.
LEMMA SamePlacesKeep ==
    ASSUME IInv, card' \in [Cards -> Card], returned' \in SUBSET Cards,
           UNCHANGED <<shelved, peopleVars, structure, rules>>, changes' \in Nat,
           \A c \in Cards :
              /\ card'[c].home = card[c].home
              /\ card'[c].column = card[c].column
              /\ card'[c].parent = card[c].parent
              /\ card'[c].task # "none" <=> card[c].task # "none"
              /\ card'[c].task = "IN_PROGRESS" =>
                    /\ ~shelved
                    /\ c \notin returned' => card'[c].people # {} /\ card'[c].people \subseteq members
    PROVE  IInv'
<1>1. Numbering'
  BY SameNumbers DEF IInv, Exists
<1>2. \A c \in Cards : card'[c].task # "none" =>
              /\ card'[c].home \in Tabs
              /\ card'[c].column # None => home[card'[c].column] = card'[c].home
              /\ card'[c].parent # None =>
                    /\ card'[c].column = None
                    /\ card'[card'[c].parent].task # "none"
                    /\ card'[card'[c].parent].parent = None
                    /\ card'[card'[c].parent].home = card'[c].home
  BY CardsAre
<1> QED
  BY <1>1, <1>2, CardStepKeeps

LEMMA CreateCardKeeps ==
    ASSUME IInv, NEW col \in Columns, NEW ids \in Choices, CreateCard(col, ids)
    PROVE  IInv'
<1> DEFINE blank == [NoCard EXCEPT !.task = "IN_PROGRESS", !.people = ids, !.version = 1]
           k == Entered(blank, col)
<1>1. ids \in SUBSET People /\ ids # {} /\ ids \subseteq members
  BY BoardAssumption DEF CreateCard, Assignable
<1>2. blank \in Card
  <2>1. NoCard \in Card
    BY DEF NoCard, Card, TaskStates
  <2>2. "IN_PROGRESS" \in TaskStates
    BY DEF TaskStates
  <2> QED
    BY <1>1, <2>1, <2>2 DEF Card
<1>3. TypeOK /\ home[col] # None
  BY DEF IInv, CreateCard
<1>4. /\ k \in Card
      /\ k = [blank EXCEPT !.column = col, !.home = home[col], !.stay = col,
                           !.people = PinTarget(col, blank.people)]
      /\ k.people \subseteq blank.people \cup members
      /\ blank.people # {} => k.people # {}
  <2> HIDE DEF blank
  <2> QED
    BY <1>2, <1>3, EnteredCard
<1>5. /\ k.task = "IN_PROGRESS" /\ k.column = col /\ k.home = home[col] /\ k.parent = None
      /\ blank.people = ids
  <2>1. blank.task = "IN_PROGRESS" /\ blank.parent = None /\ blank.people = ids
    BY DEF NoCard
  <2> HIDE DEF blank, k
  <2> QED
    BY <1>2, <1>4, <2>1 DEF Card
<1>6. NewCard(k)
  BY DEF CreateCard
<1> HIDE DEF blank, k
<1> DEFINE n == Numbered + 1
<1>7. n \in Cards /\ ~Exists(n) /\ card' = [card EXCEPT ![n] = k] /\ Numbering'
  BY <1>3, <1>4, <1>5, <1>6, NewNumber DEF IInv
<1> HIDE DEF n
<1>8. card' \in [Cards -> Card]
  BY <1>3, <1>4, <1>7 DEF TypeOK
<1>9. home[col] \in Tabs
  BY <1>3 DEF IInv, ColumnsHaveATab
<1>10. \A c \in Cards \ {n} : card'[c] = card[c]
  BY <1>3, <1>7 DEF TypeOK
<1>11. card'[n] = k
  BY <1>3, <1>7 DEF TypeOK
<1>12. /\ returned' = returned /\ changes' = changes /\ ~shelved
       /\ UNCHANGED <<shelved, peopleVars, structure, rules>>
  BY DEF CreateCard
<1>13. k.people # {} /\ k.people \subseteq members
  BY <1>1, <1>4, <1>5
<1>14. card[n].task = "none"
  BY <1>7 DEF Exists
<1>15. ASSUME NEW c \in Cards, card'[c].task # "none"
       PROVE  /\ card'[c].home \in Tabs
              /\ card'[c].column # None => home[card'[c].column] = card'[c].home
              /\ card'[c].parent # None =>
                    /\ card'[c].column = None
                    /\ card'[card'[c].parent].task # "none"
                    /\ card'[card'[c].parent].parent = None
                    /\ card'[card'[c].parent].home = card'[c].home
  BY <1>5, <1>9, <1>10, <1>11, <1>14, <1>15, CardsAre
<1>16. \A c \in Cards : card'[c].task = "IN_PROGRESS" =>
              /\ ~shelved
              /\ c \notin returned' => card'[c].people # {} /\ card'[c].people \subseteq members
  BY <1>10, <1>11, <1>12, <1>13, CardsAre
<1> QED
  BY <1>3, <1>7, <1>8, <1>12, <1>15, <1>16, CardStepKeeps DEF TypeOK

\* The number after the last is free, and taking it leaves no gap.
LEMMA FreeNumber ==
    ASSUME TypeOK, Numbering, Numbered + 1 \in Cards
    PROVE  /\ ~Exists(Numbered + 1)
           /\ (\A c \in Cards : Exists(c)' <=> Exists(c) \/ c = Numbered + 1) => Numbering'
<1>1. PICK n \in 0 .. MaxCards : \A c \in Cards : Exists(c) <=> c <= n
  BY DEF Numbering
<1>2. Numbered = n
  BY <1>1, NextNumber
<1>3. ~Exists(n + 1) /\ n + 1 \in 0 .. MaxCards
  BY <1>1, <1>2, BoardAssumption, SMT DEF Cards
<1>4. ASSUME \A c \in Cards : Exists(c)' <=> Exists(c) \/ c = n + 1
      PROVE  Numbering'
  <2>1. \A c \in Cards : Exists(c)' <=> c <= n + 1
    BY <1>1, <1>4, SMT DEF Cards
  <2> QED
    BY <1>3, <2>1 DEF Numbering, Cards
<1> QED
  BY <1>2, <1>3, <1>4

LEMMA CreateSubtaskKeeps ==
    ASSUME IInv, NEW p \in Cards, NEW ids \in Choices, CreateSubtask(p, ids)
    PROVE  IInv'
<1> DEFINE n == Numbered + 1
           k == [NoCard EXCEPT !.task = "IN_PROGRESS", !.home = card[p].home,
                               !.parent = p, !.people = ids, !.version = 1]
           up == [card[p] EXCEPT !.asked = FALSE]
<1>1. /\ ids \in SUBSET People /\ ids # {} /\ ids \subseteq members
      /\ TypeOK /\ ~shelved /\ n \in Cards
      /\ card[p].task = "IN_PROGRESS" /\ card[p].parent = None
      /\ returned' = returned /\ changes' = changes
      /\ UNCHANGED <<shelved, peopleVars, structure, rules>>
  BY BoardAssumption DEF CreateSubtask, Assignable, Open, IInv
<1>2. p # n /\ card[n].task = "none"
  BY <1>1, FreeNumber DEF IInv, Exists
<1>3. card[p] \in Card /\ card[p].home \in Tabs /\ card[p].home \in SubBoards
  BY <1>1, CardsAre DEF Tabs
<1>4. card' = [card EXCEPT ![n] = k, ![p].asked = FALSE]
  BY DEF CreateSubtask
<1>5. card'[n] = k /\ card'[p] = up /\ \A c \in Cards \ {n, p} : card'[c] = card[c]
  <2> HIDE DEF n, k
  <2> QED
    BY <1>1, <1>2, <1>4 DEF TypeOK
<1>6. k \in Card
  <2>1. NoCard \in Card
    BY DEF NoCard, Card, TaskStates
  <2>2. "IN_PROGRESS" \in TaskStates
    BY DEF TaskStates
  <2> QED
    BY <1>1, <1>3, <2>1, <2>2 DEF Card
<1>7. /\ k.task = "IN_PROGRESS" /\ k.home = card[p].home /\ k.column = None
      /\ k.parent = p /\ k.people = ids
  BY DEF NoCard
<1>8. /\ up \in Card /\ up.task = card[p].task /\ up.home = card[p].home
      /\ up.column = card[p].column /\ up.parent = None /\ up.people = card[p].people
  BY <1>1, <1>3 DEF Card
<1> HIDE DEF k, up, n
<1>9. card' \in [Cards -> Card]
  <2>1. \A c \in Cards : card'[c] \in Card
    BY <1>5, <1>6, <1>8, CardsAre
  <2>2. \E f : f = card' /\ f = [c \in Cards |-> f[c]]
    BY <1>1, <1>4 DEF TypeOK
  <2> QED
    BY <2>1, <2>2
<1>10. Numbering'
  <2>1. \A c \in Cards : Exists(c)' <=> Exists(c) \/ c = n
    BY <1>1, <1>2, <1>5, <1>7, <1>8 DEF Exists
  <2> QED
    BY <1>1, <2>1, FreeNumber DEF IInv, n
<1>11. \A c \in Cards : card'[c].task # "none" =>
              /\ card'[c].home \in Tabs
              /\ card'[c].column # None => home[card'[c].column] = card'[c].home
              /\ card'[c].parent # None =>
                    /\ card'[c].column = None
                    /\ card'[card'[c].parent].task # "none"
                    /\ card'[card'[c].parent].parent = None
                    /\ card'[card'[c].parent].home = card'[c].home
  BY <1>1, <1>2, <1>3, <1>5, <1>7, <1>8, CardsAre
<1>12. \A c \in Cards : card'[c].task = "IN_PROGRESS" =>
              /\ ~shelved
              /\ c \notin returned' => card'[c].people # {} /\ card'[c].people \subseteq members
  BY <1>1, <1>5, <1>7, <1>8, CardsAre
<1> QED
  BY <1>1, <1>9, <1>10, <1>11, <1>12, CardStepKeeps DEF TypeOK

LEMMA UpdateCardKeeps ==
    ASSUME IInv, NEW p \in Cards, NEW version \in 1 .. MaxVersion, NEW ids \in Choices,
           UpdateCard(p, version, ids)
    PROVE  IInv'
<1> DEFINE k == [card[p] EXCEPT !.people = ids, !.version = @ + 1]
<1>1. /\ ids \in SUBSET People /\ ids # {} /\ ids \subseteq members
      /\ TypeOK /\ ~shelved
      /\ card[p].task = "IN_PROGRESS"
      /\ returned' = returned /\ changes' = changes
      /\ UNCHANGED <<shelved, peopleVars, structure, rules>>
  BY BoardAssumption DEF UpdateCard, Assignable, Open, IInv
<1>2. card[p] \in Card
  BY CardsAre
<1>3. card'[p] = k /\ (\A c \in Cards \ {p} : card'[c] = card[c]) /\ card' = [card EXCEPT ![p] = k]
  BY <1>1 DEF UpdateCard, TypeOK
<1>4. k \in Card
  <2>1. card[p].version + 1 \in Nat
    BY <1>2, SMT DEF Card
  <2> QED
    BY <1>1, <1>2, <2>1 DEF Card
<1>6. /\ k.task = card[p].task /\ k.home = card[p].home
       /\ k.column = card[p].column /\ k.parent = card[p].parent /\ k.people = ids
  BY <1>2 DEF Card
<1> HIDE DEF k
<1>5. card' \in [Cards -> Card]
  BY <1>1, <1>3, <1>4 DEF TypeOK
<1> QED
  BY <1>1, <1>3, <1>6, <1>5, CardsAre, SamePlacesKeep DEF TypeOK

\* A card that is moved, with its people, stays with its subtasks.
LEMMA PlacedKeeps ==
    ASSUME IInv, NEW p \in Cards, Movable(p), NEW k \in Card, Placed(p, k),
           k.task = card[p].task, k.home \in Tabs,
           k.column # None => home[k.column] = k.home, k.parent = None,
           p \notin returned => k.people # {} /\ k.people \subseteq members,
           UNCHANGED <<shelved, peopleVars, structure, rules, returned, changes>>
    PROVE  IInv'
<1>1. TypeOK /\ ~shelved /\ card[p].task = "IN_PROGRESS" /\ card[p].parent = None
  BY DEF IInv, Movable, Open
<1>2. Subtasks(p) \subseteq Cards \ {p}
  BY <1>1, BoardAssumption DEF Subtasks, Cards
<1>3. /\ card'[p] = k
      /\ \A c \in Subtasks(p) : card'[c] = [card[c] EXCEPT !.home = k.home]
      /\ \A c \in Cards \ (Subtasks(p) \cup {p}) : card'[c] = card[c]
      /\ card' = [c \in Cards |-> card'[c]]
  BY <1>2 DEF Placed, TakenAlong
<1>4. k.home \in SubBoards
  BY DEF Tabs
<1>5. \A c \in Subtasks(p) :
         /\ [card[c] EXCEPT !.home = k.home] \in Card
         /\ [card[c] EXCEPT !.home = k.home].home = k.home
         /\ [card[c] EXCEPT !.home = k.home].task = card[c].task
         /\ [card[c] EXCEPT !.home = k.home].column = card[c].column
         /\ [card[c] EXCEPT !.home = k.home].parent = p
         /\ [card[c] EXCEPT !.home = k.home].people = card[c].people
  BY <1>2, <1>4, CardsAre DEF Card, Subtasks
<1>6. \A c \in Cards :
         /\ card'[c] \in Card
         /\ card'[c].task = card[c].task
         /\ c # p => /\ card'[c].column = card[c].column
                     /\ card'[c].parent = card[c].parent
                     /\ card'[c].people = card[c].people
                     /\ card'[c].home = IF card[c].parent = p THEN k.home ELSE card[c].home
  <2> TAKE c \in Cards
  <2>1. CASE c = p
    BY <1>3, <2>1
  <2>2. CASE c \in Subtasks(p)
    <3>1. card'[c] = [card[c] EXCEPT !.home = k.home] /\ card[c].parent = p
      BY <1>3, <2>2 DEF Subtasks
    <3> QED
      BY <1>5, <2>2, <3>1
  <2>3. CASE c \notin Subtasks(p) \cup {p}
    <3>1. card'[c] = card[c] /\ card[c].parent # p
      BY <1>3, <2>3 DEF Subtasks
    <3> QED
      BY <2>3, <3>1, CardsAre
  <2> QED
    BY <2>1, <2>2, <2>3
<1>7. card' \in [Cards -> Card]
  BY <1>3, <1>6
<1>8. Numbering'
  BY <1>6, SameNumbers DEF IInv, Exists
<1>9. \A c \in Cards : card'[c].task # "none" =>
              /\ card'[c].home \in Tabs
              /\ card'[c].column # None => home[card'[c].column] = card'[c].home
              /\ card'[c].parent # None =>
                    /\ card'[c].column = None
                    /\ card'[card'[c].parent].task # "none"
                    /\ card'[card'[c].parent].parent = None
                    /\ card'[card'[c].parent].home = card'[c].home
  <2> SUFFICES ASSUME NEW c \in Cards, card'[c].task # "none"
               PROVE  /\ card'[c].home \in Tabs
                      /\ card'[c].column # None => home[card'[c].column] = card'[c].home
                      /\ card'[c].parent # None =>
                            /\ card'[c].column = None
                            /\ card'[card'[c].parent].task # "none"
                            /\ card'[card'[c].parent].parent = None
                            /\ card'[card'[c].parent].home = card'[c].home
    OBVIOUS
  <2>1. CASE c = p
    BY <1>3, <2>1
  <2>2. CASE c # p /\ card[c].parent = p
    <3>1. /\ card'[c].home = k.home /\ card'[c].parent = p /\ card'[c].column = card[c].column
          /\ card[c].task # "none"
      BY <1>6, <2>2
    <3>2. card[c].column = None
      BY <2>2, <3>1, CardsAre, BoardAssumption DEF Cards
    <3> QED
      BY <1>1, <1>3, <3>1, <3>2
  <2>3. CASE c # p /\ card[c].parent # p
    <3>1. /\ card'[c].home = card[c].home /\ card'[c].parent = card[c].parent
          /\ card'[c].column = card[c].column /\ card[c].task # "none"
      BY <1>6, <2>3
    <3>2. /\ card[c].home \in Tabs
          /\ card[c].column # None => home[card[c].column] = card[c].home
      BY <3>1, CardsAre
    <3>3. ASSUME card[c].parent # None
          PROVE  /\ card[c].column = None
                 /\ card'[card[c].parent].task # "none"
                 /\ card'[card[c].parent].parent = None
                 /\ card'[card[c].parent].home = card[c].home
      <4> DEFINE q == card[c].parent
      <4>1. /\ q \in Cards /\ q # p /\ card[c].column = None
            /\ card[q].task # "none" /\ card[q].parent = None /\ card[q].home = card[c].home
        BY <2>3, <3>1, <3>3, CardsAre
      <4> HIDE DEF q
      <4>2. card[q].parent # p
        BY <4>1, BoardAssumption DEF Cards
      <4>3. /\ card'[q].task # "none" /\ card'[q].parent = None /\ card'[q].home = card[q].home
        BY <1>6, <4>1, <4>2
      <4> QED
        BY <4>1, <4>3 DEF q
    <3> QED
      BY <3>1, <3>2, <3>3
  <2> QED
    BY <2>1, <2>2, <2>3
<1>10. \A c \in Cards : card'[c].task = "IN_PROGRESS" =>
              /\ ~shelved
              /\ c \notin returned' => card'[c].people # {} /\ card'[c].people \subseteq members
  BY <1>1, <1>3, <1>6, CardsAre
<1> QED
  BY <1>1, <1>7, <1>8, <1>9, <1>10, CardStepKeeps DEF TypeOK

\* Raising the version of a card changes nothing else of it.
LEMMA SteppedCard ==
    ASSUME NEW k \in Card, NEW edited \in BOOLEAN
    PROVE  /\ Stepped(k, edited) \in Card
           /\ Stepped(k, edited).task = k.task /\ Stepped(k, edited).home = k.home
           /\ Stepped(k, edited).column = k.column /\ Stepped(k, edited).parent = k.parent
           /\ Stepped(k, edited).people = k.people /\ Stepped(k, edited).stay = k.stay
           /\ Stepped(k, edited).asked = k.asked
           /\ edited => Stepped(k, edited).version = k.version + 1
<1>1. k.version + 1 \in Nat
  BY SMT DEF Card
<1>2. CASE edited
  <2>1. Stepped(k, edited) = [k EXCEPT !.version = k.version + 1]
    BY <1>2 DEF Stepped
  <2>2. [k EXCEPT !.version = k.version + 1] \in Card
    BY <1>1 DEF Card
  <2> QED
    BY <1>2, <2>1, <2>2 DEF Card
<1>3. CASE ~edited
  BY <1>3 DEF Stepped
<1> QED
  BY <1>2, <1>3

LEMMA MoveCardKeeps ==
    ASSUME IInv, NEW p \in Cards, NEW col \in Columns, MoveCard(p, col)
    PROVE  IInv'
<1> DEFINE k == Entered(card[p], col)
           edited == k.people # card[p].people
<1>1. /\ TypeOK /\ home[col] # None /\ card[p] \in Card /\ Movable(p)
      /\ card[p].parent = None /\ card[p].task = "IN_PROGRESS"
      /\ Placed(p, Stepped(k, edited))
      /\ UNCHANGED <<shelved, peopleVars, structure, rules, returned, changes>>
  BY CardsAre DEF MoveCard, IInv, Movable, Open
<1>2. /\ k \in Card
      /\ k = [card[p] EXCEPT !.column = col, !.home = home[col], !.stay = col,
                             !.people = PinTarget(col, card[p].people)]
      /\ k.people \subseteq card[p].people \cup members
      /\ card[p].people # {} => k.people # {}
  BY <1>1, EnteredCard
<1>3. k.task = card[p].task /\ k.column = col /\ k.home = home[col] /\ k.parent = None
  BY <1>1, <1>2 DEF Card
<1> HIDE DEF k
<1>4. edited \in BOOLEAN
  OBVIOUS
<1> HIDE DEF edited
<1>5. /\ Stepped(k, edited) \in Card /\ Stepped(k, edited).task = card[p].task
      /\ Stepped(k, edited).home = home[col] /\ Stepped(k, edited).column = col
      /\ Stepped(k, edited).parent = None /\ Stepped(k, edited).people = k.people
  BY <1>2, <1>3, <1>4, SteppedCard
<1>6. home[col] \in Tabs
  BY <1>1 DEF IInv, ColumnsHaveATab
<1>7. p \notin returned => k.people # {} /\ k.people \subseteq members
  BY <1>1, <1>2, CardsAre
<1> QED
  BY <1>1, <1>5, <1>6, <1>7, PlacedKeeps

LEMMA RunActionKeeps ==
    ASSUME IInv, NEW p \in Cards, NEW a \in Actions, RunAction(p, a)
    PROVE  IInv'
<1> DEFINE col == action[a].target
           k == Entered(card[p], col)
           people == Handed(a, k.people)
           h == [k EXCEPT !.people = people]
           edited == k.people # card[p].people \/ people # k.people
<1>1. /\ TypeOK /\ action[a].live /\ home[col] # None /\ card[p] \in Card /\ Movable(p)
      /\ card[p].parent = None /\ card[p].task = "IN_PROGRESS"
      /\ Placed(p, Stepped(h, edited))
      /\ UNCHANGED <<shelved, peopleVars, structure, rules, returned, changes>>
  BY CardsAre DEF RunAction, IInv, Movable, Open
<1>2. col \in Columns
  BY <1>1 DEF IInv, TypeOK, LiveActionsLead
<1> HIDE DEF col
<1>3. /\ k \in Card
      /\ k = [card[p] EXCEPT !.column = col, !.home = home[col], !.stay = col,
                             !.people = PinTarget(col, card[p].people)]
      /\ k.people \subseteq card[p].people \cup members
      /\ card[p].people # {} => k.people # {}
  BY <1>1, <1>2, EnteredCard
<1>4. /\ k.task = card[p].task /\ k.column = col /\ k.home = home[col] /\ k.parent = None
      /\ k.people \in SUBSET People
  BY <1>1, <1>3 DEF Card
<1> HIDE DEF k
<1>5. /\ people \in SUBSET People
      /\ people \subseteq k.people \cup members
      /\ k.people # {} => people # {}
  BY <1>1, <1>4, HandedPeople
<1> HIDE DEF people
<1>6. /\ h \in Card /\ h.task = card[p].task /\ h.column = col /\ h.home = home[col]
      /\ h.parent = None /\ h.people = people
  BY <1>3, <1>4, <1>5 DEF Card
<1> HIDE DEF h
<1>7. edited \in BOOLEAN
  OBVIOUS
<1> HIDE DEF edited
<1>8. /\ Stepped(h, edited) \in Card /\ Stepped(h, edited).task = card[p].task
      /\ Stepped(h, edited).home = home[col] /\ Stepped(h, edited).column = col
      /\ Stepped(h, edited).parent = None /\ Stepped(h, edited).people = people
  BY <1>6, <1>7, SteppedCard
<1>9. home[col] \in Tabs
  BY <1>1, <1>2 DEF IInv, ColumnsHaveATab
<1>10. p \notin returned => people # {} /\ people \subseteq members
  BY <1>1, <1>3, <1>5, CardsAre
<1> QED
  BY <1>1, <1>8, <1>9, <1>10, PlacedKeeps

LEMMA ReorderCardKeeps ==
    ASSUME IInv, NEW p \in Cards, ReorderCard(p)
    PROVE  IInv'
<1> DEFINE col == WorkingColumn(card[p])
           k == [card[p] EXCEPT !.column = col]
<1>1. /\ TypeOK /\ card[p] \in Card /\ ~shelved
      /\ card[p].task = "IN_PROGRESS" /\ card[p].parent = None
      /\ card[p].home \in Tabs
      /\ card[p].column # None => home[card[p].column] = card[p].home
      /\ card' = [card EXCEPT ![p] = k]
      /\ UNCHANGED <<shelved, peopleVars, structure, rules, returned, changes>>
  BY CardsAre DEF ReorderCard, IInv, Movable, Open
<1>2. col \in Columns /\ home[col] = card[p].home
  BY <1>1 DEF IInv, CardsHaveAPlace, WorkingColumn, Tabs, TypeOK, Card
<1> HIDE DEF col
<1>3. /\ k \in Card /\ k.task = card[p].task /\ k.column = col /\ k.home = card[p].home
      /\ k.parent = None /\ k.people = card[p].people
  BY <1>1, <1>2 DEF Card
<1> HIDE DEF k
<1>4. /\ card'[p] = k /\ \A c \in Cards \ {p} : card'[c] = card[c]
      /\ card' \in [Cards -> Card]
  BY <1>1, <1>3 DEF TypeOK
<1>5. Numbering'
  BY <1>3, <1>4, SameNumbers DEF IInv, Exists
<1>6. \A c \in Cards : card'[c].task # "none" =>
              /\ card'[c].home \in Tabs
              /\ card'[c].column # None => home[card'[c].column] = card'[c].home
              /\ card'[c].parent # None =>
                    /\ card'[c].column = None
                    /\ card'[card'[c].parent].task # "none"
                    /\ card'[card'[c].parent].parent = None
                    /\ card'[card'[c].parent].home = card'[c].home
  BY <1>1, <1>2, <1>3, <1>4, CardsAre
<1>7. \A c \in Cards : card'[c].task = "IN_PROGRESS" =>
              /\ ~shelved
              /\ c \notin returned' => card'[c].people # {} /\ card'[c].people \subseteq members
  BY <1>1, <1>3, <1>4, CardsAre
<1> QED
  BY <1>1, <1>4, <1>5, <1>6, <1>7, CardStepKeeps DEF TypeOK

-----------------------------------------------------------------------------
\* Closing a card leaves every card where it was.
LEMMA ClosedKeeps ==
    ASSUME IInv, NEW p \in Cards, Open(p), NEW task \in {"COMPLETED", "CANCELLED"},
           NEW stay \in Columns \cup {None, Done}, card' = Closed(p, task, stay),
           UNCHANGED <<shelved, peopleVars, structure, rules, returned, changes>>
    PROVE  IInv'
<1> DEFINE k == [card[p] EXCEPT !.task = task, !.stay = IF @ = None THEN None ELSE stay]
           up(c) == [card[c] EXCEPT !.asked = @ \/ AllSubtasksDone(p, task)]
<1>1. card[p] \in Card /\ card[p].task = "IN_PROGRESS" /\ TypeOK
  BY CardsAre DEF Open, IInv
<1>2. /\ k \in Card /\ k.task = task /\ k.home = card[p].home /\ k.column = card[p].column
      /\ k.parent = card[p].parent
  <2>1. (IF card[p].stay = None THEN None ELSE stay) \in Columns \cup {None, Done}
    OBVIOUS
  <2>2. task \in TaskStates
    BY DEF TaskStates
  <2> QED
    BY <1>1, <2>1, <2>2 DEF Card
<1>3. ASSUME NEW c \in Cards
      PROVE  /\ up(c) \in Card /\ up(c).task = card[c].task /\ up(c).home = card[c].home
             /\ up(c).column = card[c].column /\ up(c).parent = card[c].parent
             /\ up(c).people = card[c].people
  <2>1. card[c] \in Card
    BY CardsAre
  <2>2. (card[c].asked \/ AllSubtasksDone(p, task)) \in BOOLEAN
    OBVIOUS
  <2> QED
    BY <2>1, <2>2 DEF Card
<1> DEFINE after(c) == CASE c = p -> k
                         [] c = card[p].parent -> up(c)
                         [] OTHER -> card[c]
<1>4. card' = [c \in Cards |-> after(c)]
  BY DEF Closed
<1> HIDE DEF k, up
<1>5. \A c \in Cards : \/ c = p /\ after(c) = k
                       \/ c # p /\ (after(c) = up(c) \/ after(c) = card[c])
  BY <1>1, NoOwnParent
<1> HIDE DEF after
<1>6. card' \in [Cards -> Card]
  <2>1. \A c \in Cards : after(c) \in Card
    BY <1>2, <1>3, <1>5, CardsAre
  <2> QED
    BY <1>4, <2>1
<1>7. \A c \in Cards : card'[c] = after(c)
  BY <1>4
<1> QED
  BY <1>1, <1>2, <1>3, <1>5, <1>6, <1>7, CardsAre, SamePlacesKeep DEF TypeOK

LEMMA ReopenCardKeeps ==
    ASSUME IInv, NEW p \in Cards, ReopenCard(p)
    PROVE  IInv'
<1> DEFINE k == [card[p] EXCEPT !.task = "IN_PROGRESS",
                                !.stay = IF @ = None THEN None ELSE WorkingColumn(card[p])]
           up(c) == [card[c] EXCEPT !.asked = FALSE]
<1>1. /\ card[p] \in Card /\ card[p].task = "COMPLETED" /\ TypeOK /\ ~shelved
      /\ returned' = returned \cup {p} /\ changes' = changes
      /\ UNCHANGED <<shelved, peopleVars, structure, rules>>
  BY CardsAre DEF ReopenCard, IInv
<1>2. /\ k \in Card /\ k.task = "IN_PROGRESS" /\ k.home = card[p].home
      /\ k.column = card[p].column /\ k.parent = card[p].parent
  <2>1. WorkingColumn(card[p]) \in Columns
    BY <1>1, CardsAre DEF WorkingColumn, IInv, TypeOK, CardsHaveAPlace, Tabs, Card
  <2>2. (IF card[p].stay = None THEN None ELSE WorkingColumn(card[p])) \in Columns \cup {None, Done}
    BY <2>1
  <2>3. "IN_PROGRESS" \in TaskStates
    BY DEF TaskStates
  <2> QED
    BY <1>1, <2>2, <2>3 DEF Card
<1>3. ASSUME NEW c \in Cards
      PROVE  /\ up(c) \in Card /\ up(c).task = card[c].task /\ up(c).home = card[c].home
             /\ up(c).column = card[c].column /\ up(c).parent = card[c].parent
             /\ up(c).people = card[c].people
  BY CardsAre DEF Card
<1> DEFINE after(c) == CASE c = p -> k
                         [] c = card[p].parent -> up(c)
                         [] OTHER -> card[c]
<1>4. card' = [c \in Cards |-> after(c)]
  BY DEF ReopenCard
<1> HIDE DEF k, up
<1>5. \A c \in Cards : \/ c = p /\ after(c) = k
                       \/ c # p /\ (after(c) = up(c) \/ after(c) = card[c])
  BY <1>1, NoOwnParent
<1> HIDE DEF after
<1>6. card' \in [Cards -> Card]
  <2>1. \A c \in Cards : after(c) \in Card
    BY <1>2, <1>3, <1>5, CardsAre
  <2> QED
    BY <1>4, <2>1
<1>7. \A c \in Cards : card'[c] = after(c)
  BY <1>4
<1> QED
  BY <1>1, <1>2, <1>3, <1>5, <1>6, <1>7, CardsAre, SamePlacesKeep DEF TypeOK

-----------------------------------------------------------------------------
\* Steps that leave the cards, the tabs and the columns alone.
LEMMA RulesStepKeeps ==
    ASSUME IInv, UNCHANGED <<structure, cardVars>>,
           TypeOK', RulesNameWhatThereIs', LiveActionsLead',
           \A c \in Cards : card[c].task = "IN_PROGRESS" =>
              ~shelved' /\ (c \notin returned => card[c].people \subseteq members')
    PROVE  IInv'
<1>1. Tabs' = Tabs /\ card' = card /\ returned' = returned /\ home' = home /\ first' = first
  BY DEF Tabs, structure, cardVars
<1>2. Numbering'
  BY <1>1, SameNumbers DEF IInv, Exists
<1>3. CardsHaveAPlace'
  BY <1>1 DEF IInv, CardsHaveAPlace, Exists
<1>4. ColumnsHaveATab' /\ ColumnsAreUsed'
  BY <1>1 DEF IInv, ColumnsHaveATab, ColumnsAreUsed, structure
<1>5. OpenCardsAreMembersWork' /\ ShelvedAtRest'
  BY <1>1, CardsAre DEF OpenCardsAreMembersWork, ShelvedAtRest, Open
<1> QED
  BY <1>2, <1>3, <1>4, <1>5 DEF IInv

LEMMA ManageIsTyped == ASSUME TypeOK, Manage PROVE ~shelved /\ changes' \in Nat
BY DEF TypeOK, Manage

LEMMA SetColumnPinsKeeps ==
    ASSUME IInv, NEW col \in Columns, NEW people \in RuleChoices \cup {{}}, NEW mode \in Modes,
           SetColumnPins(col, people, mode)
    PROVE  IInv'
<1> DEFINE p == IF people = {} THEN NoPins ELSE [people |-> people, mode |-> mode]
<1>1. /\ TypeOK /\ changes' \in Nat /\ people \in SUBSET People /\ people \subseteq members
      /\ mode \in {"ADD", "REPLACE"}
      /\ pins' = [pins EXCEPT ![col] = p]
      /\ UNCHANGED <<shelved, peopleVars, structure, action, cardVars>>
  BY ManageIsTyped, BoardAssumption DEF IInv, SetColumnPins, Assignable, Modes
<1>2. p \in [people : SUBSET People, mode : {"ADD", "REPLACE"}] /\ p.people \subseteq members
  BY <1>1 DEF NoPins
<1> HIDE DEF p
<1>3. TypeOK'
  BY <1>1, <1>2 DEF TypeOK, structure, peopleVars, cardVars
<1>4. RulesNameWhatThereIs'
  BY <1>1, <1>2 DEF IInv, RulesNameWhatThereIs, TypeOK, structure, peopleVars
<1>5. LiveActionsLead'
  BY <1>1 DEF IInv, LiveActionsLead
<1> QED
  BY <1>1, <1>3, <1>4, <1>5, CardsAre, RulesStepKeeps DEF peopleVars

LEMMA SetActionKeeps ==
    ASSUME IInv, NEW a \in Actions, NEW col \in Columns, NEW people \in RuleChoices \cup {{}},
           NEW mode \in Modes, SetAction(a, col, people, mode)
    PROVE  IInv'
<1> DEFINE live == IF action[a].target = None THEN TRUE ELSE action[a].live
           b == [target |-> col, people |-> people, mode |-> mode, live |-> live]
<1>1. /\ TypeOK /\ changes' \in Nat /\ people \in SUBSET People /\ people \subseteq members
      /\ home[col] # None
      /\ action' = [action EXCEPT ![a] = b]
      /\ UNCHANGED <<shelved, peopleVars, structure, pins, cardVars>>
  BY ManageIsTyped, BoardAssumption DEF IInv, SetAction, Assignable
<1>2. live \in BOOLEAN
  BY <1>1 DEF TypeOK
<1> HIDE DEF live
<1>3. /\ b \in [target : Columns \cup {None}, people : SUBSET People, mode : Modes, live : BOOLEAN]
      /\ b.people = people /\ b.target = col
  BY <1>1, <1>2
<1> HIDE DEF b
<1>4. TypeOK'
  BY <1>1, <1>3 DEF TypeOK, structure, peopleVars, cardVars
<1>5. action'[a] = b /\ \A o \in Actions \ {a} : action'[o] = action[o]
  BY <1>1 DEF TypeOK
<1>6. RulesNameWhatThereIs'
  BY <1>1, <1>3, <1>5 DEF IInv, RulesNameWhatThereIs, structure, peopleVars
<1>7. LiveActionsLead'
  BY <1>3, <1>5, BoardAssumption DEF IInv, LiveActionsLead
<1> QED
  BY <1>1, <1>4, <1>6, <1>7, CardsAre, RulesStepKeeps DEF peopleVars

LEMMA ArchiveActionKeeps ==
    ASSUME IInv, NEW a \in Actions, ArchiveAction(a)
    PROVE  IInv'
<1> DEFINE b == [action[a] EXCEPT !.live = ~@]
<1>1. /\ TypeOK /\ changes' \in Nat /\ action[a].target # None
      /\ action' = [action EXCEPT ![a] = b]
      /\ UNCHANGED <<shelved, peopleVars, structure, pins, cardVars>>
  BY ManageIsTyped DEF IInv, ArchiveAction
<1>2. /\ b \in [target : Columns \cup {None}, people : SUBSET People, mode : Modes, live : BOOLEAN]
      /\ b.people = action[a].people /\ b.target = action[a].target
  BY <1>1 DEF TypeOK
<1> HIDE DEF b
<1>3. TypeOK'
  BY <1>1, <1>2 DEF TypeOK, structure, peopleVars, cardVars
<1>4. action'[a] = b /\ \A o \in Actions \ {a} : action'[o] = action[o]
  BY <1>1 DEF TypeOK
<1>5. RulesNameWhatThereIs'
  BY <1>1, <1>2, <1>4 DEF IInv, RulesNameWhatThereIs, structure, peopleVars
<1>6. LiveActionsLead'
  BY <1>1, <1>2, <1>4 DEF IInv, LiveActionsLead
<1> QED
  BY <1>1, <1>3, <1>5, <1>6, CardsAre, RulesStepKeeps DEF peopleVars

LEMMA AddMemberKeeps ==
    ASSUME IInv, NEW u \in People, AddMember(u)
    PROVE  IInv'
<1>1. /\ TypeOK /\ changes' \in Nat /\ members' = members \cup {u}
      /\ UNCHANGED <<shelved, active, structure, rules, cardVars>>
  BY ManageIsTyped DEF IInv, AddMember
<1>2. TypeOK'
  BY <1>1 DEF TypeOK, structure, rules, cardVars
<1>3. RulesNameWhatThereIs' /\ LiveActionsLead'
  BY <1>1 DEF IInv, RulesNameWhatThereIs, LiveActionsLead, structure, rules
<1> QED
  BY <1>1, <1>2, <1>3, CardsAre, RulesStepKeeps

LEMMA RemoveMemberKeeps ==
    ASSUME IInv, NEW u \in People, RemoveMember(u)
    PROVE  IInv'
<1>1. /\ TypeOK /\ changes' \in Nat /\ members' = members \ {u}
      /\ pins' = [col \in Columns |-> [pins[col] EXCEPT !.people = @ \ {u}]]
      /\ action' = [a \in Actions |-> [action[a] EXCEPT !.people = @ \ {u}]]
      /\ \A c \in Cards : card[c].task = "IN_PROGRESS" => u \notin card[c].people
      /\ UNCHANGED <<shelved, active, structure, cardVars>>
  BY ManageIsTyped DEF IInv, RemoveMember, OpenCards, Open, WithoutPerson
<1>2. \A col \in Columns :
         /\ pins'[col] \in [people : SUBSET People, mode : {"ADD", "REPLACE"}]
         /\ pins'[col].people = pins[col].people \ {u}
  BY <1>1 DEF TypeOK
<1>3. \A a \in Actions :
         /\ action'[a] \in [target : Columns \cup {None}, people : SUBSET People,
                            mode : Modes, live : BOOLEAN]
         /\ action'[a].people = action[a].people \ {u}
         /\ action'[a].target = action[a].target /\ action'[a].live = action[a].live
  BY <1>1 DEF TypeOK
<1>4. TypeOK'
  <2>1. pins' \in [Columns -> [people : SUBSET People, mode : {"ADD", "REPLACE"}]]
    BY <1>1, <1>2
  <2>2. action' \in [Actions -> [target : Columns \cup {None}, people : SUBSET People,
                                 mode : Modes, live : BOOLEAN]]
    BY <1>1, <1>3
  <2> QED
    BY <1>1, <2>1, <2>2 DEF TypeOK, structure, cardVars
<1>5. RulesNameWhatThereIs'
  <2>1. RulesNameWhatThereIs /\ home' = home
    BY <1>1 DEF IInv, structure
  <2> QED
    BY <1>1, <1>2, <1>3, <2>1 DEF RulesNameWhatThereIs
<1>6. LiveActionsLead'
  BY <1>3 DEF IInv, LiveActionsLead
<1> QED
  BY <1>1, <1>4, <1>5, <1>6, CardsAre, RulesStepKeeps

LEMMA SwitchAccountKeeps ==
    ASSUME IInv, NEW u \in People, SwitchAccount(u)
    PROVE  IInv'
<1>1. /\ TypeOK /\ changes' \in Nat /\ active' \in SUBSET People
      /\ UNCHANGED <<shelved, members, structure, rules, cardVars>>
  BY DEF IInv, SwitchAccount, TypeOK
<1>2. TypeOK'
  BY <1>1 DEF TypeOK, structure, rules, cardVars
<1>3. RulesNameWhatThereIs' /\ LiveActionsLead'
  BY <1>1 DEF IInv, RulesNameWhatThereIs, LiveActionsLead, structure, rules
<1> QED
  BY <1>1, <1>2, <1>3, CardsAre, RulesStepKeeps

LEMMA ShelfKeeps ==
    ASSUME IInv, ArchiveBoard \/ RestoreBoard
    PROVE  IInv'
<1>1. /\ TypeOK /\ changes' \in Nat /\ shelved' \in BOOLEAN
      /\ shelved' => \A c \in Cards : card[c].task # "IN_PROGRESS"
      /\ UNCHANGED <<peopleVars, structure, rules, cardVars>>
  BY ManageIsTyped DEF IInv, ArchiveBoard, RestoreBoard, OpenCards, Open, TypeOK
<1>2. TypeOK'
  BY <1>1 DEF TypeOK, structure, rules, cardVars, peopleVars
<1>3. RulesNameWhatThereIs' /\ LiveActionsLead'
  BY <1>1 DEF IInv, RulesNameWhatThereIs, LiveActionsLead, structure, rules, peopleVars
<1> QED
  BY <1>1, <1>2, <1>3, CardsAre, RulesStepKeeps DEF peopleVars

-----------------------------------------------------------------------------
\* Steps that leave the cards alone and only add tabs and columns, or put
\* another column of a tab first.
LEMMA StructureStepKeeps ==
    ASSUME IInv, TypeOK', UNCHANGED <<shelved, peopleVars, rules, cardVars>>, ColumnsAreUsed',
           \A col \in Columns : home[col] # None => home'[col] = home[col],
           \A col \in Columns : home'[col] # None => home'[col] \in Tabs',
           \A s \in Tabs : s \in Tabs',
           \A s \in Tabs' : home'[first'[s]] = s
    PROVE  IInv'
<1>1. Numbering'
  BY SameNumbers DEF IInv, Exists, cardVars
<1>2. ColumnsHaveATab'
  BY DEF ColumnsHaveATab
<1>3. LiveActionsLead'
  BY DEF IInv, LiveActionsLead, rules
<1>4. \A c \in Cards : card[c].task # "none" => home'[card[c].column] = home[card[c].column] \/ card[c].column = None
  <2> SUFFICES ASSUME NEW c \in Cards, card[c].task # "none", card[c].column # None
               PROVE  home'[card[c].column] = home[card[c].column]
    OBVIOUS
  <2>1. card[c].column \in Columns /\ home[card[c].column] = card[c].home /\ card[c].home \in Tabs
    BY CardsAre DEF Card
  <2>2. card[c].home # None
    BY <2>1, BoardAssumption DEF Tabs
  <2> QED
    BY <2>1, <2>2
<1>5. CardsHaveAPlace'
  BY <1>4, CardsAre DEF CardsHaveAPlace, Exists, cardVars
<1>6. RulesNameWhatThereIs'
  <2>1. \A a \in Actions : action[a].target # None => home'[action[a].target] # None
    BY DEF IInv, RulesNameWhatThereIs, TypeOK
  <2> QED
    BY <2>1 DEF IInv, RulesNameWhatThereIs, rules, peopleVars
<1>7. OpenCardsAreMembersWork' /\ ShelvedAtRest'
  BY DEF IInv, OpenCardsAreMembersWork, ShelvedAtRest, Open, cardVars, peopleVars
<1> QED
  BY <1>1, <1>2, <1>3, <1>5, <1>6, <1>7 DEF IInv

LEMMA CreateSubBoardKeeps ==
    ASSUME IInv, NEW s \in SubBoards, NEW cols \in SUBSET Columns, CreateSubBoard(s, cols)
    PROVE  IInv'
<1>1. /\ TypeOK /\ changes' \in Nat /\ first[s] = None /\ cols \subseteq Columns \ used
      /\ home' = [col \in Columns |-> IF col \in cols THEN s ELSE home[col]]
      /\ used' = used \cup cols
      /\ UNCHANGED <<shelved, peopleVars, rules, cardVars>>
  BY ManageIsTyped DEF IInv, CreateSubBoard
<1>2. PICK lead \in cols : first' = [first EXCEPT ![s] = lead]
  BY DEF CreateSubBoard
<1>3. TypeOK'
  BY <1>1, <1>2 DEF TypeOK, peopleVars, rules, cardVars
<1>4. \A col \in Columns : home[col] # s
  BY <1>1, BoardAssumption DEF IInv, ColumnsHaveATab, Tabs
<1>5. Tabs' = Tabs \cup {s}
  BY <1>1, <1>2, BoardAssumption DEF Tabs, TypeOK
<1>6. \A col \in cols : home[col] = None
  BY <1>1 DEF IInv, ColumnsAreUsed
<1>7. \A t \in Tabs' : home'[first'[t]] = t
  <2>1. \A t \in Tabs : t # s /\ first'[t] = first[t] /\ first[t] \in Columns /\ home[first[t]] = t
    BY <1>1, <1>2 DEF Tabs, TypeOK, IInv, CardsHaveAPlace
  <2>2. first'[s] = lead
    BY <1>1, <1>2 DEF TypeOK
  <2>3. \A t \in Tabs : first[t] \notin cols
    BY <2>1, <1>6, BoardAssumption DEF Tabs
  <2> QED
    BY <1>1, <1>5, <2>1, <2>2, <2>3
<1>8. \A col \in Columns : home[col] # None => home'[col] = home[col]
  BY <1>1, <1>6
<1>9. \A col \in Columns : home'[col] # None => home'[col] \in Tabs'
  BY <1>1, <1>5 DEF IInv, ColumnsHaveATab
<1>11. ColumnsAreUsed'
  BY <1>1 DEF IInv, ColumnsAreUsed, TypeOK
<1> QED
  BY <1>1, <1>11, <1>3, <1>5, <1>7, <1>8, <1>9, StructureStepKeeps

LEMMA CreateColumnKeeps ==
    ASSUME IInv, NEW s \in SubBoards, NEW col \in Columns, CreateColumn(s, col)
    PROVE  IInv'
<1>1. /\ TypeOK /\ changes' \in Nat /\ s \in Tabs /\ col \notin used
      /\ home' = [home EXCEPT ![col] = s]
      /\ used' = used \cup {col} /\ first' = first
      /\ UNCHANGED <<shelved, peopleVars, rules, cardVars>>
  BY ManageIsTyped DEF IInv, CreateColumn
<1>2. TypeOK'
  BY <1>1 DEF TypeOK, peopleVars, rules, cardVars
<1>3. home[col] = None /\ Tabs' = Tabs
  BY <1>1 DEF IInv, ColumnsAreUsed, Tabs
<1>4. \A t \in Tabs : first[t] # col /\ first[t] \in Columns /\ home[first[t]] = t
  BY <1>1, <1>3, BoardAssumption DEF Tabs, TypeOK, IInv, CardsHaveAPlace
<1>5. \A o \in Columns : o # col => home'[o] = home[o]
  BY <1>1 DEF TypeOK
<1>6. home'[col] = s
  BY <1>1 DEF TypeOK
<1>7. \A o \in Columns : home'[o] # None => home'[o] \in Tabs'
  BY <1>1, <1>3, <1>5, <1>6 DEF IInv, ColumnsHaveATab
<1>11. ColumnsAreUsed'
  BY <1>1 DEF IInv, ColumnsAreUsed, TypeOK
<1> QED
  BY <1>1, <1>11, <1>2, <1>3, <1>4, <1>5, <1>7, StructureStepKeeps

LEMMA MoveColumnKeeps ==
    ASSUME IInv, NEW s \in SubBoards, NEW col \in Columns, MoveColumn(s, col)
    PROVE  IInv'
<1>1. /\ TypeOK /\ changes' \in Nat /\ s \in Tabs /\ home[col] = s
      /\ first' = [first EXCEPT ![s] = col]
      /\ home' = home /\ used' = used
      /\ UNCHANGED <<shelved, peopleVars, rules, cardVars>>
  BY ManageIsTyped DEF IInv, MoveColumn
<1>2. TypeOK'
  BY <1>1 DEF TypeOK, peopleVars, rules, cardVars
<1>3. Tabs' = Tabs
  BY <1>1, BoardAssumption DEF Tabs, TypeOK
<1>4. \A t \in Tabs' : home'[first'[t]] = t
  BY <1>1, <1>3 DEF Tabs, TypeOK, IInv, CardsHaveAPlace
<1>11. ColumnsAreUsed'
  BY <1>1 DEF IInv, ColumnsAreUsed, TypeOK
<1> QED
  BY <1>1, <1>11, <1>2, <1>3, <1>4, StructureStepKeeps DEF IInv, ColumnsHaveATab

LEMMA DeleteSubBoardKeeps ==
    ASSUME IInv, NEW s \in SubBoards, DeleteSubBoard(s)
    PROVE  IInv'
<1>1. /\ TypeOK /\ changes' \in Nat
      /\ \A c \in Cards : card[c].home # s
      /\ \A a \in Actions : action[a].target \notin ColumnsOf(s)
      /\ home' = [col \in Columns |-> IF home[col] = s THEN None ELSE home[col]]
      /\ first' = [first EXCEPT ![s] = None]
      /\ pins' = [col \in Columns |-> IF home[col] = s THEN NoPins ELSE pins[col]]
      /\ UNCHANGED <<shelved, peopleVars, used, action, cardVars>>
  BY ManageIsTyped DEF IInv, DeleteSubBoard, ActionsLeadTo
<1>2. NoPins \in [people : SUBSET People, mode : {"ADD", "REPLACE"}]
  BY DEF NoPins
<1>3. TypeOK'
  BY <1>1, <1>2 DEF TypeOK, peopleVars, cardVars
<1>4. Tabs' = Tabs \ {s}
  BY <1>1 DEF Tabs, TypeOK
<1>5. Numbering'
  BY <1>1, SameNumbers DEF IInv, Exists, cardVars
<1>6. ColumnsHaveATab'
  BY <1>1, <1>4 DEF IInv, ColumnsHaveATab
<1>7. LiveActionsLead'
  BY <1>1 DEF IInv, LiveActionsLead
<1>8. \A t \in Tabs' : home'[first'[t]] = t
  <2>1. \A t \in Tabs' : first'[t] = first[t] /\ first[t] \in Columns /\ home[first[t]] = t /\ t # s
    BY <1>1, <1>4 DEF Tabs, TypeOK, IInv, CardsHaveAPlace
  <2> QED
    BY <1>1, <2>1
<1>9. ASSUME NEW c \in Cards, card[c].task # "none"
      PROVE  /\ card[c].home \in Tabs'
             /\ card[c].column # None => home'[card[c].column] = card[c].home
  BY <1>1, <1>4, <1>9, CardsAre DEF Card
<1>10. CardsHaveAPlace'
  BY <1>1, <1>8, <1>9, CardsAre DEF CardsHaveAPlace, Exists, cardVars
<1>11. RulesNameWhatThereIs'
  BY <1>1 DEF IInv, RulesNameWhatThereIs, TypeOK, ColumnsOf, NoPins, peopleVars
<1>12. OpenCardsAreMembersWork' /\ ShelvedAtRest'
  BY <1>1 DEF IInv, OpenCardsAreMembersWork, ShelvedAtRest, Open, cardVars, peopleVars
<1>13. ColumnsAreUsed'
  BY <1>1 DEF IInv, ColumnsAreUsed
<1> QED
  BY <1>3, <1>5, <1>6, <1>7, <1>10, <1>11, <1>12, <1>13 DEF IInv

LEMMA DeleteColumnKeeps ==
    ASSUME IInv, NEW col \in Columns, DeleteColumn(col)
    PROVE  IInv'
<1> DEFINE s == home[col]
           g(c) == IF card[c].column = col THEN [card[c] EXCEPT !.column = None] ELSE card[c]
<1>1. /\ TypeOK /\ changes' \in Nat /\ s # None
      /\ \A a \in Actions : action[a].target # col
      /\ home' = [home EXCEPT ![col] = None]
      /\ card' = [c \in Cards |-> g(c)]
      /\ pins' = [pins EXCEPT ![col] = NoPins]
      /\ UNCHANGED <<shelved, peopleVars, used, action, returned>>
  BY ManageIsTyped DEF IInv, DeleteColumn, ActionsLeadTo
<1>2. s \in Tabs /\ s \in SubBoards /\ first[s] \in Columns
  BY <1>1 DEF IInv, ColumnsHaveATab, TypeOK, Tabs
<1>3. PICK lead \in Columns : /\ lead # col /\ home[lead] = s
                              /\ first' = [first EXCEPT ![s] = lead]
  <2>1. CASE first[s] = col
    BY <2>1 DEF DeleteColumn, ColumnsOf
  <2>2. CASE first[s] # col
    <3>1. first' = first
      BY <2>2 DEF DeleteColumn
    <3>2. first' = [first EXCEPT ![s] = first[s]]
      BY <1>1, <1>2, <3>1 DEF TypeOK
    <3>3. home[first[s]] = s
      BY <1>2 DEF IInv, CardsHaveAPlace
    <3> QED
      BY <1>2, <2>2, <3>2, <3>3
  <2> QED
    BY <2>1, <2>2
<1>4. ASSUME NEW c \in Cards
      PROVE  /\ g(c) \in Card /\ g(c).task = card[c].task /\ g(c).home = card[c].home
             /\ g(c).parent = card[c].parent /\ g(c).people = card[c].people
             /\ g(c).column = IF card[c].column = col THEN None ELSE card[c].column
  BY CardsAre DEF Card
<1> HIDE DEF s, g
<1>5. NoPins \in [people : SUBSET People, mode : {"ADD", "REPLACE"}]
  BY DEF NoPins
<1>6. card' \in [Cards -> Card] /\ \A c \in Cards : card'[c] = g(c)
  BY <1>1, <1>4
<1>7. TypeOK'
  BY <1>1, <1>2, <1>3, <1>5, <1>6 DEF TypeOK, peopleVars
<1>8. Tabs' = Tabs
  BY <1>2, <1>3, BoardAssumption DEF Tabs, TypeOK, IInv
<1>9. \A t \in Tabs' : home'[first'[t]] = t
  <2>1. \A o \in Columns \ {col} : home'[o] = home[o]
    BY <1>1 DEF TypeOK
  <2>2. \A t \in Tabs : t # s => /\ first'[t] = first[t] /\ first[t] \in Columns
                                 /\ home[first[t]] = t /\ first[t] # col
    BY <1>1, <1>3 DEF Tabs, TypeOK, IInv, CardsHaveAPlace, s
  <2>3. first'[s] = lead
    BY <1>1, <1>2, <1>3 DEF TypeOK
  <2> QED
    BY <1>3, <1>8, <2>1, <2>2, <2>3
<1>10. Numbering'
  BY <1>4, <1>6, SameNumbers DEF IInv, Exists
<1>11. \A o \in Columns : home'[o] = IF o = col THEN None ELSE home[o]
  BY <1>1 DEF TypeOK
<1>12. ColumnsHaveATab' /\ ColumnsAreUsed'
  BY <1>1, <1>8, <1>11 DEF IInv, ColumnsHaveATab, ColumnsAreUsed
<1>13. LiveActionsLead'
  BY <1>1 DEF IInv, LiveActionsLead
<1>14. \A c \in Cards : card'[c].task # "none" =>
              /\ card'[c].home \in Tabs
              /\ card'[c].column # None => home'[card'[c].column] = card'[c].home
              /\ card'[c].parent # None =>
                    /\ card'[c].column = None
                    /\ card'[card'[c].parent].task # "none"
                    /\ card'[card'[c].parent].parent = None
                    /\ card'[card'[c].parent].home = card'[c].home
  <2> SUFFICES ASSUME NEW c \in Cards, card[c].task # "none"
               PROVE  /\ card[c].home \in Tabs
                      /\ card'[c].column # None => home'[card'[c].column] = card[c].home
                      /\ card[c].parent # None =>
                            /\ card'[c].column = None
                            /\ card'[card[c].parent].task # "none"
                            /\ card'[card[c].parent].parent = None
                            /\ card'[card[c].parent].home = card[c].home
    BY <1>4, <1>6
  <2>1. card[c].column \in Columns \cup {None} /\ card[c].home \in Tabs
    BY CardsAre DEF Card
  <2>2. card'[c].column = IF card[c].column = col THEN None ELSE card[c].column
    BY <1>4, <1>6
  <2>3. card'[c].column # None => home'[card'[c].column] = card[c].home
    BY <1>11, <2>1, <2>2, CardsAre
  <2>4. ASSUME card[c].parent # None
        PROVE  /\ card'[c].column = None
               /\ card'[card[c].parent].task # "none"
               /\ card'[card[c].parent].parent = None
               /\ card'[card[c].parent].home = card[c].home
    BY <1>4, <1>6, <2>2, <2>4, CardsAre
  <2> QED
    BY <2>1, <2>3, <2>4
<1>15. CardsHaveAPlace'
  BY <1>8, <1>9, <1>14 DEF CardsHaveAPlace, Exists
<1>16. RulesNameWhatThereIs'
  <2>1. \A o \in Columns : pins'[o] = IF o = col THEN NoPins ELSE pins[o]
    BY <1>1 DEF TypeOK
  <2> QED
    BY <1>1, <1>11, <2>1 DEF IInv, RulesNameWhatThereIs, TypeOK, NoPins, peopleVars
<1>17. OpenCardsAreMembersWork' /\ ShelvedAtRest'
  BY <1>1, <1>4, <1>6 DEF IInv, OpenCardsAreMembersWork, ShelvedAtRest, Open, peopleVars
<1> QED
  BY <1>7, <1>10, <1>12, <1>13, <1>15, <1>16, <1>17 DEF IInv

-----------------------------------------------------------------------------
LEMMA InitHolds == ASSUME Init PROVE IInv
<1>1. NoCard \in Card /\ NoCard.task = "none"
  BY DEF NoCard, Card, TaskStates
<1>2. TypeOK
  <2>1. /\ pins \in [Columns -> [people : SUBSET People, mode : {"ADD", "REPLACE"}]]
        /\ action \in [Actions -> [target : Columns \cup {None}, people : SUBSET People,
                                   mode : Modes, live : BOOLEAN]]
    BY DEF Init, NoPins, NoAction, Modes
  <2>2. card \in [Cards -> Card] /\ returned \in SUBSET Cards /\ changes \in Nat
    BY <1>1 DEF Init
  <2>3. /\ shelved \in BOOLEAN /\ members \in SUBSET People /\ active \in SUBSET People
        /\ used \in SUBSET Columns
        /\ home \in [Columns -> SubBoards \cup {None}]
        /\ first \in [SubBoards -> Columns \cup {None}]
    BY DEF Init
  <2> QED
    BY <2>1, <2>2, <2>3 DEF TypeOK
<1>3. \A c \in Cards : ~Exists(c) /\ ~Open(c)
  BY <1>1 DEF Init, Exists, Open
<1>4. Numbering
  <2>1. 0 \in 0 .. MaxCards /\ \A c \in Cards : ~(c <= 0)
    BY BoardAssumption, SMT DEF Cards
  <2> QED
    BY <1>3, <2>1 DEF Numbering
<1>5. \A s \in SubBoards : IF ColumnsOf(s) = {} THEN first[s] = None ELSE first[s] \in ColumnsOf(s)
  BY DEF Init
<1>6. ColumnsHaveATab /\ CardsHaveAPlace
  <2>1. \A s \in Tabs : home[first[s]] = s
    BY <1>5 DEF Tabs, ColumnsOf
  <2>2. ASSUME NEW col \in Columns, home[col] # None PROVE home[col] \in Tabs
    <3>1. home[col] \in SubBoards /\ col \in ColumnsOf(home[col])
      BY <1>2, <2>2 DEF TypeOK, ColumnsOf
    <3> QED
      BY <1>5, <3>1, BoardAssumption DEF Tabs, ColumnsOf
  <2> QED
    BY <1>3, <2>1, <2>2 DEF ColumnsHaveATab, CardsHaveAPlace
<1>7. LiveActionsLead /\ RulesNameWhatThereIs /\ ColumnsAreUsed
  BY DEF Init, LiveActionsLead, RulesNameWhatThereIs, NoAction, NoPins, ColumnsAreUsed
<1>8. OpenCardsAreMembersWork /\ ShelvedAtRest
  BY <1>3 DEF OpenCardsAreMembersWork, ShelvedAtRest
<1> QED
  BY <1>2, <1>4, <1>6, <1>7, <1>8 DEF IInv

LEMMA CardStepsKeep == ASSUME IInv, CardStep PROVE IInv'
<1>1. ASSUME NEW col \in Columns, NEW ids \in Choices, CreateCard(col, ids) PROVE IInv'
  BY <1>1, CreateCardKeeps
<1>2. ASSUME NEW c \in Cards, NEW ids \in Choices, CreateSubtask(c, ids) PROVE IInv'
  BY <1>2, CreateSubtaskKeeps
<1>3. ASSUME NEW c \in Cards, NEW ids \in Choices, NEW version \in 1 .. MaxVersion,
             UpdateCard(c, version, ids)
      PROVE  IInv'
  BY <1>3, UpdateCardKeeps
<1>4. ASSUME NEW c \in Cards, NEW col \in Columns, MoveCard(c, col) PROVE IInv'
  BY <1>4, MoveCardKeeps
<1>5. ASSUME NEW c \in Cards, NEW a \in Actions, RunAction(c, a) PROVE IInv'
  BY <1>5, RunActionKeeps
<1>6. ASSUME NEW c \in Cards, ReorderCard(c) PROVE IInv'
  BY <1>6, ReorderCardKeeps
<1>7. ASSUME NEW c \in Cards, CompleteCard(c) PROVE IInv'
  BY <1>7, ClosedKeeps DEF CompleteCard
<1>8. ASSUME NEW c \in Cards, CancelCard(c) PROVE IInv'
  BY <1>8, ClosedKeeps DEF CancelCard
<1>9. ASSUME NEW c \in Cards, ReopenCard(c) PROVE IInv'
  BY <1>9, ReopenCardKeeps
<1> QED
  BY <1>1, <1>2, <1>3, <1>4, <1>5, <1>6, <1>7, <1>8, <1>9 DEF CardStep

LEMMA BoardStepsKeep == ASSUME IInv, BoardStep PROVE IInv'
<1>1. ASSUME NEW s \in SubBoards, NEW cols \in SUBSET Columns, CreateSubBoard(s, cols) PROVE IInv'
  BY <1>1, CreateSubBoardKeeps
<1>2. ASSUME NEW s \in SubBoards, DeleteSubBoard(s) PROVE IInv'
  BY <1>2, DeleteSubBoardKeeps
<1>3. ASSUME NEW s \in SubBoards, NEW col \in Columns, CreateColumn(s, col) \/ MoveColumn(s, col)
      PROVE  IInv'
  BY <1>3, CreateColumnKeeps, MoveColumnKeeps
<1>4. ASSUME NEW col \in Columns, DeleteColumn(col) PROVE IInv'
  BY <1>4, DeleteColumnKeeps
<1>5. ASSUME NEW col \in Columns, NEW people \in RuleChoices \cup {{}}, NEW mode \in Modes,
             SetColumnPins(col, people, mode)
      PROVE  IInv'
  BY <1>5, SetColumnPinsKeeps
<1>6. ASSUME NEW a \in Actions, NEW col \in Columns, NEW people \in RuleChoices \cup {{}},
             NEW mode \in Modes, SetAction(a, col, people, mode)
      PROVE  IInv'
  BY <1>6, SetActionKeeps
<1>7. ASSUME NEW a \in Actions, ArchiveAction(a) PROVE IInv'
  BY <1>7, ArchiveActionKeeps
<1>8. ASSUME NEW u \in People, AddMember(u) \/ RemoveMember(u) \/ SwitchAccount(u) PROVE IInv'
  BY <1>8, AddMemberKeeps, RemoveMemberKeeps, SwitchAccountKeeps
<1>9. CASE ArchiveBoard \/ RestoreBoard
  BY <1>9, ShelfKeeps
<1> QED
  BY <1>1, <1>2, <1>3, <1>4, <1>5, <1>6, <1>7, <1>8, <1>9 DEF BoardStep

LEMMA NothingHappens == ASSUME IInv, UNCHANGED vars PROVE IInv'
<1>1. /\ shelved' = shelved /\ members' = members /\ active' = active /\ home' = home
      /\ first' = first /\ used' = used /\ pins' = pins /\ action' = action
      /\ card' = card /\ returned' = returned /\ changes' = changes
  BY DEF vars
<1>2. TypeOK' /\ Tabs' = Tabs
  BY <1>1 DEF IInv, TypeOK, Tabs
<1>3. Numbering'
  BY <1>1, SameNumbers DEF IInv, Exists
<1>4. ColumnsHaveATab' /\ ColumnsAreUsed' /\ LiveActionsLead'
  BY <1>1, <1>2 DEF IInv, ColumnsHaveATab, ColumnsAreUsed, LiveActionsLead
<1>5. CardsHaveAPlace'
  BY <1>1, <1>2 DEF IInv, CardsHaveAPlace, Exists
<1>6. RulesNameWhatThereIs'
  BY <1>1 DEF IInv, RulesNameWhatThereIs
<1>7. OpenCardsAreMembersWork' /\ ShelvedAtRest'
  BY <1>1 DEF IInv, OpenCardsAreMembersWork, ShelvedAtRest, Open
<1> QED
  BY <1>2, <1>3, <1>4, <1>5, <1>6, <1>7 DEF IInv

LEMMA Invariance == Spec => []IInv
<1>1. Init => IInv
  BY InitHolds
<1>2. IInv /\ [Next]_vars => IInv'
  BY CardStepsKeep, BoardStepsKeep, NothingHappens DEF Next
<1> QED
  BY <1>1, <1>2, PTL DEF Spec

\* Whatever the board and its people go through, the records keep their types.
THEOREM TypeCorrect == Spec => []TypeOK
<1>1. IInv => TypeOK
  BY DEF IInv
<1> QED
  BY <1>1, Invariance, PTL

\* No card and no rule of the board names a tab, a column, a card or a member
\* that is gone, on boards of any size.
THEOREM PlacesHold == Spec => []NothingDangles
<1>1. IInv => NothingDangles
  BY DEF IInv, NothingDangles
<1> QED
  BY <1>1, Invariance, PTL

\* Open cards are members' work and none is shelved, on boards of any size.
THEOREM WorkHolds == Spec => []WorkIsInHand
<1>1. IInv => WorkIsInHand
  BY DEF IInv, WorkIsInHand
<1> QED
  BY <1>1, Invariance, PTL

-----------------------------------------------------------------------------
\* What a moved card and all the others are after the move.
LEMMA PlacedCards ==
    ASSUME IInv, NEW p \in Cards, Movable(p), NEW k, Placed(p, k)
    PROVE  /\ card'[p] = k
           /\ \A c \in Cards \ {p} :
                 /\ card'[c].people = card[c].people
                 /\ card'[c].column = card[c].column
                 /\ card'[c].parent = card[c].parent
                 /\ card'[c].task = card[c].task
                 /\ card'[c].asked = card[c].asked
                 /\ card[c].parent # p => card'[c] = card[c]
<1>1. Subtasks(p) \subseteq Cards \ {p}
  BY BoardAssumption DEF Subtasks, Cards, Movable
<1>2. /\ card'[p] = k
      /\ \A c \in Subtasks(p) : card'[c] = [card[c] EXCEPT !.home = k.home]
      /\ \A c \in Cards \ (Subtasks(p) \cup {p}) : card'[c] = card[c]
  BY <1>1 DEF Placed, TakenAlong
<1>3. \A c \in Cards : card[c] \in Card
  BY CardsAre
<1>4. ASSUME NEW c \in Subtasks(p)
      PROVE  /\ [card[c] EXCEPT !.home = k.home].people = card[c].people
             /\ [card[c] EXCEPT !.home = k.home].column = card[c].column
             /\ [card[c] EXCEPT !.home = k.home].parent = card[c].parent
             /\ [card[c] EXCEPT !.home = k.home].task = card[c].task
             /\ [card[c] EXCEPT !.home = k.home].asked = card[c].asked
  BY <1>1, <1>3 DEF Card
<1>5. \A c \in Cards \ {p} : c \in Subtasks(p) <=> card[c].parent = p
  BY DEF Subtasks
<1> QED
  BY <1>2, <1>4, <1>5

\* Where a card stands is told by its record and the first column of its tab.
LEMMA StandsInWork ==
    ASSUME NEW k, k.task = "IN_PROGRESS"
    PROVE  Standing(k) = IF k.parent # None THEN None ELSE WorkingColumn(k)
BY DEF Standing

\* A move changes the people of the card it moves, with a new version of it,
\* and writes where it goes.
LEMMA MovesTell ==
    ASSUME IInv, NEW p \in Cards,
           \/ \E col \in Columns : MoveCard(p, col)
           \/ \E a \in Actions : RunAction(p, a)
    PROVE  /\ Movable(p) /\ \E k : Placed(p, k)
           /\ card'[p].people # card[p].people => card[p].version < card'[p].version
           /\ card'[p].column = card'[p].stay /\ card'[p].column # None
           /\ card'[p].parent = None
           /\ card'[p].task = card[p].task /\ card'[p].asked = card[p].asked
<1>1. TypeOK /\ card[p] \in Card /\ card[p].version \in Nat
  BY CardsAre DEF IInv, Card
<1>2. ASSUME NEW col \in Columns, MoveCard(p, col)
      PROVE  /\ Movable(p) /\ \E k : Placed(p, k)
             /\ card'[p].people # card[p].people => card[p].version < card'[p].version
             /\ card'[p].column = card'[p].stay /\ card'[p].column # None
             /\ card'[p].parent = None
             /\ card'[p].task = card[p].task /\ card'[p].asked = card[p].asked
  <2> DEFINE k == Entered(card[p], col)
             edited == k.people # card[p].people
  <2>1. Movable(p) /\ home[col] # None /\ Placed(p, Stepped(k, edited)) /\ card[p].parent = None
    BY <1>2 DEF MoveCard, Movable
  <2>2. /\ k \in Card
        /\ k = [card[p] EXCEPT !.column = col, !.home = home[col], !.stay = col,
                               !.people = PinTarget(col, card[p].people)]
    BY <1>1, <2>1, EnteredCard
  <2>3. /\ k.column = col /\ k.stay = col /\ k.parent = None /\ k.version = card[p].version
        /\ k.task = card[p].task /\ k.asked = card[p].asked
    BY <1>1, <2>1, <2>2 DEF Card
  <2> HIDE DEF k
  <2>4. edited \in BOOLEAN
    OBVIOUS
  <2>5. edited <=> k.people # card[p].people
    OBVIOUS
  <2> HIDE DEF edited
  <2>6. card'[p] = Stepped(k, edited)
    BY <2>1, PlacedCards
  <2>7. /\ card'[p].people = k.people /\ card'[p].column = col /\ card'[p].stay = col
        /\ card'[p].parent = None
        /\ card'[p].task = card[p].task /\ card'[p].asked = card[p].asked
        /\ edited => card'[p].version = card[p].version + 1
    <3>1. /\ Stepped(k, edited).people = k.people /\ Stepped(k, edited).column = k.column
          /\ Stepped(k, edited).stay = k.stay /\ Stepped(k, edited).parent = k.parent
          /\ Stepped(k, edited).task = k.task /\ Stepped(k, edited).asked = k.asked
          /\ edited => Stepped(k, edited).version = k.version + 1
      BY <2>2, <2>4, SteppedCard
    <3> QED
      BY <2>3, <2>6, <3>1
  <2>8. edited => card[p].version < card'[p].version
    BY <1>1, <2>7, SMT
  <2> QED
    BY <2>1, <2>5, <2>7, <2>8, BoardAssumption
<1>3. ASSUME NEW a \in Actions, RunAction(p, a)
      PROVE  /\ Movable(p) /\ \E k : Placed(p, k)
             /\ card'[p].people # card[p].people => card[p].version < card'[p].version
             /\ card'[p].column = card'[p].stay /\ card'[p].column # None
             /\ card'[p].parent = None
             /\ card'[p].task = card[p].task /\ card'[p].asked = card[p].asked
  <2> DEFINE col == action[a].target
             k == Entered(card[p], col)
             people == Handed(a, k.people)
             h == [k EXCEPT !.people = people]
             edited == k.people # card[p].people \/ people # k.people
  <2>1. /\ Movable(p) /\ action[a].live /\ home[col] # None
        /\ Placed(p, Stepped(h, edited)) /\ card[p].parent = None
    BY <1>3 DEF RunAction, Movable
  <2>2. col \in Columns
    BY <1>1, <2>1 DEF IInv, TypeOK, LiveActionsLead
  <2> HIDE DEF col
  <2>3. /\ k \in Card
        /\ k = [card[p] EXCEPT !.column = col, !.home = home[col], !.stay = col,
                               !.people = PinTarget(col, card[p].people)]
    BY <1>1, <2>1, <2>2, EnteredCard
  <2>4. /\ k.column = col /\ k.stay = col /\ k.parent = None /\ k.version = card[p].version
        /\ k.task = card[p].task /\ k.asked = card[p].asked
        /\ k.people \in SUBSET People
    <3>1. k.column = col /\ k.stay = col /\ k.people \in SUBSET People
      BY <1>1, <2>1, <2>3 DEF Card
    <3>2. /\ k.parent = None /\ k.version = card[p].version
          /\ k.task = card[p].task /\ k.asked = card[p].asked
      BY <1>1, <2>1, <2>3 DEF Card
    <3> QED
      BY <3>1, <3>2
  <2> HIDE DEF k
  <2>5. people \in SUBSET People
    BY <1>1, <2>4, HandedPeople
  <2> HIDE DEF people
  <2>6. /\ h \in Card /\ h.column = col /\ h.stay = col /\ h.parent = None
        /\ h.version = card[p].version /\ h.people = people
        /\ h.task = card[p].task /\ h.asked = card[p].asked
    BY <2>3, <2>4, <2>5 DEF Card
  <2> HIDE DEF h
  <2>7. edited \in BOOLEAN /\ (people # card[p].people => edited)
    OBVIOUS
  <2> HIDE DEF edited
  <2>8. card'[p] = Stepped(h, edited)
    BY <2>1, PlacedCards
  <2>9. /\ card'[p].people = people /\ card'[p].column = col /\ card'[p].stay = col
        /\ card'[p].parent = None
        /\ card'[p].task = card[p].task /\ card'[p].asked = card[p].asked
        /\ edited => card'[p].version = card[p].version + 1
    BY <2>6, <2>7, <2>8, SteppedCard
  <2>10. edited => card[p].version < card'[p].version
    BY <1>1, <2>9, SMT
  <2> QED
    BY <2>1, <2>2, <2>7, <2>9, <2>10, BoardAssumption
<1> QED
  BY <1>2, <1>3

\* The other steps of cards, and what each leaves of a card that was there.
LEMMA OtherCardSteps ==
    ASSUME IInv, CardStep,
           \A p \in Cards : /\ \A col \in Columns : ~MoveCard(p, col)
                            /\ \A a \in Actions : ~RunAction(p, a),
           NEW c \in Cards, Exists(c)
    PROVE  /\ card'[c].people # card[c].people => card[c].version < card'[c].version
           /\ card'[c].home = card[c].home /\ card'[c].parent = card[c].parent
           /\ \/ card'[c].column = card[c].column
              \/ card'[c].column = WorkingColumn(card[c])
           /\ UNCHANGED structure
<1>1. TypeOK /\ card[c] \in Card /\ card[c].version \in Nat
  BY CardsAre DEF IInv, Card
<1>2. ASSUME NEW col \in Columns, NEW ids \in Choices, CreateCard(col, ids)
      PROVE  card'[c] = card[c] /\ UNCHANGED structure
  <2>1. Numbered + 1 # c
    BY <1>1, <1>2, FreeNumber DEF CreateCard, NewCard, IInv
  <2> QED
    BY <1>1, <1>2, <2>1 DEF CreateCard, NewCard, TypeOK
<1>3. ASSUME NEW p \in Cards, NEW ids \in Choices, CreateSubtask(p, ids)
      PROVE  /\ card'[c].people = card[c].people /\ card'[c].home = card[c].home
             /\ card'[c].parent = card[c].parent /\ card'[c].column = card[c].column
             /\ UNCHANGED structure
  <2> DEFINE n == Numbered + 1
             k == [NoCard EXCEPT !.task = "IN_PROGRESS", !.home = card[p].home,
                                 !.parent = p, !.people = ids, !.version = 1]
  <2>1. n \in Cards /\ card' = [card EXCEPT ![n] = k, ![p].asked = FALSE] /\ UNCHANGED structure
    BY <1>3 DEF CreateSubtask
  <2>2. n # c
    BY <1>1, <2>1, FreeNumber DEF IInv
  <2> HIDE DEF n, k
  <2>3. card'[c] = card[c] \/ card'[c] = [card[c] EXCEPT !.asked = FALSE]
    BY <1>1, <2>1, <2>2 DEF TypeOK
  <2> QED
    BY <1>1, <2>1, <2>3 DEF Card
<1>4. ASSUME NEW p \in Cards, NEW ids \in Choices, NEW version \in 1 .. MaxVersion,
             UpdateCard(p, version, ids)
      PROVE  /\ card'[c].home = card[c].home /\ card'[c].parent = card[c].parent
             /\ card'[c].column = card[c].column
             /\ card'[c].people # card[c].people => card[c].version < card'[c].version
             /\ UNCHANGED structure
  <2> DEFINE k == [card[c] EXCEPT !.people = ids, !.version = @ + 1]
  <2>1. (card'[c] = card[c] \/ card'[c] = k) /\ UNCHANGED structure
    BY <1>1, <1>4 DEF UpdateCard, TypeOK
  <2>2. /\ k.home = card[c].home /\ k.parent = card[c].parent /\ k.column = card[c].column
        /\ k.version = card[c].version + 1
    BY <1>1 DEF Card
  <2> HIDE DEF k
  <2>3. card[c].version < card[c].version + 1
    BY <1>1, SMT
  <2> QED
    BY <2>1, <2>2, <2>3
<1>5. ASSUME NEW p \in Cards, ReorderCard(p)
      PROVE  /\ card'[c].people = card[c].people /\ card'[c].home = card[c].home
             /\ card'[c].parent = card[c].parent
             /\ card'[c].column = card[c].column \/ card'[c].column = WorkingColumn(card[c])
             /\ UNCHANGED structure
  <2> DEFINE k == [card[c] EXCEPT !.column = WorkingColumn(card[c])]
  <2>1. (card'[c] = card[c] \/ card'[c] = k) /\ UNCHANGED structure
    BY <1>1, <1>5 DEF ReorderCard, TypeOK
  <2>2. /\ k.home = card[c].home /\ k.parent = card[c].parent /\ k.people = card[c].people
        /\ k.column = WorkingColumn(card[c])
    BY <1>1 DEF Card
  <2> HIDE DEF k
  <2> QED
    BY <2>1, <2>2
<1>6. ASSUME NEW p \in Cards, CompleteCard(p) \/ CancelCard(p) \/ ReopenCard(p)
      PROVE  /\ card'[c].people = card[c].people /\ card'[c].home = card[c].home
             /\ card'[c].parent = card[c].parent /\ card'[c].column = card[c].column
             /\ UNCHANGED structure
  <2>1. UNCHANGED structure
    BY <1>6 DEF CompleteCard, CancelCard, ReopenCard
  <2>2. card[p].task # "none"
    BY <1>6 DEF CompleteCard, CancelCard, ReopenCard, Open
  <2>3. card[p].parent # p
    BY <2>2, NoOwnParent
  <2>4. \/ \E t, s : card'[c] = [card[c] EXCEPT !.task = t, !.stay = s]
        \/ \E b : card'[c] = [card[c] EXCEPT !.asked = b]
        \/ card'[c] = card[c]
    <3>1. CASE CompleteCard(p)
      BY <2>3, <3>1 DEF CompleteCard, Closed
    <3>2. CASE CancelCard(p)
      BY <2>3, <3>2 DEF CancelCard, Closed
    <3>3. CASE ReopenCard(p)
      BY <2>3, <3>3 DEF ReopenCard
    <3> QED
      BY <1>6, <3>1, <3>2, <3>3
  <2> QED
    BY <1>1, <2>1, <2>4 DEF Card
<1> QED
  BY <1>2, <1>3, <1>4, <1>5, <1>6 DEF CardStep

\* No step of the board changes a card, but for the column of a closed one.
LEMMA BoardStepsLeaveCards ==
    ASSUME IInv, BoardStep, NEW c \in Cards
    PROVE  /\ card'[c].people = card[c].people /\ card'[c].home = card[c].home
           /\ card'[c].parent = card[c].parent
           /\ \/ UNCHANGED card
              \/ \E col \in Columns : DeleteColumn(col)
<1>1. card[c] \in Card
  BY CardsAre
<1>2. CASE \E col \in Columns : DeleteColumn(col)
  <2>1. PICK col \in Columns : DeleteColumn(col)
    BY <1>2
  <2>2. card'[c] = IF card[c].column = col THEN [card[c] EXCEPT !.column = None] ELSE card[c]
    BY <2>1 DEF DeleteColumn
  <2> QED
    BY <1>1, <1>2, <2>2 DEF Card
<1>3. CASE ~\E col \in Columns : DeleteColumn(col)
  <2>1. UNCHANGED card
    BY <1>3 DEF BoardStep, CreateSubBoard, DeleteSubBoard, CreateColumn, MoveColumn, SetColumnPins,
                SetAction, ArchiveAction, AddMember, RemoveMember, SwitchAccount, ArchiveBoard,
                RestoreBoard, cardVars
  <2> QED
    BY <2>1
<1> QED
  BY <1>2, <1>3

-----------------------------------------------------------------------------
(* Whoever works on a card is asked once its subtasks are done              *)

\* All the subtasks of an open card are closed, and one of them is done.
SubtasksDone(c) ==
    /\ Open(c)
    /\ \E d \in Subtasks(c) : card[d].task = "COMPLETED"
    /\ \A d \in Subtasks(c) : ~Open(d)

\* A step that changes no task, no parent and no answer.
LEMMA SameWorkKeepsAsked ==
    ASSUME AskedWhenSubtasksDone, returned' = returned,
           \A c \in Cards : /\ card'[c].task = card[c].task
                            /\ card'[c].parent = card[c].parent
                            /\ card'[c].asked = card[c].asked
    PROVE  AskedWhenSubtasksDone'
<1>1. ASSUME NEW c \in Cards
      PROVE  (Open(c)' <=> Open(c)) /\ Subtasks(c)' = Subtasks(c)
  BY DEF Open, Subtasks
<1>2. \A c \in Cards : SubtasksDone(c)' => SubtasksDone(c)
  BY <1>1 DEF SubtasksDone, Subtasks, Open
<1> QED
  BY <1>2 DEF AskedWhenSubtasksDone, SubtasksDone

\* A new card owes its own card an answer before anybody is asked.
LEMMA NewCardKeepsAsked ==
    ASSUME IInv, AskedWhenSubtasksDone, returned' = returned,
           NEW n \in Cards, ~Exists(n), card'[n].task = "IN_PROGRESS",
           NEW up \in Cards \cup {None}, card'[n].parent = up,
           \A c \in Cards \ {n} : /\ card'[c].task = card[c].task
                                  /\ card'[c].parent = card[c].parent
                                  /\ c # up => card'[c].asked = card[c].asked
    PROVE  AskedWhenSubtasksDone'
<1>1. card[n].task = "none"
  BY DEF Exists
<1>2. ~SubtasksDone(n)'
  <2>1. ASSUME NEW d \in Cards, card'[d].parent = n, card'[d].task = "COMPLETED"
        PROVE  FALSE
    <3>1. card[d].parent = n /\ card[d].task # "none" /\ n # None
      BY <2>1, BoardAssumption DEF Cards
    <3> QED
      BY <1>1, <3>1, CardsAre
  <2> QED
    BY <2>1 DEF SubtasksDone, Subtasks
<1>3. ~SubtasksDone(up)'
  BY DEF SubtasksDone, Subtasks, Open
<1>4. ASSUME NEW c \in Cards \ {n, up}, SubtasksDone(c)'
      PROVE  SubtasksDone(c)
  <2>1. \A d \in Cards : card'[d].parent = c => d # n
    BY <1>4
  <2>2. Open(c) /\ \E d \in Subtasks(c) : card[d].task = "COMPLETED"
    BY <1>4, <2>1 DEF SubtasksDone, Subtasks, Open
  <2>3. \A d \in Subtasks(c) : ~Open(d)
    BY <1>1, <1>4, <2>1 DEF SubtasksDone, Subtasks, Open
  <2> QED
    BY <2>2, <2>3 DEF SubtasksDone
<1>5. ASSUME NEW c \in Cards \ returned', SubtasksDone(c)'
      PROVE  card'[c].asked
  <2>1. c \in Cards \ {n, up}
    BY <1>2, <1>3, <1>5
  <2>2. SubtasksDone(c)
    BY <1>4, <1>5, <2>1
  <2> QED
    BY <1>5, <2>1, <2>2 DEF AskedWhenSubtasksDone, SubtasksDone
<1> QED
  BY <1>5 DEF AskedWhenSubtasksDone, SubtasksDone

\* The last subtask to close asks.
LEMMA ClosedKeepsAsked ==
    ASSUME IInv, AskedWhenSubtasksDone, returned' = returned,
           NEW p \in Cards, Open(p), NEW task \in {"COMPLETED", "CANCELLED"}, NEW stay,
           card' = Closed(p, task, stay), NEW up, up = card[p].parent
    PROVE  AskedWhenSubtasksDone'
<1>1. \A c \in Cards : card[c] \in Card
  BY CardsAre
<1>2. up # p
  BY NoOwnParent DEF Open
<1>3. /\ card'[p] = [card[p] EXCEPT !.task = task, !.stay = IF @ = None THEN None ELSE stay]
      /\ \A c \in Cards \ {p, up} : card'[c] = card[c]
      /\ up \in Cards => card'[up] = [card[up] EXCEPT !.asked = @ \/ AllSubtasksDone(p, task)]
  BY <1>2 DEF Closed
<1>4. card'[p].task = task /\ card'[p].parent = up /\ card'[p].asked = card[p].asked
  BY <1>1, <1>3 DEF Card
<1>5. up \in Cards => /\ card'[up].task = card[up].task /\ card'[up].parent = card[up].parent
                     /\ card'[up].asked = (card[up].asked \/ AllSubtasksDone(p, task))
  BY <1>1, <1>3 DEF Card
<1>6. \A c \in Cards : /\ card'[c].parent = card[c].parent
                       /\ c # p => card'[c].task = card[c].task
  BY <1>2, <1>3, <1>4, <1>5
<1>7. \A c \in Cards : Subtasks(c)' = Subtasks(c)
  BY <1>6 DEF Subtasks
<1>8. ~SubtasksDone(p)'
  BY <1>4 DEF SubtasksDone, Open
<1>9. ASSUME NEW c \in Cards \ {p, up}, SubtasksDone(c)'
      PROVE  SubtasksDone(c) /\ card'[c].asked = card[c].asked
  <2>1. p \notin Subtasks(c)
    BY <1>9 DEF Subtasks
  <2> QED
    BY <1>3, <1>6, <1>7, <1>9, <2>1 DEF SubtasksDone, Open, Subtasks
<1>10. ASSUME up \in Cards, SubtasksDone(up)'
       PROVE  AllSubtasksDone(p, task)
  <2>1. Open(up) /\ Subtasks(up)' = Subtasks(up)
    BY <1>5, <1>7, <1>10 DEF SubtasksDone, Open
  <2>2. \A d \in Subtasks(up) \ {p} : ~Open(d)
    BY <1>6, <1>10, <2>1 DEF SubtasksDone, Open, Subtasks
  <2>3. task = "COMPLETED" \/ \E d \in Subtasks(up) \ {p} : card[d].task = "COMPLETED"
    BY <1>4, <1>6, <1>10, <2>1 DEF SubtasksDone, Subtasks
  <2> QED
    BY <2>1, <2>2, <2>3 DEF AllSubtasksDone
<1>11. ASSUME NEW c \in Cards \ returned', SubtasksDone(c)'
       PROVE  card'[c].asked
  <2>1. CASE c = up
    BY <1>5, <1>10, <1>11, <2>1
  <2>2. CASE c # up
    <3>1. c # p
      BY <1>8, <1>11
    <3> QED
      BY <1>9, <1>11, <2>2, <3>1 DEF AskedWhenSubtasksDone, SubtasksDone
  <2> QED
    BY <2>1, <2>2
<1> QED
  BY <1>11 DEF AskedWhenSubtasksDone, SubtasksDone

\* A subtask that is taken back into work takes the question back.
LEMMA ReopenedKeepsAsked ==
    ASSUME IInv, AskedWhenSubtasksDone, NEW p \in Cards, ReopenCard(p),
           NEW up, up = card[p].parent
    PROVE  AskedWhenSubtasksDone'
<1>1. \A c \in Cards : card[c] \in Card
  BY CardsAre
<1>2. up # p /\ returned' = returned \cup {p}
  BY NoOwnParent DEF ReopenCard
<1>3. /\ card'[p] = [card[p] EXCEPT !.task = "IN_PROGRESS",
                                   !.stay = IF @ = None THEN None ELSE WorkingColumn(card[p])]
      /\ \A c \in Cards \ {p, up} : card'[c] = card[c]
      /\ up \in Cards => card'[up] = [card[up] EXCEPT !.asked = FALSE]
  BY <1>2 DEF ReopenCard
<1>4. card'[p].task = "IN_PROGRESS" /\ card'[p].parent = up
  BY <1>1, <1>3 DEF Card
<1>5. up \in Cards => card'[up].task = card[up].task /\ card'[up].parent = card[up].parent
  BY <1>1, <1>3 DEF Card
<1>6. \A c \in Cards : /\ card'[c].parent = card[c].parent
                       /\ c # p => card'[c].task = card[c].task
  BY <1>2, <1>3, <1>4, <1>5
<1>7. ~SubtasksDone(up)'
  BY <1>4 DEF SubtasksDone, Subtasks, Open
<1>8. ASSUME NEW c \in Cards \ {p, up}, SubtasksDone(c)'
      PROVE  SubtasksDone(c) /\ card'[c] = card[c]
  <2>1. p \notin Subtasks(c)
    BY <1>8 DEF Subtasks
  <2>2. Subtasks(c)' = Subtasks(c)
    BY <1>6 DEF Subtasks
  <2> QED
    BY <1>3, <1>6, <1>8, <2>1, <2>2 DEF SubtasksDone, Open, Subtasks
<1>9. ASSUME NEW c \in Cards \ returned', SubtasksDone(c)'
      PROVE  card'[c].asked
  <2>1. c \in Cards \ {p, up}
    BY <1>2, <1>7, <1>9
  <2> QED
    BY <1>2, <1>8, <1>9, <2>1 DEF AskedWhenSubtasksDone, SubtasksDone
<1> QED
  BY <1>9 DEF AskedWhenSubtasksDone, SubtasksDone

LEMMA CardStepsKeepAsked ==
    ASSUME IInv, AskedWhenSubtasksDone, CardStep
    PROVE  AskedWhenSubtasksDone'
<1>1. TypeOK /\ \A c \in Cards : card[c] \in Card
  BY CardsAre DEF IInv
<1>2. ASSUME NEW col \in Columns, NEW ids \in Choices, CreateCard(col, ids)
      PROVE  AskedWhenSubtasksDone'
  <2> DEFINE n == Numbered + 1
             fresh == [NoCard EXCEPT !.task = "IN_PROGRESS", !.people = ids, !.version = 1]
             k == Entered(fresh, col)
  <2>1. n \in Cards /\ card' = [card EXCEPT ![n] = k] /\ returned' = returned
    BY <1>2 DEF CreateCard, NewCard
  <2>2. k.task = "IN_PROGRESS" /\ k.parent = None
    BY DEF Entered, NoCard
  <2>3. ~Exists(n)
    BY <1>1, <2>1, FreeNumber DEF IInv
  <2> HIDE DEF n, k
  <2>4. card'[n] = k /\ \A c \in Cards \ {n} : card'[c] = card[c]
    BY <1>1, <2>1 DEF TypeOK
  <2> QED
    BY <2>1, <2>2, <2>3, <2>4, NewCardKeepsAsked
<1>3. ASSUME NEW p \in Cards, NEW ids \in Choices, CreateSubtask(p, ids)
      PROVE  AskedWhenSubtasksDone'
  <2> DEFINE n == Numbered + 1
             k == [NoCard EXCEPT !.task = "IN_PROGRESS", !.home = card[p].home,
                                 !.parent = p, !.people = ids, !.version = 1]
  <2>1. /\ n \in Cards /\ card' = [card EXCEPT ![n] = k, ![p].asked = FALSE]
        /\ returned' = returned /\ card[p].task = "IN_PROGRESS"
    BY <1>3 DEF CreateSubtask, Open
  <2>2. k.task = "IN_PROGRESS" /\ k.parent = p
    BY DEF NoCard
  <2>3. ~Exists(n) /\ n # p
    BY <1>1, <2>1, FreeNumber DEF IInv, Exists
  <2> HIDE DEF n, k
  <2>4. card'[n] = k /\ card'[p] = [card[p] EXCEPT !.asked = FALSE]
        /\ \A c \in Cards \ {n, p} : card'[c] = card[c]
    BY <1>1, <2>1, <2>3 DEF TypeOK
  <2>5. card'[p].task = card[p].task /\ card'[p].parent = card[p].parent
    BY <1>1, <2>4 DEF Card
  <2>6. \A c \in Cards \ {n} : /\ card'[c].task = card[c].task
                               /\ card'[c].parent = card[c].parent
                               /\ c # p => card'[c].asked = card[c].asked
    BY <2>4, <2>5
  <2>7. card'[n].task = "IN_PROGRESS" /\ card'[n].parent = p
    BY <2>2, <2>4
  <2>8. n \in Cards /\ returned' = returned /\ ~Exists(n) /\ p \in Cards \cup {None}
    BY <2>1, <2>3
  <2> QED
    BY <2>6, <2>7, <2>8, NewCardKeepsAsked
<1>4. ASSUME NEW p \in Cards, NEW ids \in Choices, NEW version \in 1 .. MaxVersion,
             UpdateCard(p, version, ids)
      PROVE  AskedWhenSubtasksDone'
  <2>1. ASSUME NEW c \in Cards
        PROVE  /\ card'[c].task = card[c].task /\ card'[c].parent = card[c].parent
               /\ card'[c].asked = card[c].asked
    <3>1. card'[c] = card[c] \/ card'[c] = [card[c] EXCEPT !.people = ids, !.version = @ + 1]
      BY <1>1, <1>4 DEF UpdateCard, TypeOK
    <3> QED
      BY <1>1, <3>1 DEF Card
  <2>2. returned' = returned
    BY <1>4 DEF UpdateCard
  <2> QED
    BY <2>1, <2>2, SameWorkKeepsAsked
<1>5. ASSUME NEW p \in Cards, ReorderCard(p)
      PROVE  AskedWhenSubtasksDone'
  <2>1. ASSUME NEW c \in Cards
        PROVE  /\ card'[c].task = card[c].task /\ card'[c].parent = card[c].parent
               /\ card'[c].asked = card[c].asked
    <3>1. card'[c] = card[c] \/ card'[c] = [card[c] EXCEPT !.column = WorkingColumn(card[c])]
      BY <1>1, <1>5 DEF ReorderCard, TypeOK
    <3> QED
      BY <1>1, <3>1 DEF Card
  <2>2. returned' = returned
    BY <1>5 DEF ReorderCard
  <2> QED
    BY <2>1, <2>2, SameWorkKeepsAsked
<1>6. ASSUME NEW p \in Cards, \/ \E col \in Columns : MoveCard(p, col)
                              \/ \E a \in Actions : RunAction(p, a)
      PROVE  AskedWhenSubtasksDone'
  <2>1. /\ Movable(p) /\ \E k : Placed(p, k)
        /\ card'[p].parent = card[p].parent /\ card'[p].task = card[p].task
        /\ card'[p].asked = card[p].asked
    BY <1>6, MovesTell DEF Movable
  <2>2. returned' = returned
    BY <1>6 DEF MoveCard, RunAction
  <2>3. \A c \in Cards : /\ card'[c].task = card[c].task /\ card'[c].parent = card[c].parent
                         /\ card'[c].asked = card[c].asked
    BY <2>1, PlacedCards
  <2> QED
    BY <2>2, <2>3, SameWorkKeepsAsked
<1>7. ASSUME NEW p \in Cards, CompleteCard(p) \/ CancelCard(p)
      PROVE  AskedWhenSubtasksDone'
  <2>1. Open(p) /\ returned' = returned
    BY <1>7 DEF CompleteCard, CancelCard
  <2>2. card' = Closed(p, "COMPLETED", Done) \/ card' = Closed(p, "CANCELLED", None)
    BY <1>7 DEF CompleteCard, CancelCard
  <2> QED
    BY <2>1, <2>2, ClosedKeepsAsked
<1> QED
  BY <1>2, <1>3, <1>4, <1>5, <1>6, <1>7, ReopenedKeepsAsked DEF CardStep

LEMMA BoardStepsKeepAsked ==
    ASSUME IInv, AskedWhenSubtasksDone, BoardStep
    PROVE  AskedWhenSubtasksDone'
<1>1. \A c \in Cards : card[c] \in Card
  BY CardsAre
<1>2. returned' = returned
  BY DEF BoardStep, CreateSubBoard, DeleteSubBoard, CreateColumn, MoveColumn, DeleteColumn,
         SetColumnPins, SetAction, ArchiveAction, AddMember, RemoveMember, SwitchAccount,
         ArchiveBoard, RestoreBoard, cardVars
<1>3. ASSUME NEW c \in Cards
      PROVE  /\ card'[c].task = card[c].task /\ card'[c].parent = card[c].parent
             /\ card'[c].asked = card[c].asked
  <2>1. CASE \E col \in Columns : DeleteColumn(col)
    <3>1. PICK col \in Columns : DeleteColumn(col)
      BY <2>1
    <3>2. card'[c] = IF card[c].column = col THEN [card[c] EXCEPT !.column = None] ELSE card[c]
      BY <3>1 DEF DeleteColumn
    <3> QED
      BY <1>1, <3>2 DEF Card
  <2>2. CASE UNCHANGED card
    BY <2>2
  <2> QED
    BY <2>1, <2>2, BoardStepsLeaveCards
<1> QED
  BY <1>2, <1>3, SameWorkKeepsAsked

\* Once all the subtasks of a card are closed and one of them was done, those who
\* work on the card were asked whether it is, on boards of any size.
THEOREM AskedInTime == Spec => []AskedWhenSubtasksDone
<1>1. Init => AskedWhenSubtasksDone
  <2> SUFFICES ASSUME Init PROVE AskedWhenSubtasksDone
    OBVIOUS
  <2>1. \A c \in Cards : card[c].task = "none"
    BY DEF Init, NoCard
  <2> QED
    BY <2>1 DEF AskedWhenSubtasksDone, Open
<1>2. AskedWhenSubtasksDone /\ UNCHANGED vars => AskedWhenSubtasksDone'
  BY SameWorkKeepsAsked DEF vars, cardVars
<1>3. IInv /\ AskedWhenSubtasksDone /\ [Next]_vars => AskedWhenSubtasksDone'
  BY <1>2, CardStepsKeepAsked, BoardStepsKeepAsked DEF Next
<1> QED
  BY <1>1, <1>3, Invariance, PTL DEF Spec

\* Forms drawn before the people of a card changed go stale, whoever changed
\* them: no call puts back people it never saw.
THEOREM FormsStale == Spec => FormsGoStale
<1>1. ASSUME IInv, [Next]_vars, NEW c \in Cards, Exists(c), card[c].people # card[c].people'
      PROVE  card[c].version < card[c].version'
  <2>1. CASE \E p \in Cards : \/ \E col \in Columns : MoveCard(p, col)
                              \/ \E a \in Actions : RunAction(p, a)
    <3>1. PICK p \in Cards : \/ \E col \in Columns : MoveCard(p, col)
                             \/ \E a \in Actions : RunAction(p, a)
      BY <2>1
    <3>2. /\ Movable(p) /\ \E k : Placed(p, k)
          /\ card'[p].people # card[p].people => card[p].version < card'[p].version
      BY <1>1, <3>1, MovesTell
    <3>3. c = p
      BY <1>1, <3>2, PlacedCards
    <3> QED
      BY <1>1, <3>2, <3>3
  <2>2. CASE CardStep /\ ~\E p \in Cards : \/ \E col \in Columns : MoveCard(p, col)
                                           \/ \E a \in Actions : RunAction(p, a)
    BY <1>1, <2>2, OtherCardSteps
  <2>3. CASE BoardStep
    BY <1>1, <2>3, BoardStepsLeaveCards
  <2>4. CASE UNCHANGED vars
    BY <1>1, <2>4 DEF vars
  <2> QED
    BY <1>1, <2>1, <2>2, <2>3, <2>4 DEF Next
<1>2. IInv /\ [Next]_vars =>
        [\A c \in Cards : Exists(c) /\ card[c].people # card[c].people'
                          => card[c].version < card[c].version']_vars
  BY <1>1
<1> QED
  BY <1>2, Invariance, PTL DEF Spec, FormsGoStale

\* Where an open card stands is told by three of its fields and its tab.
LEMMA OpenCardStands ==
    ASSUME IInv, NEW c \in Cards, Open(c)
    PROVE  /\ Standing(card[c]) = IF card[c].parent # None THEN None ELSE WorkingColumn(card[c])
           /\ WorkingColumn(card[c]) = IF card[c].column # None THEN card[c].column
                                                                ELSE first[card[c].home]
           /\ WorkingColumn(card[c]) \in Columns
           /\ card[c].home \in Tabs
           /\ card[c].column # None => home[card[c].column] = card[c].home
<1>1. /\ card[c].home \in Tabs /\ card[c] \in Card
      /\ card[c].column # None => home[card[c].column] = card[c].home
  BY CardsAre DEF Open
<1>2. first[card[c].home] \in Columns
  BY <1>1 DEF Tabs, IInv, TypeOK
<1>3. card[c].column \in Columns \cup {None}
  BY <1>1 DEF Card
<1> QED
  BY <1>1, <1>2, <1>3 DEF Standing, WorkingColumn, Open

\* Taking a column of a tab away leaves every open card where it stands.
LEMMA DeletedColumnHadNoCard ==
    ASSUME IInv, NEW col \in Columns, DeleteColumn(col), NEW c \in Cards, Open(c), Open(c)'
    PROVE  Standing(card[c]) = Standing(card[c])'
<1>1. /\ OpenIn(col) = {} /\ home[col] # None
      /\ card'[c] = IF card[c].column = col THEN [card[c] EXCEPT !.column = None] ELSE card[c]
      /\ TypeOK
  BY DEF DeleteColumn, IInv
<1>2. Standing(card[c]) # col
  BY <1>1 DEF OpenIn, OpenCards
<1>3. card[c].column = col => card[c].parent # None
  BY <1>2, OpenCardStands, BoardAssumption
<1>4. card[c].column # col
  BY <1>3, CardsAre, BoardAssumption DEF Open
<1>5. card'[c] = card[c]
  BY <1>1, <1>4
<1>6. CASE card[c].parent # None
  BY <1>5, <1>6 DEF Standing
<1>7. CASE card[c].parent = None
  <2>1. card[c].column # None \/ first[card[c].home] # col
    BY <1>2, <1>7, OpenCardStands
  <2>2. CASE card[c].column # None
    BY <1>5, <2>2 DEF Standing, WorkingColumn
  <2>3. CASE first[card[c].home] # col
    <3>1. \/ first' = first
          \/ /\ first[home[col]] = col
             /\ \E other : first' = [first EXCEPT ![home[col]] = other]
      BY DEF DeleteColumn
    <3>2. first'[card[c].home] = first[card[c].home]
      BY <1>1, <2>3, <3>1, OpenCardStands DEF TypeOK, Tabs
    <3> QED
      BY <1>5, <3>2 DEF Standing, WorkingColumn
  <2> QED
    BY <2>1, <2>2, <2>3
<1> QED
  BY <1>6, <1>7

\* No other step of the board moves a card, but putting another column first.
LEMMA BoardStepsMoveNoCard ==
    ASSUME IInv, BoardStep, NEW c \in Cards, Open(c), Open(c)',
           Standing(card[c]) # Standing(card[c])'
    PROVE  card[c].column = None /\ UNCHANGED <<card, home>>
<1>1. /\ TypeOK /\ card[c].home \in Tabs /\ card[c].home \in SubBoards
  BY OpenCardStands DEF IInv, Tabs
<1>2. ~\E col \in Columns : DeleteColumn(col)
  BY DeletedColumnHadNoCard
<1>3. UNCHANGED card
  BY <1>2, BoardStepsLeaveCards
<1>4. card[c].parent = None /\ card[c].column = None
  BY <1>3 DEF Standing, WorkingColumn, Open
<1>5. first'[card[c].home] # first[card[c].home]
  BY <1>3 DEF Standing, WorkingColumn, Open
<1>6. ASSUME NEW s \in SubBoards, NEW cols \in SUBSET Columns, CreateSubBoard(s, cols)
      PROVE  FALSE
  <2>1. first[s] = None /\ \E col : first' = [first EXCEPT ![s] = col]
    BY <1>6 DEF CreateSubBoard
  <2>2. card[c].home # s
    BY <1>1, <2>1 DEF Tabs
  <2> QED
    BY <1>1, <1>5, <2>1, <2>2 DEF TypeOK
<1>7. ASSUME NEW s \in SubBoards, DeleteSubBoard(s)
      PROVE  FALSE
  BY <1>1, <1>5, <1>7 DEF DeleteSubBoard, TypeOK
<1>8. ASSUME NEW s \in SubBoards, NEW col \in Columns, MoveColumn(s, col)
      PROVE  UNCHANGED home
  BY <1>8 DEF MoveColumn
<1>9. \/ \E s \in SubBoards, cols \in SUBSET Columns : CreateSubBoard(s, cols)
      \/ \E s \in SubBoards : DeleteSubBoard(s)
      \/ \E s \in SubBoards, col \in Columns : MoveColumn(s, col)
      \/ UNCHANGED first
  BY <1>2 DEF BoardStep, CreateColumn, SetColumnPins, SetAction, ArchiveAction, AddMember,
              RemoveMember, SwitchAccount, ArchiveBoard, RestoreBoard, structure
<1> QED
  BY <1>3, <1>4, <1>5, <1>6, <1>7, <1>8, <1>9

\* An open card changes its column with an entry of its journal or because
\* the columns changed their order, whatever else happens to the board.
THEOREM MovesJournalled == Spec => MovesAreJournalled
<1>1. ASSUME IInv, IInv', [Next]_vars, NEW c \in Cards, Open(c), Open(c)',
             Standing(card[c]) # Standing(card[c])'
      PROVE  \/ card[c].stay' = Standing(card[c])'
             \/ card[c].column = None /\ UNCHANGED <<card, home>>
  <2> DEFINE Moves == \E p \in Cards : \/ \E col \in Columns : MoveCard(p, col)
                                       \/ \E a \in Actions : RunAction(p, a)
  <2>1. CASE Moves
    <3>1. PICK p \in Cards : \/ \E col \in Columns : MoveCard(p, col)
                             \/ \E a \in Actions : RunAction(p, a)
      BY <2>1
    <3>2. /\ Movable(p) /\ \E k : Placed(p, k)
          /\ card'[p].column = card'[p].stay /\ card'[p].column # None /\ card'[p].parent = None
      BY <1>1, <3>1, MovesTell
    <3>3. UNCHANGED structure
      BY <3>1 DEF MoveCard, RunAction
    <3>4. CASE c = p
      BY <1>1, <3>2, <3>4 DEF Standing, WorkingColumn, Open
    <3>5. CASE c # p
      <4>1. /\ card'[c].parent = card[c].parent
            /\ card[c].parent # p => card'[c] = card[c]
        BY <1>1, <3>2, <3>5, PlacedCards
      <4>2. card[c].parent # None => Standing(card[c]) = None /\ Standing(card[c])' = None
        BY <4>1 DEF Standing
      <4>3. card[c].parent # p
        BY <1>1, <4>2, BoardAssumption DEF Cards
      <4>4. Standing(card[c]) = Standing(card[c])'
        BY <3>3, <4>1, <4>3 DEF Standing, WorkingColumn, structure
      <4> QED
        BY <1>1, <4>4
    <3> QED
      BY <3>4, <3>5
  <2>2. CASE CardStep /\ ~Moves
    <3>1. /\ card'[c].home = card[c].home /\ card'[c].parent = card[c].parent
          /\ card'[c].column = card[c].column \/ card'[c].column = WorkingColumn(card[c])
          /\ first' = first
      BY <1>1, <2>2, OtherCardSteps DEF Exists, Open, structure
    <3>2. Standing(card[c])' = IF card'[c].parent # None THEN None
                               ELSE IF card'[c].column # None THEN card'[c].column
                               ELSE first[card'[c].home]
      BY <1>1, <3>1 DEF Standing, WorkingColumn, Open
    <3>3. WorkingColumn(card[c]) # None
      BY <1>1, OpenCardStands, BoardAssumption
    <3>4. Standing(card[c]) = Standing(card[c])'
      BY <1>1, <3>1, <3>2, <3>3, OpenCardStands
    <3> QED
      BY <1>1, <3>4
  <2>3. CASE BoardStep
    BY <1>1, <2>3, BoardStepsMoveNoCard
  <2>4. CASE UNCHANGED vars
    BY <1>1, <2>4 DEF vars, Standing, WorkingColumn
  <2> QED
    BY <1>1, <2>1, <2>2, <2>3, <2>4 DEF Next
<1>2. IInv /\ IInv' /\ [Next]_vars =>
        [\A c \in Cards :
          /\ Open(c) /\ Open(c)'
          /\ Standing(card[c]) # Standing(card[c])'
          => \/ card[c].stay' = Standing(card[c])'
             \/ card[c].column = None /\ UNCHANGED <<card, home>>]_vars
  BY <1>1
<1> QED
  BY <1>2, Invariance, PTL DEF Spec, MovesAreJournalled
=============================================================================
