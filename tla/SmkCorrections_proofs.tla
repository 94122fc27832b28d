------------------------ MODULE SmkCorrections_proofs ------------------------
(***************************************************************************)
(* Proofs about SmkCorrections: its invariants, and that a correction      *)
(* stores what was posted and leaves untouched work alone, for any number  *)
(* of people, measures, forms and files.  StoreEffect says what storing a  *)
(* form does, measure by measure; the other steps each have a short lemma  *)
(* or a case of their own.                                                 *)
(*                                                                         *)
(* And proofs about BoardOrder, which shares no state with it: the         *)
(* positions stay in range, and keep the list CardList asks for.           *)
(***************************************************************************)
EXTENDS SmkCorrections, BoardOrder, FiniteSetTheorems, SequenceTheorems,
        WellFoundedInduction, TLAPS

-----------------------------------------------------------------------------
(* What storing a form does                                                 *)

LEMMA FormShape ==
    ASSUME NEW ids \in SUBSET Ids, NEW post \in Forms(ids)
    PROVE  /\ \E n \in Nat : DOMAIN post = 1 .. n
           /\ \A n \in DOMAIN post : /\ n \in Nat
                                     /\ post[n].id \in ids \cup {NewRow}
                                     /\ post[n].what \in Instruction
  <1>1. PICK n \in 1 .. MaxRows : post \in [1 .. n -> [id : ids \cup {NewRow}, what : Instructions]]
    BY DEF Forms
  <1> QED BY <1>1, SmkAssumption

LEMMA NormalizedType == \A i \in Instruction : Normalized(i) \in StoredInstruction
  BY DEF Normalized, StoredInstruction, Instruction

LEMMA WorkTypes ==
    /\ \A i : HandedOut(i) \in [Batch -> TaskStates]
    /\ \A tasks \in [Batch -> TaskStates] : CancelledWork(tasks) \in [Batch -> TaskStates]
  BY DEF HandedOut, CancelledWork, TaskStates

\* The keys given out are new, and among those that count as written.
LEMMA FreshIds ==
    ASSUME written \in Nat, NEW ids \in SUBSET Ids, NEW post \in Forms(ids)
    PROVE  /\ Cardinality(CreatedRows(post)) \in Nat
           /\ \A n \in CreatedRows(post) :
                 NewId(CreatedRows(post), n)
                 \in written + 1 .. written + Cardinality(CreatedRows(post))
  <1> DEFINE created == CreatedRows(post)
  <1>1. IsFiniteSet(created)
    <2>1. PICK n \in Nat : DOMAIN post = 1 .. n
      BY FormShape
    <2>2. IsFiniteSet(1 .. n)
      BY FS_Interval
    <2> QED BY <2>1, <2>2, FS_Subset DEF CreatedRows
  <1>2. Cardinality(created) \in Nat
    BY <1>1, FS_CardinalityType
  <1>3. ASSUME NEW n \in created
        PROVE  NewId(created, n) \in written + 1 .. written + Cardinality(created)
    <2> DEFINE upTo == {k \in created : k <= n}
    <2>1. /\ IsFiniteSet(upTo)
          /\ Cardinality(upTo) <= Cardinality(created)
      BY <1>1, FS_Subset
    <2>2. Cardinality(upTo) \in Nat
      BY <2>1, FS_CardinalityType
    <2>3. n \in upTo
      BY FormShape DEF CreatedRows
    <2>4. Cardinality(upTo) # 0
      BY <2>1, <2>3, FS_EmptySet
    <2>5. NewId(created, n) = written + Cardinality(upTo)
      BY DEF NewId
    <2> HIDE DEF created, upTo
    <2> QED BY <2>1, <2>2, <2>4, <2>5, <1>2
  <1> QED BY <1>2, <1>3

\* What the measures and their tasks are after a form is stored.
Stored(post, fresh) ==
    /\ current' = KeptIds(post) \cup fresh
    /\ \A m \in fresh : /\ measure'[m] \in StoredInstruction
                        /\ work'[m] = HandedOut(measure'[m])
                        /\ m > written /\ m <= written'
    /\ \A m \in Ids \ fresh :
          /\ measure'[m] = measure[m]
          /\ m \in Replaced(post) => work'[m] = CancelledWork(work[m])
          /\ m \notin Replaced(post) => work'[m] = work[m]

LEMMA StoreEffect ==
    ASSUME TypeOK, NEW ids \in SUBSET Ids, NEW post \in Forms(ids), Store(post)
    PROVE  /\ written' \in Nat /\ written' >= written
           /\ measure' \in [Ids -> StoredInstruction \cup {None}]
           /\ work' \in [Ids -> [Batch -> TaskStates]]
           /\ UNCHANGED <<returned, fileVars>>
           /\ \E fresh \in SUBSET Ids : Stored(post, fresh)
  <1> DEFINE created == CreatedRows(post)
             fresh == {NewId(created, n) : n \in created}
             row(m) == CHOOSE n \in created : NewId(created, n) = m
  <1>1. /\ fresh \subseteq Ids
        /\ written' = written + Cardinality(created)
        /\ current' = KeptIds(post) \cup fresh
        /\ measure' = [m \in Ids |-> IF m \in fresh THEN Normalized(post[row(m)].what)
                                                    ELSE measure[m]]
        /\ work' = [m \in Ids |-> CASE m \in fresh -> HandedOut(measure'[m])
                                    [] m \in Replaced(post) \ fresh -> CancelledWork(work[m])
                                    [] OTHER -> work[m]]
        /\ UNCHANGED <<returned, fileVars>>
    BY DEF Store
  <1>2. \A m \in fresh : row(m) \in created
    OBVIOUS
  <1>3. \A m \in fresh : Normalized(post[row(m)].what) \in StoredInstruction
    <2>1. \A n \in created : Normalized(post[n].what) \in StoredInstruction
      BY FormShape, NormalizedType DEF CreatedRows
    <2> HIDE DEF created, fresh, row
    <2> QED BY <1>2, <2>1
  <1>4. /\ Cardinality(created) \in Nat
        /\ \A m \in fresh : m \in written + 1 .. written + Cardinality(created)
    BY FreshIds DEF TypeOK
  <1> HIDE DEF created, fresh, row
  <1>5. written \in Nat /\ measure \in [Ids -> StoredInstruction \cup {None}]
        /\ work \in [Ids -> [Batch -> TaskStates]]
    BY DEF TypeOK
  <1>6. \A m \in fresh : measure'[m] \in StoredInstruction
    BY <1>1, <1>3
  <1>7. measure' \in [Ids -> StoredInstruction \cup {None}]
    BY <1>1, <1>3, <1>5
  <1>8. \A m \in Ids :
           /\ m \in fresh => work'[m] = HandedOut(measure'[m])
           /\ m \in Replaced(post) /\ m \notin fresh => work'[m] = CancelledWork(work[m])
           /\ m \notin Replaced(post) /\ m \notin fresh => work'[m] = work[m]
    BY <1>1
  <1>9. work' \in [Ids -> [Batch -> TaskStates]]
    <2>1. \A m \in Ids : work'[m] \in [Batch -> TaskStates]
      BY <1>5, <1>8, WorkTypes
    <2>2. work' = [m \in Ids |-> work'[m]]
      BY <1>1
    <2> QED BY <2>1, <2>2
  <1>10. written' \in Nat /\ written' >= written /\ \A m \in fresh : m > written /\ m <= written'
    BY <1>1, <1>4, <1>5 DEF Ids
  <1>11. \A m \in Ids \ fresh : measure'[m] = measure[m]
    BY <1>1
  <1>12. Stored(post, fresh)
    BY <1>1, <1>6, <1>8, <1>10, <1>11 DEF Stored
  <1> QED BY <1>1, <1>7, <1>9, <1>10, <1>12

LEMMA KeptAreCurrent == \A post : KeptIds(post) \subseteq current
  BY DEF KeptIds, KeptRows, SameMeasure

-----------------------------------------------------------------------------
(* What the other steps do                                                  *)

\* Completion and return change the status of one task.
LEMMA SetWorkEffect ==
    ASSUME TypeOK, NEW t \in Tasks, NEW became \in TaskStates, SetWork(t, became)
    PROVE  /\ work' \in [Ids -> [Batch -> TaskStates]]
           /\ \A m \in Ids, b \in Batch :
                 work'[m][b] = IF <<m, b>> = t THEN became ELSE work[m][b]
  <1>1. PICK m0 \in Ids, b0 \in Batch : t = <<m0, b0>>
    BY DEF Tasks
  <1>2. work' = [work EXCEPT ![m0] = [work[m0] EXCEPT ![b0] = became]]
    BY <1>1 DEF SetWork
  <1>3. work \in [Ids -> [Batch -> TaskStates]]
    BY DEF TypeOK
  <1>4. [work[m0] EXCEPT ![b0] = became] \in [Batch -> TaskStates]
    BY <1>1, <1>3
  <1>5. work' \in [Ids -> [Batch -> TaskStates]]
    BY <1>2, <1>3, <1>4
  <1>6. ASSUME NEW m \in Ids, NEW b \in Batch
        PROVE  work'[m][b] = IF <<m, b>> = <<m0, b0>> THEN became ELSE work[m][b]
    <2>1. CASE m = m0
      BY <2>1, <1>1, <1>2, <1>3
    <2>2. CASE m # m0
      BY <2>2, <1>2, <1>3
    <2> QED BY <2>1, <2>2
  <1> QED BY <1>1, <1>5, <1>6

workVars == <<written, measure, current, work, returned>>

\* What a step may do to the record and its tasks: store a form, complete or
\* return a task, or nothing.
LEMMA StepsOfWork ==
    ASSUME TypeOK, [Next]_vars
    PROVE  \/ \E ids \in SUBSET Ids : \E post \in Forms(ids) : Store(post)
           \/ \E t \in Tasks : Complete(t) \/ Reopen(t)
           \/ UNCHANGED workVars
  <1>1. ASSUME NEW post \in Forms({}), Create(post)
        PROVE  \E ids \in SUBSET Ids : \E p \in Forms(ids) : Store(p)
    BY <1>1 DEF Create
  <1>2. ASSUME NEW e \in Editors, NEW post \in Forms(opened[e]), Save(e, post)
        PROVE  \E ids \in SUBSET Ids : \E p \in Forms(ids) : Store(p)
    BY <1>2 DEF Save, TypeOK
  <1>3. ASSUME NEW e \in Editors, OpenForm(e)
        PROVE  UNCHANGED workVars
    BY <1>3 DEF OpenForm, workVars, recordVars
  <1>4. CASE Archive
    BY <1>4 DEF Archive, workVars
  <1>5. ASSUME NEW f \in Files, NEW t \in Tasks, WriteFile(f, t)
        PROVE  UNCHANGED workVars
    BY <1>5 DEF WriteFile, workVars, recordVars
  <1>6. ASSUME NEW u \in uploading, AddRow(u) \/ DropUpload(u)
        PROVE  UNCHANGED workVars
    BY <1>6 DEF AddRow, DropUpload, workVars, recordVars
  <1>7. ASSUME NEW r \in rows, RemoveRow(r)
        PROVE  UNCHANGED workVars
    BY <1>7 DEF RemoveRow, workVars, recordVars
  <1>8. ASSUME NEW f \in unlinking, RemoveFile(f)
        PROVE  UNCHANGED workVars
    BY <1>8 DEF RemoveFile, workVars, recordVars
  <1>9. CASE UNCHANGED vars
    BY <1>9 DEF vars, recordVars, workVars
  <1> QED BY <1>1, <1>2, <1>3, <1>4, <1>5, <1>6, <1>7, <1>8, <1>9 DEF Next

-----------------------------------------------------------------------------
(* Types                                                                    *)

workTypes ==
    /\ written \in Nat
    /\ measure \in [Ids -> StoredInstruction \cup {None}]
    /\ current \in SUBSET {m \in Ids : measure[m] # None}
    /\ work \in [Ids -> [Batch -> TaskStates]]
    /\ returned \in SUBSET Tasks

LEMMA WorkTypesStay ==
    ASSUME TypeOK, [Next]_vars
    PROVE  workTypes'
  <1>1. ASSUME NEW ids \in SUBSET Ids, NEW post \in Forms(ids), Store(post)
        PROVE  workTypes'
    <2>1. PICK fresh \in SUBSET Ids : Stored(post, fresh)
      BY <1>1, StoreEffect
    <2>2. /\ written' \in Nat
          /\ measure' \in [Ids -> StoredInstruction \cup {None}]
          /\ work' \in [Ids -> [Batch -> TaskStates]]
          /\ returned' = returned
      BY <1>1, StoreEffect
    <2>3. None \notin StoredInstruction
      BY SmkAssumption DEF StoredInstruction
    <2>4. current' \in SUBSET {m \in Ids : measure'[m] # None}
      <3>1. KeptIds(post) \subseteq {m \in Ids : measure[m] # None}
        BY KeptAreCurrent DEF TypeOK
      <3>2. \A m \in fresh : measure'[m] # None
        BY <2>1, <2>3 DEF Stored
      <3>3. \A m \in Ids \ fresh : measure'[m] = measure[m]
        BY <2>1 DEF Stored
      <3>4. current' = KeptIds(post) \cup fresh
        BY <2>1 DEF Stored
      <3> QED BY <3>1, <3>2, <3>3, <3>4
    <2> QED BY <2>2, <2>4 DEF workTypes, TypeOK
  <1>2. ASSUME NEW t \in Tasks, Complete(t)
        PROVE  workTypes'
    <2>1. SetWork(t, "COMPLETED") /\ UNCHANGED <<recordVars, returned>>
      BY <1>2 DEF Complete
    <2>2. work' \in [Ids -> [Batch -> TaskStates]]
      BY <2>1, SetWorkEffect DEF TaskStates
    <2> QED BY <2>1, <2>2 DEF workTypes, TypeOK, recordVars
  <1>3. ASSUME NEW t \in Tasks, Reopen(t)
        PROVE  workTypes'
    <2>1. SetWork(t, "IN_PROGRESS") /\ UNCHANGED recordVars /\ returned' = returned \cup {t}
      BY <1>3 DEF Reopen
    <2>2. work' \in [Ids -> [Batch -> TaskStates]]
      BY <2>1, SetWorkEffect DEF TaskStates
    <2> QED BY <2>1, <2>2 DEF workTypes, TypeOK, recordVars
  <1>4. CASE UNCHANGED workVars
    BY <1>4 DEF workVars, workTypes, TypeOK
  <1> QED BY <1>1, <1>2, <1>3, <1>4, StepsOfWork

fileTypes ==
    /\ rows \in SUBSET Attachment /\ uploading \in SUBSET Attachment
    /\ stored \in SUBSET Files /\ unlinking \in SUBSET Files

\* The steps that touch attachments, and all others.
LEMMA StepsOfFiles ==
    ASSUME [Next]_vars
    PROVE  \/ \E f \in Files, t \in Tasks : WriteFile(f, t)
           \/ \E u \in uploading : AddRow(u) \/ DropUpload(u)
           \/ \E r \in rows : RemoveRow(r)
           \/ \E f \in unlinking : RemoveFile(f)
           \/ UNCHANGED fileVars
  <1>1. ASSUME NEW post, Store(post)
        PROVE  UNCHANGED fileVars
    BY <1>1 DEF Store
  <1>2. ASSUME NEW e \in Editors, OpenForm(e)
        PROVE  UNCHANGED fileVars
    BY <1>2 DEF OpenForm
  <1>3. CASE Archive
    BY <1>3 DEF Archive
  <1>4. ASSUME NEW t \in Tasks, Complete(t) \/ Reopen(t)
        PROVE  UNCHANGED fileVars
    BY <1>4 DEF Complete, Reopen
  <1>5. CASE UNCHANGED vars
    BY <1>5 DEF vars, fileVars
  <1> QED BY <1>1, <1>2, <1>3, <1>4, <1>5 DEF Next, Create, Save

LEMMA FileTypesStay ==
    ASSUME TypeOK, [Next]_vars
    PROVE  fileTypes'
  <1>1. ASSUME NEW f \in Files, NEW t \in Tasks, WriteFile(f, t)
        PROVE  fileTypes'
    BY <1>1 DEF WriteFile, TypeOK, fileTypes, Attachment
  <1>2. ASSUME NEW u \in uploading, AddRow(u) \/ DropUpload(u)
        PROVE  fileTypes'
    BY <1>2 DEF AddRow, DropUpload, TypeOK, fileTypes
  <1>3. ASSUME NEW r \in rows, RemoveRow(r)
        PROVE  fileTypes'
    BY <1>3 DEF RemoveRow, TypeOK, fileTypes, Attachment
  <1>4. ASSUME NEW f \in unlinking, RemoveFile(f)
        PROVE  fileTypes'
    BY <1>4 DEF RemoveFile, TypeOK, fileTypes
  <1>5. CASE UNCHANGED fileVars
    BY <1>5 DEF fileVars, TypeOK, fileTypes
  <1> QED BY <1>1, <1>2, <1>3, <1>4, <1>5, StepsOfFiles

pageTypes == status \in Statuses /\ opened \in [Editors -> SUBSET Ids]

LEMMA PageTypesStay ==
    ASSUME TypeOK, [Next]_vars
    PROVE  pageTypes'
  <1> USE DEF TypeOK, pageTypes, Statuses
  <1>1. ASSUME NEW post, Create(post)
        PROVE  pageTypes'
    BY <1>1 DEF Create
  <1>2. ASSUME NEW e \in Editors, NEW post, Save(e, post)
        PROVE  pageTypes'
    BY <1>2 DEF Save
  <1>3. ASSUME NEW e \in Editors, OpenForm(e)
        PROVE  pageTypes'
    BY <1>3 DEF OpenForm, recordVars
  <1>4. CASE Archive
    BY <1>4 DEF Archive
  <1>5. ASSUME NEW t \in Tasks, Complete(t) \/ Reopen(t)
        PROVE  pageTypes'
    BY <1>5 DEF Complete, Reopen, recordVars
  <1>6. ASSUME NEW f \in Files, NEW t \in Tasks, WriteFile(f, t)
        PROVE  pageTypes'
    BY <1>6 DEF WriteFile, recordVars
  <1>7. ASSUME NEW u \in uploading, AddRow(u) \/ DropUpload(u)
        PROVE  pageTypes'
    BY <1>7 DEF AddRow, DropUpload, recordVars
  <1>8. ASSUME NEW r \in rows, RemoveRow(r)
        PROVE  pageTypes'
    BY <1>8 DEF RemoveRow, recordVars
  <1>9. ASSUME NEW f \in unlinking, RemoveFile(f)
        PROVE  pageTypes'
    BY <1>9 DEF RemoveFile, recordVars
  <1>10. CASE UNCHANGED vars
    BY <1>10 DEF vars, recordVars
  <1> QED BY <1>1, <1>2, <1>3, <1>4, <1>5, <1>6, <1>7, <1>8, <1>9, <1>10 DEF Next

\* Every reachable state is well typed, and no measure is stored as split among
\* one person (update_smk_source).
THEOREM TypeCorrect == Spec => []TypeOK
  <1>1. Init => TypeOK
    BY SmkAssumption DEF Init, TypeOK, Statuses, TaskStates
  <1>2. ASSUME TypeOK, [Next]_vars
        PROVE  TypeOK'
    <2>1. workTypes' /\ fileTypes' /\ pageTypes'
      BY <1>2, WorkTypesStay, FileTypesStay, PageTypesStay
    <2> QED BY <2>1 DEF workTypes, fileTypes, pageTypes, TypeOK
  <1> QED BY <1>1, <1>2, PTL DEF Spec

-----------------------------------------------------------------------------
(* Measures and their tasks                                                 *)

\* Whatever was corrected, completed and returned, a measure of the record is
\* covered by exactly the tasks it asks for, none of them cancelled
\* (update_smk_source cancels the tasks of replaced measures only).
THEOREM MeasuresAreCovered == Spec => []CoveredOnce
  <1>1. Init => CoveredOnce
    BY DEF Init, CoveredOnce
  <1>2. ASSUME TypeOK, CoveredOnce, [Next]_vars
        PROVE  CoveredOnce'
    <2>1. ASSUME NEW ids \in SUBSET Ids, NEW post \in Forms(ids), Store(post)
          PROVE  CoveredOnce'
      <3>1. PICK fresh \in SUBSET Ids : Stored(post, fresh)
        BY <1>2, <2>1, StoreEffect
      <3>2. ASSUME NEW m \in fresh, NEW b \in Batch
            PROVE  IF b \in Batches(measure'[m])
                   THEN work'[m][b] \in {"IN_PROGRESS", "COMPLETED"}
                   ELSE work'[m][b] = "none"
        <4>1. work'[m] = HandedOut(measure'[m])
          BY <3>1 DEF Stored
        <4> QED BY <4>1 DEF HandedOut
      <3>3. ASSUME NEW m \in KeptIds(post), m \notin fresh
            PROVE  m \in current /\ measure'[m] = measure[m] /\ work'[m] = work[m]
        BY <1>2, <3>1, <3>3, KeptAreCurrent DEF Stored, Replaced, TypeOK
      <3>4. current' = KeptIds(post) \cup fresh
        BY <3>1 DEF Stored
      <3> QED BY <1>2, <3>2, <3>3, <3>4 DEF CoveredOnce, Batches
    <2>2. ASSUME NEW t \in Tasks, Complete(t)
          PROVE  CoveredOnce'
      <3>1. /\ SetWork(t, "COMPLETED") /\ measure' = measure /\ current' = current
            /\ InProgress(t)
        BY <2>2 DEF Complete, recordVars
      <3>2. \A m \in Ids, b \in Batch :
               work'[m][b] = IF <<m, b>> = t THEN "COMPLETED" ELSE work[m][b]
        BY <1>2, <3>1, SetWorkEffect DEF TaskStates
      <3>3. current \subseteq Ids
        BY <1>2 DEF TypeOK
      <3>4. \A m \in Ids, b \in Batch : <<m, b>> = t => work[m][b] = "IN_PROGRESS"
        BY <3>1 DEF InProgress
      <3> QED BY <1>2, <3>1, <3>2, <3>3, <3>4 DEF CoveredOnce
    <2>3. ASSUME NEW t \in Tasks, Reopen(t)
          PROVE  CoveredOnce'
      <3>1. /\ SetWork(t, "IN_PROGRESS") /\ measure' = measure /\ current' = current
            /\ work[t[1]][t[2]] = "COMPLETED"
        BY <2>3 DEF Reopen, recordVars
      <3>2. \A m \in Ids, b \in Batch :
               work'[m][b] = IF <<m, b>> = t THEN "IN_PROGRESS" ELSE work[m][b]
        BY <1>2, <3>1, SetWorkEffect DEF TaskStates
      <3>3. current \subseteq Ids
        BY <1>2 DEF TypeOK
      <3>4. \A m \in Ids, b \in Batch : <<m, b>> = t => work[m][b] = "COMPLETED"
        BY <3>1
      <3> QED BY <1>2, <3>1, <3>2, <3>3, <3>4 DEF CoveredOnce
    <2>4. CASE UNCHANGED workVars
      BY <1>2, <2>4 DEF workVars, CoveredOnce, Batches
    <2> QED BY <1>2, <2>1, <2>2, <2>3, <2>4, StepsOfWork
  <1> QED BY <1>1, <1>2, TypeCorrect, PTL DEF Spec

\* An open task of a measure that left the record was returned to work once:
\* nothing else escapes cancel_smk_action_tasks.
THEOREM ReplacedWorkEnds == Spec => []ReplacedWorkIsWithdrawn
  <1>1. Init => ReplacedWorkIsWithdrawn
    BY DEF Init, ReplacedWorkIsWithdrawn, InProgress, Tasks
  <1>2. ASSUME TypeOK, ReplacedWorkIsWithdrawn, [Next]_vars
        PROVE  ReplacedWorkIsWithdrawn'
    <2>1. ASSUME NEW ids \in SUBSET Ids, NEW post \in Forms(ids), Store(post)
          PROVE  ReplacedWorkIsWithdrawn'
      <3>1. PICK fresh \in SUBSET Ids : Stored(post, fresh)
        BY <1>2, <2>1, StoreEffect
      <3>2. returned' = returned
        BY <1>2, <2>1, StoreEffect
      <3>3. ASSUME NEW m \in Ids, NEW b \in Batch,
                   m \notin current', work'[m][b] = "IN_PROGRESS"
            PROVE  <<m, b>> \in returned
        <4>1. m \notin fresh /\ m \notin KeptIds(post)
          BY <3>1, <3>3 DEF Stored
        <4>2. m \notin Replaced(post)
          <5>1. SUFFICES ASSUME m \in Replaced(post) PROVE FALSE
            OBVIOUS
          <5>2. work'[m] = CancelledWork(work[m])
            BY <3>1, <4>1, <5>1 DEF Stored
          <5> QED BY <3>3, <5>2 DEF CancelledWork
        <4>3. m \notin current /\ work'[m] = work[m]
          BY <3>1, <4>1, <4>2 DEF Stored, Replaced
        <4> QED BY <1>2, <3>3, <4>3 DEF ReplacedWorkIsWithdrawn, InProgress, Tasks
      <3> QED BY <3>2, <3>3 DEF ReplacedWorkIsWithdrawn, InProgress, Tasks
    <2>2. ASSUME NEW t \in Tasks, Complete(t)
          PROVE  ReplacedWorkIsWithdrawn'
      <3>1. SetWork(t, "COMPLETED") /\ current' = current /\ returned' = returned
        BY <2>2 DEF Complete, recordVars
      <3>2. \A m \in Ids, b \in Batch :
               work'[m][b] = IF <<m, b>> = t THEN "COMPLETED" ELSE work[m][b]
        BY <1>2, <3>1, SetWorkEffect DEF TaskStates
      <3> QED BY <1>2, <3>1, <3>2 DEF ReplacedWorkIsWithdrawn, InProgress, Tasks
    <2>3. ASSUME NEW t \in Tasks, Reopen(t)
          PROVE  ReplacedWorkIsWithdrawn'
      <3>1. SetWork(t, "IN_PROGRESS") /\ current' = current /\ returned' = returned \cup {t}
        BY <2>3 DEF Reopen, recordVars
      <3>2. \A m \in Ids, b \in Batch :
               work'[m][b] = IF <<m, b>> = t THEN "IN_PROGRESS" ELSE work[m][b]
        BY <1>2, <3>1, SetWorkEffect DEF TaskStates
      <3> QED BY <1>2, <3>1, <3>2 DEF ReplacedWorkIsWithdrawn, InProgress, Tasks
    <2>4. CASE UNCHANGED workVars
      BY <1>2, <2>4 DEF workVars, ReplacedWorkIsWithdrawn, InProgress
    <2> QED BY <1>2, <2>1, <2>2, <2>3, <2>4, StepsOfWork
  <1> QED BY <1>1, <1>2, TypeCorrect, PTL DEF Spec

-----------------------------------------------------------------------------
(* Untouched work                                                           *)

\* No measure of the record has a key that is still to be given out.
Numbered == \A m \in current : m <= written

LEMMA KeysAreNew == Spec => []Numbered
  <1>1. Init => Numbered
    BY DEF Init, Numbered
  <1>2. ASSUME TypeOK, Numbered, [Next]_vars
        PROVE  Numbered'
    <2>1. ASSUME NEW ids \in SUBSET Ids, NEW post \in Forms(ids), Store(post)
          PROVE  Numbered'
      <3>1. PICK fresh \in SUBSET Ids : Stored(post, fresh)
        BY <1>2, <2>1, StoreEffect
      <3>2. written' \in Nat /\ written' >= written /\ written \in Nat /\ current \subseteq Ids
        BY <1>2, <2>1, StoreEffect DEF TypeOK
      <3>3. \A m \in KeptIds(post) : m \in Ids /\ m <= written
        BY <1>2, <3>2, KeptAreCurrent DEF Numbered
      <3>4. \A m \in fresh : m <= written'
        BY <3>1 DEF Stored
      <3>5. current' = KeptIds(post) \cup fresh
        BY <3>1 DEF Stored
      <3>7. \A m \in KeptIds(post) : m \in Nat /\ m <= written'
        BY <3>2, <3>3 DEF Ids
      <3> QED BY <3>4, <3>5, <3>7 DEF Numbered
    <2>2. ASSUME NEW t \in Tasks, Complete(t) \/ Reopen(t)
          PROVE  Numbered'
      BY <1>2, <2>2 DEF Complete, Reopen, recordVars, Numbered
    <2>3. CASE UNCHANGED workVars
      BY <1>2, <2>3 DEF workVars, Numbered
    <2> QED BY <1>2, <2>1, <2>2, <2>3, StepsOfWork
  <1> QED BY <1>1, <1>2, TypeCorrect, PTL DEF Spec

\* A row that posts a current measure as it is keeps it.
LEMMA SomeRowKeeps ==
    ASSUME NEW ids \in SUBSET Ids, NEW post \in Forms(ids),
           NEW n \in DOMAIN post, SameMeasure(post[n])
    PROVE  post[n].id \in KeptIds(post)
  <1> DEFINE claims(k) == k \in DOMAIN post /\ SameMeasure(post[k]) /\ post[k].id = post[n].id
             claimants == {k \in DOMAIN post : claims(k)}
  <1>1. PICK size \in Nat : DOMAIN post = 1 .. size
    BY FormShape
  <1>2. claimants \subseteq Nat /\ claimants # {}
    BY <1>1
  <1>3. PICK first \in claimants : \A k \in claimants : first <= k
    <2>1. PICK k0 \in claimants :
             \A k \in claimants : <<k, k0>> \notin OpToRel(<, Nat)
      BY <1>2, WFMin, NatLessThanWellFounded, Zenon
    <2>2. \A k \in claimants : ~(k < k0)
      BY <1>2, <2>1 DEF OpToRel
    <2> QED BY <1>2, <2>2
  <1>4. first \in KeptRows(post)
    BY <1>1, <1>3 DEF KeptRows
  <1> QED BY <1>3, <1>4 DEF KeptIds

\* A correction that posts a current measure as it is, in whatever row, keeps the
\* measure and its tasks (update_smk_source compares fingerprints by key).
THEOREM UntouchedWorkIsKept == Spec => UntouchedWorkStays
  <1>1. ASSUME TypeOK, Numbered,
               NEW e \in Editors, NEW post \in Forms(opened[e]), Save(e, post),
               NEW n \in DOMAIN post,
               post[n].id \in current,
               measure[post[n].id] = Normalized(post[n].what)
        PROVE  post[n].id \in current' /\ work'[post[n].id] = work[post[n].id]
    <2>1. opened[e] \in SUBSET Ids /\ Store(post)
      BY <1>1 DEF TypeOK, Save
    <2>2. PICK fresh \in SUBSET Ids : Stored(post, fresh)
      BY <1>1, <2>1, StoreEffect
    <2>3. post[n].id \in KeptIds(post)
      BY <1>1, <2>1, SomeRowKeeps DEF SameMeasure
    <2>4. post[n].id \in Ids /\ written \in Nat
      BY <1>1 DEF TypeOK
    <2>5. post[n].id \notin fresh
      <3>1. post[n].id <= written
        BY <1>1 DEF Numbered
      <3>2. \A m \in fresh : m > written
        BY <2>2 DEF Stored
      <3> QED BY <2>4, <3>1, <3>2 DEF Ids
    <2>6. post[n].id \notin Replaced(post)
      BY <2>3 DEF Replaced
    <2> QED BY <2>2, <2>3, <2>4, <2>5, <2>6 DEF Stored
  <1>2. TypeOK /\ Numbered /\ [Next]_vars =>
           [\A e \in Editors : \A post \in Forms(opened[e]) :
               Save(e, post) =>
                   \A n \in DOMAIN post :
                       LET m == post[n].id
                       IN  m \in current /\ measure[m] = Normalized(post[n].what)
                           => m \in current' /\ work'[m] = work[m]]_vars
    BY <1>1
  <1> QED BY <1>2, TypeCorrect, KeysAreNew, PTL DEF Spec, UntouchedWorkStays

-----------------------------------------------------------------------------
(* What a correction leaves behind is what was posted                      *)

\* Different rows are given different keys.
LEMMA KeysDiffer ==
    ASSUME written \in Nat, NEW ids \in SUBSET Ids, NEW post \in Forms(ids),
           NEW n \in CreatedRows(post), NEW k \in CreatedRows(post), n < k
    PROVE  NewId(CreatedRows(post), n) # NewId(CreatedRows(post), k)
  <1> DEFINE created == CreatedRows(post)
             upTo(i) == {j \in created : j <= i}
  <1>1. IsFiniteSet(created) /\ \A j \in created : j \in Nat
    <2>1. PICK last \in Nat : DOMAIN post = 1 .. last
      BY FormShape
    <2>2. IsFiniteSet(1 .. last) /\ created \subseteq 1 .. last
      BY <2>1, FS_Interval DEF CreatedRows
    <2> HIDE DEF created
    <2>3. IsFiniteSet(created)
      BY <2>2, FS_Subset
    <2> QED  BY <2>2, <2>3
  <1>2. upTo(n) \subseteq upTo(k) /\ k \in upTo(k) /\ k \notin upTo(n)
    BY <1>1
  <1>3. IsFiniteSet(upTo(n)) /\ IsFiniteSet(upTo(k))
    BY <1>1, FS_Subset
  <1> HIDE DEF upTo
  <1>4. Cardinality(upTo(n)) < Cardinality(upTo(k)) /\ Cardinality(upTo(n)) \in Nat /\ Cardinality(upTo(k)) \in Nat
    BY <1>2, <1>3, FS_Subset, FS_CardinalityType
  <1>5. NewId(created, n) = written + Cardinality(upTo(n)) /\ NewId(created, k) = written + Cardinality(upTo(k))
    BY DEF NewId, upTo
  <1> HIDE DEF created
  <1>6. \A a, b \in Nat : a < b => written + a # written + b
    OBVIOUS
  <1>7. written + Cardinality(upTo(n)) # written + Cardinality(upTo(k))
    BY <1>4, <1>6
  <1> QED  BY <1>5, <1>7 DEF created

\* Where each row of a form is stored.
Kept(post, n) == IF n \in KeptRows(post) THEN post[n].id ELSE NewId(CreatedRows(post), n)

LEMMA RowsAreStoredOnce ==
    ASSUME TypeOK, Numbered, NEW ids \in SUBSET Ids, NEW post \in Forms(ids), Store(post)
    PROVE  /\ \A m \in current' : \E n \in DOMAIN post : Kept(post, n) = m
           /\ \A n \in DOMAIN post : /\ Kept(post, n) \in current'
                                     /\ measure'[Kept(post, n)] = Normalized(post[n].what)
           /\ \A n, k \in DOMAIN post : Kept(post, n) = Kept(post, k) => n = k
  <1> DEFINE created == CreatedRows(post)
             fresh == {NewId(created, n) : n \in created}
             row(m) == CHOOSE n \in created : NewId(created, n) = m
  <1>1. /\ fresh \subseteq Ids
        /\ current' = KeptIds(post) \cup fresh
        /\ \A m \in Ids : measure'[m] = IF m \in fresh THEN Normalized(post[row(m)].what) ELSE measure[m]
    BY DEF Store
  <1>2. \A n \in DOMAIN post : n \in Nat
    BY FormShape
  <1>3. \A n, k \in created : NewId(created, n) = NewId(created, k) => n = k
    <2> SUFFICES ASSUME NEW n \in created, NEW k \in created, NewId(created, n) = NewId(created, k), n # k
                 PROVE FALSE
      OBVIOUS
    <2>1. n \in Nat /\ k \in Nat
      BY <1>2 DEF CreatedRows
    <2>2. CASE n < k
      BY <2>2, KeysDiffer DEF TypeOK
    <2>3. CASE k < n
      BY <2>3, KeysDiffer DEF TypeOK
    <2> QED  BY <2>1, <2>2, <2>3
  <1>4. \A m \in fresh : m > written
    <2>1. \A m \in fresh : m \in written + 1 .. written + Cardinality(created)
      BY FreshIds DEF TypeOK
    <2> QED  BY <2>1, FreshIds DEF TypeOK
  <1>5. \A m \in current : m \in Ids /\ m <= written
    BY DEF TypeOK, Numbered
  <1>6. \A n \in KeptRows(post) : /\ n \in DOMAIN post /\ post[n].id \in current /\ post[n].id \in KeptIds(post)
                                  /\ measure[post[n].id] = Normalized(post[n].what)
                                  /\ \A k \in 1 .. n - 1 : SameMeasure(post[k]) => post[k].id # post[n].id
                                  /\ SameMeasure(post[n])
    BY DEF KeptRows, KeptIds, SameMeasure
  <1>7. \A n, k \in KeptRows(post) : post[n].id = post[k].id => n = k
    <2> SUFFICES ASSUME NEW n \in KeptRows(post), NEW k \in KeptRows(post), n < k  PROVE post[n].id # post[k].id
      BY <1>2, <1>6
    <2>1. n \in 1 .. k - 1
      BY <1>2, <1>6, FormShape
    <2> QED  BY <2>1, <1>6
  <1>8. \A n \in KeptRows(post) : post[n].id \notin fresh /\ post[n].id \in Ids
    <2>1. \A m \in Ids : m > written /\ m <= written => FALSE
      BY DEF TypeOK, Ids
    <2> QED  BY <2>1, <1>4, <1>5, <1>6
  <1>9. \A m \in fresh : row(m) \in created /\ NewId(created, row(m)) = m
    OBVIOUS
  <1>10. \A n \in created : NewId(created, n) \in fresh /\ row(NewId(created, n)) = n
    <2>1. \A n \in created : NewId(created, n) \in fresh
      OBVIOUS
    <2> HIDE DEF created, fresh, row
    <2> QED  BY <2>1, <1>3, <1>9
  <1>11. DOMAIN post = KeptRows(post) \cup created /\ \A n \in created : n \notin KeptRows(post)
    BY <1>6 DEF CreatedRows
  <1>12. KeptIds(post) = {post[n].id : n \in KeptRows(post)}
    BY DEF KeptIds
  <1>13. \A n \in KeptRows(post) : Kept(post, n) = post[n].id
    BY DEF Kept
  <1>14. \A n \in created : Kept(post, n) = NewId(created, n)
    BY <1>11 DEF Kept
  <1>15. \A m \in fresh : \E n \in created : NewId(created, n) = m
    OBVIOUS
  <1> HIDE DEF created, fresh, row
  <1>16. \A m \in current' : \E n \in DOMAIN post : Kept(post, n) = m
    BY <1>1, <1>11, <1>12, <1>13, <1>14, <1>15
  <1>17. \A n \in DOMAIN post : Kept(post, n) \in current'
    BY <1>1, <1>6, <1>10, <1>11, <1>13, <1>14
  <1>18. \A n \in KeptRows(post) : measure'[Kept(post, n)] = Normalized(post[n].what)
    BY <1>1, <1>6, <1>8, <1>13
  <1>19. \A n \in created : measure'[Kept(post, n)] = Normalized(post[n].what)
    BY <1>1, <1>10, <1>14
  <1>20. \A n, k \in DOMAIN post : Kept(post, n) = Kept(post, k) => n = k
    BY <1>3, <1>7, <1>8, <1>10, <1>11, <1>13, <1>14
  <1> QED  BY <1>11, <1>16, <1>17, <1>18, <1>19, <1>20

\* The record says what was posted, every row as often as it was posted: the
\* rows and the measures that say one thing are paired by Kept.
LEMMA SavedEachRow ==
    ASSUME TypeOK, Numbered, NEW ids \in SUBSET Ids, NEW post \in Forms(ids), Store(post), NEW i
    PROVE  Cardinality({m \in current' : measure'[m] = i})
           = Cardinality({n \in DOMAIN post : Normalized(post[n].what) = i})
  <1> DEFINE said == {m \in current' : measure'[m] = i}
             posted == {n \in DOMAIN post : Normalized(post[n].what) = i}
             pairs == [n \in posted |-> Kept(post, n)]
  <1>1. IsFiniteSet(posted)
    <2>1. PICK last \in Nat : DOMAIN post = 1 .. last
      BY FormShape
    <2> QED  BY <2>1, FS_Interval, FS_Subset
  <1>2. \A n \in posted : Kept(post, n) \in said
    BY RowsAreStoredOnce
  <1>3. \A m \in said : \E n \in posted : Kept(post, n) = m
    BY RowsAreStoredOnce
  <1>4. \A n, k \in posted : Kept(post, n) = Kept(post, k) => n = k
    BY RowsAreStoredOnce
  <1> HIDE DEF said, posted
  <1>5. pairs \in Bijection(posted, said)
    BY <1>2, <1>3, <1>4 DEF Bijection, Injection, Surjection, IsInjective
  <1>6. ExistsBijection(posted, said)
    BY <1>5 DEF ExistsBijection
  <1>7. Cardinality(said) = Cardinality(posted)
    BY <1>1, <1>6, FS_Bijection
  <1> QED  BY <1>7 DEF said, posted

\* The record says what was posted.
THEOREM SavedWhatWasPosted == Spec => SavedAsPosted
  <1>1. ASSUME TypeOK, Numbered, NEW e \in Editors, NEW post \in Forms(opened[e]), Save(e, post)
        PROVE  \A i \in Instruction :
                   Cardinality({m \in current' : measure'[m] = i})
                   = Cardinality({n \in DOMAIN post : Normalized(post[n].what) = i})
    <2>1. opened[e] \in SUBSET Ids /\ Store(post)
      BY <1>1 DEF TypeOK, Save
    <2> QED  BY <1>1, <2>1, SavedEachRow
  <1>2. ASSUME TypeOK, [Next]_vars, status = "ARCHIVED"  PROVE UNCHANGED recordVars
    BY <1>2 DEF Next, Create, OpenForm, Save, Archive, Complete, Reopen, WriteFile, AddRow, DropUpload,
                RemoveRow, RemoveFile, vars
  <1>3. TypeOK /\ Numbered /\ [Next]_vars =>
           [/\ \A e \in Editors : \A post \in Forms(opened[e]) :
                 Save(e, post) =>
                     \A i \in Instruction :
                         Cardinality({m \in current' : measure'[m] = i})
                         = Cardinality({n \in DOMAIN post : Normalized(post[n].what) = i})
            /\ status = "ARCHIVED" => UNCHANGED recordVars]_vars
    BY <1>1, <1>2
  <1> QED  BY <1>3, TypeCorrect, KeysAreNew, PTL DEF Spec, SavedAsPosted

\* A correction does what the form says and nothing to what it leaves alone
\* (update_smk_source).
THEOREM CorrectionsAreExact == Spec => CorrectionIsExact
  BY SavedWhatWasPosted, UntouchedWorkIsKept DEF CorrectionIsExact

-----------------------------------------------------------------------------
(* Completed work and its attachments                                       *)

\* What is listed or being written has its file; no two of them share one, and
\* none has a file that is being removed.
FilesInPlace ==
    /\ \A r \in rows \cup uploading : r.file \in stored /\ r.file \notin unlinking
    /\ \A r, s \in rows \cup uploading : r.file = s.file => r = s
    /\ rows \cap uploading = {}

LEMMA FilesStayInPlace == Spec => []FilesInPlace
  <1>1. Init => FilesInPlace
    BY DEF Init, FilesInPlace
  <1>2. ASSUME TypeOK, FilesInPlace, [Next]_vars
        PROVE  FilesInPlace'
    <2>1. ASSUME NEW f \in Files, NEW t \in Tasks, WriteFile(f, t)
          PROVE  FilesInPlace'
      <3> DEFINE u == [file |-> f, task |-> t]
      <3>1. /\ f \notin stored \cup unlinking
            /\ stored' = stored \cup {f}
            /\ uploading' = uploading \cup {u}
            /\ rows' = rows /\ unlinking' = unlinking
        BY <2>1 DEF WriteFile
      <3>2. u.file = f
        OBVIOUS
      <3> HIDE DEF u
      <3>3. \A r \in rows \cup uploading : r.file # f
        BY <1>2, <3>1 DEF FilesInPlace
      <3> QED BY <1>2, <3>1, <3>2, <3>3 DEF FilesInPlace
    <2>2. ASSUME NEW u \in uploading, AddRow(u)
          PROVE  FilesInPlace'
      <3>1. /\ rows' = rows \cup {u} /\ uploading' = uploading \ {u}
            /\ stored' = stored /\ unlinking' = unlinking
        BY <2>2 DEF AddRow
      <3>2. rows' \cup uploading' = rows \cup uploading
        BY <3>1
      <3> QED BY <1>2, <3>1, <3>2 DEF FilesInPlace
    <2>3. ASSUME NEW u \in uploading, DropUpload(u)
          PROVE  FilesInPlace'
      <3>1. /\ uploading' = uploading \ {u} /\ rows' = rows /\ unlinking' = unlinking
            /\ stored \ {u.file} \subseteq stored'
        BY <2>3 DEF DropUpload
      <3>2. \A r \in rows \cup (uploading \ {u}) : r.file # u.file
        BY <1>2 DEF FilesInPlace
      <3> QED BY <1>2, <3>1, <3>2 DEF FilesInPlace
    <2>4. ASSUME NEW r \in rows, RemoveRow(r)
          PROVE  FilesInPlace'
      <3>1. /\ rows' = rows \ {r} /\ unlinking' = unlinking \cup {r.file}
            /\ stored' = stored /\ uploading' = uploading
        BY <2>4 DEF RemoveRow
      <3>2. \A s \in (rows \ {r}) \cup uploading : s.file # r.file
        BY <1>2 DEF FilesInPlace
      <3> QED BY <1>2, <3>1, <3>2 DEF FilesInPlace
    <2>5. ASSUME NEW f \in unlinking, RemoveFile(f)
          PROVE  FilesInPlace'
      <3>1. /\ unlinking' = unlinking \ {f} /\ stored \ {f} \subseteq stored'
            /\ rows' = rows /\ uploading' = uploading
        BY <2>5 DEF RemoveFile
      <3>2. \A s \in rows \cup uploading : s.file # f
        BY <1>2 DEF FilesInPlace
      <3> QED BY <1>2, <3>1, <3>2 DEF FilesInPlace
    <2>6. CASE UNCHANGED fileVars
      BY <1>2, <2>6 DEF fileVars, FilesInPlace
    <2> QED BY <1>2, <2>1, <2>2, <2>3, <2>4, <2>5, <2>6, StepsOfFiles
  <1> QED BY <1>1, <1>2, TypeCorrect, PTL DEF Spec

\* A completed task has a row: a completion asks for one, and a row is removed
\* only from a task that is not completed.
DoneWithRow ==
    \A m \in Ids, b \in Batch :
        work[m][b] = "COMPLETED" => \E r \in rows : r.task = <<m, b>>

LEMMA WorkIsNotDoneByItself ==
    ASSUME TypeOK, [Next]_vars, NEW m \in Ids, NEW b \in Batch,
           work'[m][b] = "COMPLETED", work[m][b] # "COMPLETED"
    PROVE  Complete(<<m, b>>)
  <1>1. ASSUME NEW ids \in SUBSET Ids, NEW post \in Forms(ids), Store(post)
        PROVE  FALSE
    <2>1. PICK fresh \in SUBSET Ids : Stored(post, fresh)
      BY <1>1, StoreEffect
    <2>2. \/ work'[m] = HandedOut(measure'[m])
          \/ work'[m] = CancelledWork(work[m])
          \/ work'[m] = work[m]
      BY <2>1 DEF Stored
    <2> QED BY <2>2 DEF HandedOut, CancelledWork
  <1>2. ASSUME NEW t \in Tasks, Complete(t)
        PROVE  Complete(<<m, b>>)
    <2>1. SetWork(t, "COMPLETED")
      BY <1>2 DEF Complete
    <2>2. t = <<m, b>>
      BY <2>1, SetWorkEffect DEF TaskStates
    <2> QED BY <1>2, <2>2
  <1>3. ASSUME NEW t \in Tasks, Reopen(t)
        PROVE  FALSE
    <2>1. SetWork(t, "IN_PROGRESS")
      BY <1>3 DEF Reopen
    <2> QED BY <2>1, SetWorkEffect DEF TaskStates
  <1>4. CASE UNCHANGED workVars
    BY <1>4 DEF workVars
  <1> QED BY <1>1, <1>2, <1>3, <1>4, StepsOfWork

\* A completed task has an attachment with its file, whatever uploads and
\* removals are cut off around it (complete_task, delete_task_attachment).
THEOREM DoneWorkHasEvidence == Spec => []DoneWithEvidence
  <1>1. Init => DoneWithRow
    BY DEF Init, DoneWithRow
  <1>2. ASSUME TypeOK, DoneWithRow, [Next]_vars
        PROVE  DoneWithRow'
    <2> SUFFICES ASSUME NEW m \in Ids, NEW b \in Batch, work'[m][b] = "COMPLETED"
                 PROVE  \E r \in rows' : r.task = <<m, b>>
      BY DEF DoneWithRow
    <2>1. CASE work[m][b] # "COMPLETED"
      <3>1. Complete(<<m, b>>)
        BY <1>2, <2>1, WorkIsNotDoneByItself
      <3> QED BY <3>1 DEF Complete, HasAttachment, fileVars
    <2>2. CASE work[m][b] = "COMPLETED"
      <3>1. PICK r \in rows : r.task = <<m, b>>
        BY <1>2, <2>2 DEF DoneWithRow
      <3>2. ASSUME NEW s \in rows, RemoveRow(s)
            PROVE  s # r
        <4>1. InProgress(s.task)
          BY <3>2 DEF RemoveRow, MayRemove
        <4> QED BY <2>2, <3>1, <4>1 DEF InProgress
      <3>3. r \in rows'
        <4>1. ASSUME NEW f \in Files, NEW t \in Tasks, WriteFile(f, t)
              PROVE  r \in rows'
          BY <3>1, <4>1 DEF WriteFile
        <4>2. ASSUME NEW u \in uploading, AddRow(u) \/ DropUpload(u)
              PROVE  r \in rows'
          BY <3>1, <4>2 DEF AddRow, DropUpload
        <4>3. ASSUME NEW s \in rows, RemoveRow(s)
              PROVE  r \in rows'
          BY <3>1, <3>2, <4>3 DEF RemoveRow
        <4>4. ASSUME NEW f \in unlinking, RemoveFile(f)
              PROVE  r \in rows'
          BY <3>1, <4>4 DEF RemoveFile
        <4>5. CASE UNCHANGED fileVars
          BY <3>1, <4>5 DEF fileVars
        <4> QED BY <1>2, <4>1, <4>2, <4>3, <4>4, <4>5, StepsOfFiles
      <3> QED BY <3>1, <3>3
    <2> QED BY <2>1, <2>2
  <1>3. DoneWithRow /\ FilesInPlace => DoneWithEvidence
    BY DEF DoneWithRow, FilesInPlace, DoneWithEvidence, Tasks
  <1> QED BY <1>1, <1>2, <1>3, TypeCorrect, FilesStayInPlace, PTL DEF Spec

\* The measures of the record are covered, and nothing else is asked for
\* (update_smk_source).
THEOREM WorkFollows == Spec => []WorkFollowsTheRecord
<1>1. Spec => []CoveredOnce
  BY MeasuresAreCovered
<1>2. Spec => []ReplacedWorkIsWithdrawn
  BY ReplacedWorkEnds
<1>. QED
  BY <1>1, <1>2, PTL DEF WorkFollowsTheRecord

-----------------------------------------------------------------------------
(* The positions of cards (BoardOrder).                                     *)

\* A finite set under a strict total order R is a sequence in that order: the
\* place of an element is how many come before it.
LEMMA TotalOrderIsASequence ==
    ASSUME NEW S, IsFiniteSet(S), NEW R,
           \A x \in S : <<x, x>> \notin R,
           \A x, y \in S : x # y => <<x, y>> \in R \/ <<y, x>> \in R,
           \A x, y, z \in S : <<x, y>> \in R /\ <<y, z>> \in R => <<x, z>> \in R
    PROVE  \E s \in [1 .. Cardinality(S) -> S] :
              \A i, j \in 1 .. Cardinality(S) : i < j => <<s[i], s[j]>> \in R
  <1> DEFINE n == Cardinality(S)
             below(x) == {y \in S : <<y, x>> \in R}
             rank == [x \in S |-> Cardinality(below(x)) + 1]
  <1>1. n \in Nat
    BY FS_CardinalityType
  <1>2. ASSUME NEW x \in S
        PROVE  IsFiniteSet(below(x)) /\ Cardinality(below(x)) \in Nat
    <2>1. IsFiniteSet(below(x))
      BY FS_Subset
    <2> QED  BY <2>1, FS_CardinalityType
  <1>3. ASSUME NEW x \in S, NEW T \in SUBSET S, below(x) \cup {x} \subseteq T
        PROVE  Cardinality(below(x)) + 1 <= Cardinality(T) /\ Cardinality(T) \in Nat
    <2>1. IsFiniteSet(T)
      BY FS_Subset
    <2>2. Cardinality(below(x) \cup {x}) = Cardinality(below(x)) + 1
      BY <1>2, FS_AddElement
    <2>3. Cardinality(below(x) \cup {x}) <= Cardinality(T)
      BY <1>3, <2>1, FS_Subset
    <2> QED  BY <2>1, <2>2, <2>3, FS_CardinalityType
  <1>4. rank \in [S -> 1 .. n]
    <2> SUFFICES ASSUME NEW x \in S  PROVE rank[x] \in 1 .. n
      OBVIOUS
    <2>1. Cardinality(below(x)) + 1 <= Cardinality(S)
      BY <1>3
    <2> QED  BY <1>1, <1>2, <2>1
  <1>5. ASSUME NEW x \in S, NEW y \in S, <<x, y>> \in R
        PROVE  rank[x] < rank[y]
    <2>1. below(x) \cup {x} \subseteq below(y)
      BY <1>5
    <2>2. Cardinality(below(x)) + 1 <= Cardinality(below(y))
      BY <1>3, <2>1
    <2> QED  BY <1>2, <2>2
  <1> HIDE DEF rank, below
  <1>6. rank \in Injection(S, 1 .. n)
    <2>1. \A x \in S : rank[x] \in Nat
      BY <1>4
    <2>2. \A x, y \in S : rank[x] = rank[y] => x = y
      <3> SUFFICES ASSUME NEW x \in S, NEW y \in S, rank[x] = rank[y], x # y  PROVE FALSE
        OBVIOUS
      <3>1. rank[x] < rank[y] \/ rank[y] < rank[x]
        BY <1>5
      <3> QED  BY <2>1, <3>1
    <2> QED  BY <1>4, <2>2 DEF Injection, IsInjective
  <1>7. rank \in Surjection(S, 1 .. n)
    <2>1. IsFiniteSet(1 .. n) /\ Cardinality(1 .. n) = n
      BY <1>1, FS_Interval
    <2> QED  BY <1>6, <2>1, FS_Injection
  <1>8. \A i \in 1 .. n : \E x \in S : rank[x] = i
    BY <1>7 DEF Surjection
  <1> DEFINE s == [i \in 1 .. n |-> CHOOSE x \in S : rank[x] = i]
  <1>9. s \in [1 .. n -> S] /\ \A i \in 1 .. n : rank[s[i]] = i
    BY <1>8
  <1> HIDE DEF s
  <1>10. ASSUME NEW i \in 1 .. n, NEW j \in 1 .. n, i < j
         PROVE  <<s[i], s[j]>> \in R
    <2>1. s[i] \in S /\ s[j] \in S /\ rank[s[i]] = i /\ rank[s[j]] = j
      BY <1>9
    <2>2. s[i] # s[j]
      BY <1>10, <2>1
    <2>3. <<s[j], s[i]>> \notin R
      BY <1>1, <1>5, <1>10, <2>1
    <2> QED  BY <2>1, <2>2, <2>3
  <1> QED  BY <1>9, <1>10 DEF n

Position == 0 .. MaxPosition

\* Cards sorted are those cards, each once, no more than there are.
LEMMA SortedIsASequence ==
    ASSUME position \in [Cards -> Position], NEW S \in SUBSET Cards
    PROVE  /\ IsFiniteSet(S) /\ Cardinality(S) \in Nat /\ Cardinality(S) <= MaxCards
           /\ Sorted(S) \in [1 .. Cardinality(S) -> S]
           /\ Sorted(S) \in Seq(Cards) /\ Len(Sorted(S)) = Cardinality(S)
           /\ \A i, j \in 1 .. Cardinality(S) : i < j => Before(Sorted(S)[i], Sorted(S)[j])
  <1>1. IsFiniteSet(Cards) /\ Cardinality(Cards) = MaxCards
    BY FS_Interval, OrderAssumption DEF Cards
  <1>2. IsFiniteSet(S) /\ Cardinality(S) <= MaxCards
    BY <1>1, FS_Subset
  <1>3. Cardinality(S) \in Nat
    BY <1>2, FS_CardinalityType
  <1> DEFINE R == {p \in Cards \X Cards : Before(p[1], p[2])}
  <1>4. \A c, d \in S : <<c, d>> \in R <=> Before(c, d)
    OBVIOUS
  <1>5. \A c \in S : position[c] \in Nat /\ c \in Nat
    BY OrderAssumption DEF Cards, Position
  <1>6. /\ \A x \in S : <<x, x>> \notin R
        /\ \A x, y \in S : x # y => <<x, y>> \in R \/ <<y, x>> \in R
        /\ \A x, y, z \in S : <<x, y>> \in R /\ <<y, z>> \in R => <<x, z>> \in R
    BY <1>4, <1>5 DEF Before
  <1> HIDE DEF R
  <1>7. PICK s \in [1 .. Cardinality(S) -> S] :
           \A i, j \in 1 .. Cardinality(S) : i < j => <<s[i], s[j]>> \in R
    BY <1>2, <1>6, TotalOrderIsASequence
  <1>8. \A i, j \in DOMAIN s : i < j => Before(s[i], s[j])
    BY <1>4, <1>7
  <1>9. /\ Sorted(S) \in [1 .. Cardinality(S) -> S]
        /\ \A i, j \in DOMAIN Sorted(S) : i < j => Before(Sorted(S)[i], Sorted(S)[j])
    BY <1>8 DEF Sorted
  <1> QED  BY <1>2, <1>3, <1>9, IsASeq

\* The last position is a position, and none of the cards is after it.
LEMMA LastIsAPosition ==
    ASSUME position \in [Cards -> Position], NEW S \in SUBSET Cards
    PROVE  LastPosition(S) \in Position /\ \A c \in S : position[c] <= LastPosition(S)
  <1> DEFINE taken == {0} \cup {position[c] : c \in S}
             room == {MaxPosition - p : p \in taken}
  <1>1. MaxPosition \in Nat /\ taken \subseteq Position
    BY OrderAssumption DEF Position
  <1>2. room \subseteq Nat /\ room # {}
    BY <1>1 DEF Position
  <1> HIDE DEF taken
  <1>3. PICK least \in room : \A r \in room : <<r, least>> \notin OpToRel(<, Nat)
    BY <1>2, WFMin, NatLessThanWellFounded, Zenon
  <1>4. \A r \in room : least <= r
    <2>1. \A r \in room : r \in Nat /\ least \in Nat /\ ~(r < least)
      BY <1>2, <1>3 DEF OpToRel
    <2> QED  BY <2>1
  <1>5. PICK last \in taken : least = MaxPosition - last
    OBVIOUS
  <1>6. \A p \in taken : last >= p
    <2> SUFFICES ASSUME NEW p \in taken  PROVE last >= p
      OBVIOUS
    <2>1. least <= MaxPosition - p
      BY <1>4
    <2> QED  BY <1>1, <1>5, <2>1 DEF Position
  <1>7. Max(taken) \in taken /\ \A p \in taken : Max(taken) >= p
    BY <1>6 DEF Max
  <1>8. LastPosition(S) = Max(taken)
    BY DEF LastPosition, taken
  <1> QED  BY <1>1, <1>7, <1>8 DEF taken, Position

\* A list that is written anew fits below the ceiling, and leaves no card of it
\* at the start.
LEMMA RenumberedInRange ==
    ASSUME position \in [Cards -> Position], NEW s \in Seq(Cards), Len(s) <= MaxCards + 1
    PROVE  /\ Renumbered(s) \in [Cards -> Position]
           /\ \A c \in Cards : Contains(s, c) => Renumbered(s)[c] > 0
           /\ \A c \in Cards : position[c] > 0 => Renumbered(s)[c] > 0
  <1> SUFFICES ASSUME NEW c \in Cards
               PROVE  /\ Renumbered(s)[c] \in Position
                      /\ Contains(s, c) => Renumbered(s)[c] > 0
                      /\ position[c] > 0 => Renumbered(s)[c] > 0
    BY DEF Renumbered
  <1>1. CASE ~Contains(s, c)
    BY <1>1 DEF Renumbered
  <1>2. CASE Contains(s, c)
    <2> DEFINE i == CHOOSE i \in DOMAIN s : s[i] = c
    <2>1. i \in 1 .. Len(s)
      BY <1>2 DEF Contains
    <2>2. Renumbered(s)[c] = PositionStep * i
      BY <1>2 DEF Renumbered
    <2> HIDE DEF i
    <2>3. i \in Nat /\ i > 0 /\ i <= MaxCards + 1 /\ PositionStep \in Nat /\ PositionStep > 0
      BY <2>1, OrderAssumption
    <2>4. PositionStep * i \in Nat /\ PositionStep * i > 0 /\ PositionStep * i <= PositionStep * (MaxCards + 1)
      BY <2>3, OrderAssumption
    <2>5. PositionStep * (MaxCards + 1) <= MaxPosition
      BY <2>3, OrderAssumption
    <2> QED  BY <2>2, <2>4, <2>5, OrderAssumption DEF Position
  <1> QED  BY <1>1, <1>2

LEMMA InColumn ==
    ASSUME OrderTypeOK, NEW col
    PROVE  /\ In(col) \in SUBSET Cards /\ position \in [Cards -> Position]
           /\ \A c \in Cards : position[c] \in Nat /\ position[c] <= MaxPosition
           /\ \A c \in In(col) : position[c] > 0
  BY OrderAssumption DEF OrderTypeOK, In, Position

\* The end of a column is a position whether or not the ceiling was reached.
LEMMA EndIsAPosition ==
    ASSUME OrderTypeOK, NEW col
    PROVE  /\ EndPosition(col).at \in Position /\ EndPosition(col).at > 0
           /\ EndPosition(col).others \in [Cards -> Position]
           /\ \A c \in Cards : position[c] > 0 => EndPosition(col).others[c] > 0
  <1>1. In(col) \in SUBSET Cards /\ position \in [Cards -> Position]
    BY InColumn
  <1>2. LastPosition(In(col)) \in Position
    BY <1>1, LastIsAPosition
  <1>3. CASE LastPosition(In(col)) + PositionStep <= MaxPosition
    BY <1>1, <1>2, <1>3, OrderAssumption DEF EndPosition, Position
  <1>4. CASE ~(LastPosition(In(col)) + PositionStep <= MaxPosition)
    <2> DEFINE n == Cardinality(In(col))
    <2>1. /\ Sorted(In(col)) \in Seq(Cards) /\ Len(Sorted(In(col))) = n
          /\ n \in Nat /\ n <= MaxCards
      BY <1>1, SortedIsASequence
    <2>2. /\ EndPosition(col).at = (n + 1) * PositionStep
          /\ EndPosition(col).others = Renumbered(Sorted(In(col)))
      BY <1>4 DEF EndPosition
    <2> HIDE DEF n
    <2>3. /\ (n + 1) * PositionStep \in Nat /\ (n + 1) * PositionStep > 0
          /\ (n + 1) * PositionStep <= (MaxCards + 1) * PositionStep
      BY <2>1, OrderAssumption
    <2>4. (n + 1) * PositionStep \in Position
      BY <2>3, OrderAssumption DEF Position
    <2>5. Len(Sorted(In(col))) <= MaxCards + 1
      BY <2>1, OrderAssumption
    <2>6. /\ Renumbered(Sorted(In(col))) \in [Cards -> Position]
          /\ \A c \in Cards : position[c] > 0 => Renumbered(Sorted(In(col)))[c] > 0
      BY <1>1, <2>1, <2>5, RenumberedInRange
    <2> QED  BY <2>2, <2>3, <2>4, <2>6
  <1> QED  BY <1>3, <1>4

\* A step that only writes positions, pins and states keeps the types if the
\* positions of the cards that are there are in range.
LEMMA PositionsWritten ==
    ASSUME OrderTypeOK, UNCHANGED working,
           column' \in [Cards -> Columns \cup {Nothing}], isPinned' \in [Cards -> BOOLEAN],
           state' \in [Cards -> {"none", "open", "closed"}],
           position' \in [Cards -> Position],
           \A c \in Cards : Exists(c)' => position'[c] > 0
    PROVE  OrderTypeOK'
  BY DEF OrderTypeOK, Position

LEMMA CreateCardKeepsOrder ==
    ASSUME OrderTypeOK, NEW c \in Cards, NEW col \in Columns, CreateCard(c, col)
    PROVE  OrderTypeOK'
  <1> DEFINE end == EndPosition(col)
  <1>1. /\ end.at \in Position /\ end.at > 0 /\ end.others \in [Cards -> Position]
        /\ \A d \in Cards : position[d] > 0 => end.others[d] > 0
    BY EndIsAPosition
  <1>2. position' = [end.others EXCEPT ![c] = end.at]
    BY DEF CreateCard
  <1> HIDE DEF end
  <1>3. position' \in [Cards -> Position]
    BY <1>1, <1>2
  <1>4. ASSUME NEW d \in Cards, Exists(d)'  PROVE position'[d] > 0
    <2>1. d = c \/ Exists(d)
      BY <1>4 DEF CreateCard, Exists, OrderTypeOK
    <2> QED  BY <1>1, <1>2, <2>1 DEF OrderTypeOK
  <1>5. /\ UNCHANGED <<working, isPinned>>
        /\ column' \in [Cards -> Columns \cup {Nothing}]
        /\ state' \in [Cards -> {"none", "open", "closed"}]
    BY DEF CreateCard, OrderTypeOK
  <1> QED  BY <1>3, <1>4, <1>5, PositionsWritten DEF OrderTypeOK

LEMMA PinCardKeepsOrder ==
    ASSUME OrderTypeOK, NEW c \in Cards, PinCard(c)
    PROVE  OrderTypeOK'
  <1> DEFINE end == EndPosition(Stands(c))
  <1>1. /\ end.at \in Position /\ end.at > 0 /\ end.others \in [Cards -> Position]
        /\ \A d \in Cards : position[d] > 0 => end.others[d] > 0
    BY EndIsAPosition
  <1>2. position' = [end.others EXCEPT ![c] = end.at]
    BY DEF PinCard
  <1> HIDE DEF end
  <1>3. position' \in [Cards -> Position]
    BY <1>1, <1>2
  <1>4. ASSUME NEW d \in Cards, Exists(d)'  PROVE position'[d] > 0
    BY <1>1, <1>2, <1>4 DEF OrderTypeOK, PinCard, Exists
  <1>5. UNCHANGED <<working, column, state>> /\ isPinned' \in [Cards -> BOOLEAN]
    BY DEF PinCard, OrderTypeOK
  <1> QED  BY <1>3, <1>4, <1>5, PositionsWritten DEF OrderTypeOK

\* One card takes a position of its own, or a list with it is written anew.
LEMMA CardPlaced ==
    ASSUME OrderTypeOK, NEW c \in Cards, NEW group \in Seq(Cards), Len(group) <= MaxCards + 1,
           Contains(group, c),
           \/ \E new \in Position \ {0} : position' = [position EXCEPT ![c] = new]
           \/ position' = Renumbered(group),
           UNCHANGED state
    PROVE  /\ position' \in [Cards -> Position]
           /\ \A d \in Cards : Exists(d)' => position'[d] > 0
  <1>1. position \in [Cards -> Position] /\ \A d \in Cards : Exists(d) => position[d] > 0
    BY DEF OrderTypeOK, Position
  <1>2. CASE \E new \in Position \ {0} : position' = [position EXCEPT ![c] = new]
    BY <1>1, <1>2 DEF Position, Exists
  <1>3. CASE position' = Renumbered(group)
    BY <1>1, <1>3, RenumberedInRange DEF Exists
  <1> QED  BY <1>2, <1>3

LEMMA UnpinCardKeepsOrder ==
    ASSUME OrderTypeOK, NEW c \in Cards, UnpinCard(c)
    PROVE  OrderTypeOK'
  <1> DEFINE others == {d \in In(Stands(c)) : ~isPinned[d]}
             group == Sorted(others)
  <1>1. /\ position \in [Cards -> Position]
        /\ others \in SUBSET Cards
        /\ \A d \in Cards : position[d] \in Nat /\ position[d] <= MaxPosition
    BY InColumn
  <1>2. group \in Seq(Cards) /\ Len(group) <= MaxCards
    BY <1>1, SortedIsASequence
  <1>3. position' = IF group # <<>> /\ position[Head(group)] >= 2
                    THEN [position EXCEPT ![c] = position[Head(group)] \div 2]
                    ELSE Renumbered(<<c>> \o group)
    BY DEF UnpinCard
  <1> HIDE DEF group, others
  <1>4. /\ <<c>> \o group \in Seq(Cards) /\ Len(<<c>> \o group) <= MaxCards + 1
        /\ Contains(<<c>> \o group, c)
    <2>1. <<c>> \in Seq(Cards) /\ Len(<<c>>) = 1 /\ <<c>>[1] = c
      OBVIOUS
    <2>2. /\ <<c>> \o group \in Seq(Cards) /\ Len(<<c>> \o group) = 1 + Len(group)
          /\ (<<c>> \o group)[1] = c
      BY <1>2, <2>1, ConcatProperties
    <2> QED  BY <1>2, <2>2, OrderAssumption DEF Contains
  <1>5. CASE group # <<>> /\ position[Head(group)] >= 2
    <2>1. Head(group) \in Cards
      BY <1>2, <1>5
    <2>2. position[Head(group)] \div 2 \in Position \ {0}
      BY <1>1, <1>5, <2>1, OrderAssumption DEF Position
    <2> QED  BY <1>2, <1>3, <1>4, <1>5, <2>2, CardPlaced, PositionsWritten DEF UnpinCard, OrderTypeOK
  <1>6. CASE ~(group # <<>> /\ position[Head(group)] >= 2)
    BY <1>3, <1>4, <1>6, CardPlaced, PositionsWritten DEF UnpinCard, OrderTypeOK
  <1> QED  BY <1>5, <1>6

\* A card goes between two others, or after the last, in a gap of the positions
\* or in a list written anew.
LEMMA MoveCardKeepsOrder ==
    ASSUME OrderTypeOK, NEW c \in Cards, NEW col \in Columns, NEW before \in Cards \cup {Nothing},
           MoveCard(c, col, before)
    PROVE  OrderTypeOK'
  <1> DEFINE pinned == isPinned[c] /\ col = Stands(c)
             cards  == In(col) \ {c}
             others == {d \in cards : isPinned[d] = pinned}
             group  == Sorted(others)
             index  == PlaceIndex(cards, group, pinned, before)
             lower  == IF index > 0 THEN position[group[index]] ELSE 0
             new    == IF index < Len(group) THEN Middle(lower, position[group[index + 1]])
                       ELSE After(cards, group, pinned)
             list   == InsertAt(group, index + 1, c)
  <1>1. /\ position \in [Cards -> Position] /\ cards \in SUBSET Cards /\ others \in SUBSET Cards
        /\ \A d \in Cards : position[d] \in Nat /\ position[d] <= MaxPosition
        /\ \A d \in others : position[d] > 0
    BY InColumn
  <1>2. /\ group \in [1 .. Len(group) -> others] /\ group \in Seq(Cards)
        /\ Len(group) \in Nat /\ Len(group) <= MaxCards
    BY <1>1, SortedIsASequence
  <1>3. /\ isPinned' = [isPinned EXCEPT ![c] = pinned]
        /\ position' = IF new = Nothing THEN Renumbered(list) ELSE [position EXCEPT ![c] = new]
        /\ column' = [column EXCEPT ![c] = col] /\ UNCHANGED <<working, state>>
    BY DEF MoveCard
  <1>4. LastPosition(cards) \in Position /\ LastPosition(Range(group)) \in Position
    <2>1. Range(group) \in SUBSET Cards
      BY <1>1, <1>2 DEF Range
    <2> QED  BY <1>1, <2>1, LastIsAPosition
  <1> HIDE DEF group, others, cards, pinned
  <1>5. index \in 0 .. Len(group)
    <2>1. CASE before # Nothing /\ Contains(group, before)
      <3>1. \E i \in DOMAIN group : group[i] = before
        BY <1>2, <2>1 DEF Contains
      <3>2. (CHOOSE i \in DOMAIN group : group[i] = before) \in 1 .. Len(group)
        BY <1>2, <3>1
      <3> QED  BY <2>1, <3>2 DEF PlaceIndex
    <2>2. before = Nothing => ~Contains(group, before)
      BY <1>2, OrderAssumption DEF Nothing, Cards, Contains
    <2>3. CASE ~(before # Nothing /\ Contains(group, before))
      BY <1>2, <2>2, <2>3 DEF PlaceIndex
    <2> QED  BY <2>1, <2>3
  <1> HIDE DEF index
  <1>6. /\ list \in Seq(Cards) /\ Len(list) <= MaxCards + 1 /\ Contains(list, c)
    <2> DEFINE front == SubSeq(group, 1, index)
               back  == SubSeq(group, index + 1, Len(group))
    <2>1. list = front \o <<c>> \o back
      <3>1. (index + 1) - 1 = index
        BY <1>2, <1>5
      <3>2. list = SubSeq(group, 1, (index + 1) - 1) \o <<c>> \o SubSeq(group, index + 1, Len(group))
        BY DEF InsertAt
      <3> QED  BY <3>1, <3>2, Zenon
    <2>2. front \in Seq(Cards) /\ Len(front) = index
      BY <1>2, <1>5, SubSeqProperties
    <2>3. back \in Seq(Cards) /\ Len(back) = Len(group) - index
      <3>1. /\ index + 1 \in Int /\ Len(group) \in Int
            /\ \A i \in index + 1 .. Len(group) : group[i] \in Cards
        BY <1>2, <1>5
      <3>2. /\ back \in Seq(Cards)
            /\ Len(back) = IF index + 1 <= Len(group) THEN Len(group) - (index + 1) + 1 ELSE 0
        BY <3>1, SubSeqProperties
      <3>3. index \in Nat /\ Len(group) \in Nat /\ index <= Len(group)
        BY <1>2, <1>5
      <3> HIDE DEF back
      <3> QED  BY <3>2, <3>3
    <2> HIDE DEF front, back
    <2>4. <<c>> \in Seq(Cards) /\ Len(<<c>>) = 1 /\ <<c>>[1] = c
      OBVIOUS
    <2>5. /\ front \o <<c>> \in Seq(Cards) /\ Len(front \o <<c>>) = index + 1
          /\ (front \o <<c>>)[index + 1] = c
      BY <1>2, <1>5, <2>2, <2>4, ConcatProperties
    <2>6. /\ list \in Seq(Cards) /\ Len(list) = Len(group) + 1
          /\ list[index + 1] = c
      <3> DEFINE head == front \o <<c>>
      <3>1. list = head \o back
        BY <2>1
      <3> HIDE DEF head
      <3>2. head \in Seq(Cards) /\ Len(head) = index + 1 /\ head[index + 1] = c
        BY <2>5 DEF head
      <3>3. /\ head \o back \in Seq(Cards) /\ Len(head \o back) = Len(head) + Len(back)
            /\ \A i \in 1 .. Len(head) + Len(back) :
                  (head \o back)[i] = IF i <= Len(head) THEN head[i] ELSE back[i - Len(head)]
        BY <2>3, <3>2, ConcatProperties
      <3>4. /\ index + 1 \in 1 .. Len(head) + Len(back) /\ index + 1 <= Len(head)
            /\ Len(head) + Len(back) = Len(group) + 1
        BY <1>2, <1>5, <2>3, <3>2
      <3> QED  BY <3>1, <3>2, <3>3, <3>4
    <2> QED  BY <1>2, <1>5, <2>6, OrderAssumption DEF Contains
  <1>7. lower \in Nat /\ lower <= MaxPosition
    BY <1>1, <1>2, <1>5, OrderAssumption
  <1>8. new \in Position
    <2>1. CASE index < Len(group)
      <3>1. index + 1 \in 1 .. Len(group)
        BY <1>2, <1>5, <2>1
      <3>2. position[group[index + 1]] \in Nat /\ position[group[index + 1]] <= MaxPosition
        BY <1>1, <1>2, <3>1
      <3> QED  BY <1>7, <2>1, <3>2, OrderAssumption DEF Middle, Position, Nothing
    <2>2. CASE ~(index < Len(group))
      BY <1>4, <2>2, OrderAssumption DEF After, Position, Nothing
    <2> QED  BY <2>1, <2>2
  <1> HIDE DEF new, list
  <1>9. /\ position' \in [Cards -> Position]
        /\ \A d \in Cards : Exists(d)' => position'[d] > 0
    <2>1. \/ new \in Position \ {0} /\ position' = [position EXCEPT ![c] = new]
          \/ position' = Renumbered(list)
      BY <1>3, <1>8 DEF Nothing
    <2> QED  BY <1>3, <1>6, <2>1, CardPlaced
  <1>10. /\ isPinned' \in [Cards -> BOOLEAN] /\ column' \in [Cards -> Columns \cup {Nothing}]
         /\ state' \in [Cards -> {"none", "open", "closed"}]
    BY <1>3 DEF OrderTypeOK, pinned
  <1> QED  BY <1>3, <1>9, <1>10, PositionsWritten

LEMMA DeleteColumnKeepsOrder ==
    ASSUME OrderTypeOK, NEW col \in Columns, DeleteColumn(col)
    PROVE  OrderTypeOK'
  <1>1. PICK i \in DOMAIN working : working' = RemoveAt(working, i)
    BY DEF DeleteColumn
  <1>2. working \in Seq(Columns) /\ Len(working) \in Nat /\ Len(working) > 1 /\ i \in 1 .. Len(working)
    BY DEF DeleteColumn, OrderTypeOK
  <1>3. working' \in Seq(Columns) /\ working' # <<>>
    <2> DEFINE front == SubSeq(working, 1, i - 1)
               back  == SubSeq(working, i + 1, Len(working))
    <2>1. front \in Seq(Columns) /\ Len(front) = i - 1
      BY <1>2, SubSeqProperties
    <2>2. back \in Seq(Columns) /\ Len(back) = Len(working) - i
      BY <1>2, SubSeqProperties
    <2>3. working' = front \o back
      BY <1>1 DEF RemoveAt
    <2> HIDE DEF front, back
    <2>4. front \o back \in Seq(Columns) /\ Len(front \o back) = Len(working) - 1
      BY <1>2, <2>1, <2>2, ConcatProperties
    <2> QED  BY <1>2, <2>3, <2>4
  <1>4. /\ column' \in [Cards -> Columns \cup {Nothing}]
        /\ UNCHANGED <<position, isPinned, state>>
    BY DEF DeleteColumn, OrderTypeOK
  <1> QED  BY <1>3, <1>4 DEF OrderTypeOK, Exists

LEMMA OrderAtFirst == OrderInit => OrderTypeOK
  <1> SUFFICES ASSUME OrderInit  PROVE OrderTypeOK
    OBVIOUS
  <1>1. working \in [1 .. Cardinality(Columns) -> Columns]
    BY DEF OrderInit, SetToSeqs
  <1>2. Cardinality(Columns) \in Nat /\ Cardinality(Columns) # 0
    BY OrderAssumption, FS_CardinalityType, FS_EmptySet
  <1>3. working \in Seq(Columns) /\ Len(working) = Cardinality(Columns)
    BY <1>1, <1>2, IsASeq
  <1>4. working # <<>>
    BY <1>2, <1>3
  <1> QED  BY <1>3, <1>4, OrderAssumption DEF OrderInit, OrderTypeOK, Exists

LEMMA OrderNextKeeps == OrderTypeOK /\ [OrderNext]_orderVars => OrderTypeOK'
  <1> SUFFICES ASSUME OrderTypeOK, [OrderNext]_orderVars  PROVE OrderTypeOK'
    OBVIOUS
  <1>1. ASSUME NEW c \in Cards, CloseCard(c) \/ ReopenCard(c)  PROVE OrderTypeOK'
    <2>1. \A d \in Cards : Exists(d)' => Exists(d)
      BY <1>1 DEF CloseCard, ReopenCard, Exists, OrderTypeOK
    <2> QED  BY <1>1, <2>1 DEF CloseCard, ReopenCard, OrderTypeOK
  <1>2. ASSUME NEW i \in 1 .. Cardinality(Columns) - 1, MoveColumn(i)  PROVE OrderTypeOK'
    <2>1. working \in Seq(Columns) /\ Len(working) \in Nat /\ i \in 1 .. Len(working) /\ i + 1 \in 1 .. Len(working)
      BY <1>2 DEF MoveColumn, OrderTypeOK
    <2>2. working' \in Seq(Columns) /\ Len(working') = Len(working)
      BY <1>2, <2>1, ExceptSeq DEF MoveColumn
    <2>3. working' # <<>>
      BY <2>1, <2>2
    <2> QED  BY <1>2, <2>2, <2>3 DEF MoveColumn, OrderTypeOK, Exists
  <1>3. CASE UNCHANGED orderVars
    BY <1>3 DEF orderVars, OrderTypeOK, Exists
  <1> QED  BY <1>1, <1>2, <1>3, CreateCardKeepsOrder, MoveCardKeepsOrder, PinCardKeepsOrder,
           UnpinCardKeepsOrder, DeleteColumnKeepsOrder DEF OrderNext

\* However long cards come and go, every card that is there has a position from
\* 1 to the ceiling, for any number of cards, columns and any step.
THEOREM PositionsStayInRange == OrderSpec => []OrderTypeOK
  BY OrderAtFirst, OrderNextKeeps, PTL DEF OrderSpec

-----------------------------------------------------------------------------
(* The order of cards: BoardOrder keeps the list of CardList.               *)

(* The order of cards (BoardOrder over CardList).                           *)

\* A finite set in an order that tells all its cards apart: each has its place.
LEMMA SortedTakesAll ==
    ASSUME position \in [Cards -> Position], NEW S \in SUBSET Cards
    PROVE  /\ \A d \in S : \E i \in 1 .. Len(Sorted(S)) : Sorted(S)[i] = d
           /\ \A i \in 1 .. Len(Sorted(S)) : Sorted(S)[i] \in S
           /\ \A i, j \in 1 .. Len(Sorted(S)) : Before(Sorted(S)[i], Sorted(S)[j]) <=> i < j
           /\ \A i, j \in 1 .. Len(Sorted(S)) : Sorted(S)[i] = Sorted(S)[j] => i = j
  <1> DEFINE n == Cardinality(S)
             s == Sorted(S)
  <1>1. /\ IsFiniteSet(S) /\ n \in Nat /\ Len(s) = n
        /\ s \in [1 .. n -> S]
        /\ \A i, j \in 1 .. n : i < j => Before(s[i], s[j])
    BY SortedIsASequence
  <1>2. \A c, d \in Cards : /\ position[c] \in Nat /\ position[d] \in Nat /\ c \in Nat /\ d \in Nat
                            /\ Before(c, d) => ~Before(d, c) /\ c # d
    BY OrderAssumption DEF Before, Cards, Position
  <1> HIDE DEF s, n
  <1>3. ASSUME NEW i \in 1 .. n, NEW j \in 1 .. n
        PROVE  (Before(s[i], s[j]) <=> i < j) /\ (s[i] = s[j] => i = j)
    <2>1. s[i] \in Cards /\ s[j] \in Cards /\ i \in Nat /\ j \in Nat
      BY <1>1
    <2>2. CASE i < j
      BY <1>1, <1>2, <2>1, <2>2
    <2>3. CASE j < i
      BY <1>1, <1>2, <2>1, <2>3
    <2>4. CASE i = j
      BY <1>2, <2>1, <2>4
    <2> QED  BY <2>1, <2>2, <2>3, <2>4
  <1>4. s \in Injection(1 .. n, S)
    BY <1>1, <1>3 DEF Injection, IsInjective
  <1>5. IsFiniteSet(1 .. n) /\ Cardinality(1 .. n) = n
    BY <1>1, FS_Interval
  <1>6. s \in Surjection(1 .. n, S)
    BY <1>1, <1>4, <1>5, FS_Injection DEF n
  <1>7. \A d \in S : \E i \in 1 .. n : s[i] = d
    BY <1>6 DEF Surjection
  <1> QED  BY <1>1, <1>3, <1>7 DEF s

\* In a list written anew each card has the multiple of its place.
LEMMA RenumberedPlaces ==
    ASSUME NEW s \in Seq(Cards),
           \A i, j \in 1 .. Len(s) : s[i] = s[j] => i = j
    PROVE  /\ \A i \in 1 .. Len(s) : Renumbered(s)[s[i]] = PositionStep * i
           /\ \A c \in Cards : (\A i \in 1 .. Len(s) : s[i] # c) => Renumbered(s)[c] = position[c]
  <1>1. DOMAIN s = 1 .. Len(s) /\ \A i \in 1 .. Len(s) : s[i] \in Cards
    OBVIOUS
  <1>2. ASSUME NEW i \in 1 .. Len(s)  PROVE Renumbered(s)[s[i]] = PositionStep * i
    <2>1. Contains(s, s[i])
      BY <1>1 DEF Contains
    <2>2. (CHOOSE j \in DOMAIN s : s[j] = s[i]) = i
      BY <1>1
    <2> QED  BY <1>1, <2>1, <2>2 DEF Renumbered
  <1>3. ASSUME NEW c \in Cards, \A i \in 1 .. Len(s) : s[i] # c  PROVE Renumbered(s)[c] = position[c]
    <2>1. ~Contains(s, c)
      BY <1>1, <1>3 DEF Contains
    <2> QED  BY <2>1 DEF Renumbered
  <1> QED  BY <1>2, <1>3

\* The end of a column is after every card of it; making room for it changes
\* the order of none.
LEMMA EndIsTheEnd ==
    ASSUME OrderTypeOK, NEW col
    PROVE  LET o == EndPosition(col).others
           IN  /\ \A d \in In(col) : o[d] < EndPosition(col).at /\ o[d] \in Nat
               /\ \A d, e \in In(col) : o[d] < o[e] \/ (o[d] = o[e] /\ d < e) <=> Before(d, e)
               /\ \A d \in Cards \ In(col) : o[d] = position[d]
               /\ EndPosition(col).at \in Nat
  <1> DEFINE S == In(col)
             o == EndPosition(col).others
             at == EndPosition(col).at
             s == Sorted(S)
  <1>1. /\ S \in SUBSET Cards /\ position \in [Cards -> Position]
        /\ \A d \in Cards : position[d] \in Nat /\ d \in Nat
        /\ PositionStep \in Nat /\ PositionStep > 0
    BY InColumn, OrderAssumption DEF Cards
  <1>2. CASE LastPosition(S) + PositionStep <= MaxPosition
    <2>1. o = position /\ at = LastPosition(S) + PositionStep
      BY <1>2 DEF EndPosition
    <2>2. LastPosition(S) \in Nat /\ \A d \in S : position[d] <= LastPosition(S)
      BY <1>1, LastIsAPosition, OrderAssumption DEF Position
    <2> HIDE DEF o, at, s, S
    <2>3. \A d \in S : o[d] < at /\ o[d] \in Nat
      BY <1>1, <2>1, <2>2
    <2> QED  BY <1>1, <2>1, <2>2, <2>3 DEF Before, o, at, S
  <1>3. CASE ~(LastPosition(S) + PositionStep <= MaxPosition)
    <2>1. o = Renumbered(s) /\ at = (Cardinality(S) + 1) * PositionStep
      BY <1>3 DEF EndPosition
    <2>2. s \in Seq(Cards) /\ Len(s) = Cardinality(S) /\ Len(s) \in Nat
      BY <1>1, SortedIsASequence
    <2>3. /\ \A d \in S : \E i \in 1 .. Len(s) : s[i] = d
          /\ \A i \in 1 .. Len(s) : s[i] \in S
          /\ \A i, j \in 1 .. Len(s) : Before(s[i], s[j]) <=> i < j
          /\ \A i, j \in 1 .. Len(s) : s[i] = s[j] => i = j
      BY <1>1, SortedTakesAll
    <2>4. /\ \A i \in 1 .. Len(s) : Renumbered(s)[s[i]] = PositionStep * i
          /\ \A c \in Cards : (\A i \in 1 .. Len(s) : s[i] # c) => Renumbered(s)[c] = position[c]
      BY <2>2, <2>3, RenumberedPlaces
    <2> HIDE DEF o, at, s, S
    <2>5. \A i, j \in Nat : (PositionStep * i < PositionStep * j <=> i < j) /\ PositionStep * i \in Nat
                            /\ (PositionStep * i = PositionStep * j <=> i = j)
      BY <1>1
    <2>6. ASSUME NEW d \in S  PROVE o[d] < at /\ o[d] \in Nat
      <3>1. PICK i \in 1 .. Len(s) : s[i] = d
        BY <2>3
      <3>2. o[d] = PositionStep * i /\ at = PositionStep * (Len(s) + 1) /\ i < Len(s) + 1 /\ i \in Nat /\ Len(s) + 1 \in Nat
        BY <1>1, <2>1, <2>2, <2>4, <3>1
      <3> QED  BY <2>5, <3>2
    <2>7. ASSUME NEW d \in S, NEW e \in S
          PROVE  o[d] < o[e] \/ (o[d] = o[e] /\ d < e) <=> Before(d, e)
      <3>1. PICK i \in 1 .. Len(s) : s[i] = d
        BY <2>3
      <3>2. PICK j \in 1 .. Len(s) : s[j] = e
        BY <2>3
      <3>3. o[d] = PositionStep * i /\ o[e] = PositionStep * j /\ i \in Nat /\ j \in Nat
        BY <2>1, <2>2, <2>4, <3>1, <3>2
      <3>4. Before(d, e) <=> i < j
        BY <2>3, <3>1, <3>2
      <3>5. i = j => d = e /\ ~(d < e)
        BY <1>1, <3>1, <3>2
      <3> QED  BY <2>5, <3>3, <3>4, <3>5
    <2>8. \A d \in Cards \ S : o[d] = position[d]
      BY <2>1, <2>3, <2>4
    <2>9. at \in Nat
      BY <1>1, <2>1, <2>2
    <2> QED  BY <2>6, <2>7, <2>8, <2>9 DEF o, at, S
  <1> QED  BY <1>2, <1>3

\* s is the list of the cards of S with c behind the first of them.
ListWith(s, S, index, c) ==
    /\ s \in Seq(Cards) /\ Len(s) = Len(Sorted(S)) + 1
    /\ \A i \in 1 .. Len(s) : s[i] = IF i <= index THEN Sorted(S)[i]
                                     ELSE IF i = index + 1 THEN c ELSE Sorted(S)[i - 1]

\* new lies between the first cards of S and the others.
Between(new, S, index) ==
    /\ \A i \in 1 .. index : position[Sorted(S)[i]] < new
    /\ \A i \in index + 1 .. Len(Sorted(S)) : new < position[Sorted(S)[i]]

\* A card put in its place among others, which keep theirs.
LEMMA PlacedAmong ==
    ASSUME OrderTypeOK, NEW c \in Cards, NEW S \in SUBSET (Cards \ {c}),
           NEW index \in 0 .. Len(Sorted(S)), NEW s, ListWith(s, S, index, c), NEW new \in Position,
           \/ position' = Renumbered(s)
           \/ position' = [position EXCEPT ![c] = new] /\ Between(new, S, index)
    PROVE  /\ \A d, e \in S : Before(d, e)' <=> Before(d, e)
           /\ \A i \in 1 .. Len(Sorted(S)) : \A d \in S : d = Sorted(S)[i] =>
                 /\ Before(d, c)' <=> i <= index
                 /\ Before(c, d)' <=> i > index
           /\ \A d \in Cards \ (S \cup {c}) : position'[d] = position[d]
  <1> DEFINE g == Sorted(S)
             n == Len(g)
  <1>1. /\ position \in [Cards -> Position] /\ S \in SUBSET Cards
        /\ \A d \in Cards : position[d] \in Nat /\ d \in Nat
        /\ PositionStep \in Nat /\ PositionStep > 0 /\ new \in Nat
    BY OrderAssumption DEF OrderTypeOK, Cards, Position
  <1>2. g \in Seq(Cards) /\ n \in Nat
    BY <1>1, SortedIsASequence
  <1>3. /\ \A d \in S : \E i \in 1 .. n : g[i] = d
        /\ \A i \in 1 .. n : g[i] \in S
        /\ \A i, j \in 1 .. n : Before(g[i], g[j]) <=> i < j
        /\ \A i, j \in 1 .. n : g[i] = g[j] => i = j
    BY <1>1, SortedTakesAll
  <1>4. /\ index \in Nat /\ index <= n /\ Len(s) = n + 1
        /\ \A i \in 1 .. n + 1 : s[i] = IF i <= index THEN g[i]
                                        ELSE IF i = index + 1 THEN c ELSE g[i - 1]
        /\ s \in Seq(Cards)
    BY DEF ListWith
  <1>5. CASE position' = [position EXCEPT ![c] = new]
             /\ (\A i \in 1 .. index : position[g[i]] < new)
             /\ (\A i \in index + 1 .. n : new < position[g[i]])
    <2> HIDE DEF g, n
    <2>1. (\A d \in Cards \ {c} : position'[d] = position[d]) /\ position'[c] = new
      BY <1>1, <1>5
    <2>2. \A i \in 1 .. n : i \in 1 .. index \/ i \in index + 1 .. n
      BY <1>2, <1>4
    <2>3. ASSUME NEW i \in 1 .. n, NEW d \in S, d = g[i]
          PROVE  (Before(d, c)' <=> i <= index) /\ (Before(c, d)' <=> i > index)
      <3>1. d \in Cards \ {c} /\ position'[d] = position[d] /\ position[d] \in Nat
        BY <1>1, <1>3, <2>1
      <3>2. CASE i \in 1 .. index
        <4>1. position[d] < new /\ i <= index /\ ~(i > index)
          BY <1>2, <1>4, <1>5, <2>3, <3>2
        <4>2. position'[d] < position'[c]
          BY <2>1, <3>1, <4>1
        <4>3. position'[d] \in Nat /\ position'[c] \in Nat
          BY <1>1, <2>1, <3>1
        <4>4. ~(position'[c] < position'[d]) /\ position'[c] # position'[d]
          BY <4>2, <4>3
        <4> QED  BY <4>1, <4>2, <4>4 DEF Before
      <3>3. CASE i \in index + 1 .. n
        <4>1. new < position[d] /\ i > index /\ ~(i <= index)
          BY <1>2, <1>4, <1>5, <2>3, <3>3
        <4>2. position'[c] < position'[d] /\ ~(position'[d] < position'[c]) /\ position'[c] # position'[d]
          BY <1>1, <2>1, <3>1, <4>1
        <4> QED  BY <4>1, <4>2 DEF Before
      <3> QED  BY <2>2, <3>2, <3>3
    <2>4. \A d, e \in S : Before(d, e)' <=> Before(d, e)
      BY <2>1 DEF Before
    <2> QED  BY <2>1, <2>3, <2>4 DEF g, n
  <1>6. CASE position' = Renumbered(s)
    <2> HIDE DEF g, n
    <2>1. \A i \in 1 .. n : g[i] # c /\ g[i] \in Cards
      BY <1>3
    <2> DEFINE at(i) == IF i <= index THEN i ELSE i + 1
    <2>2. \A i \in 1 .. n : i \in Nat /\ at(i) \in 1 .. n + 1 /\ s[at(i)] = g[i]
      <3> SUFFICES ASSUME NEW i \in 1 .. n  PROVE i \in Nat /\ at(i) \in 1 .. n + 1 /\ s[at(i)] = g[i]
        OBVIOUS
      <3>1. CASE i <= index
        <4>1. at(i) = i /\ i \in 1 .. n + 1 /\ i \in Nat
          BY <1>2, <1>4, <3>1
        <4>2. s[i] = g[i]
          BY <1>4, <3>1, <4>1
        <4> QED  BY <4>1, <4>2
      <3>2. CASE ~(i <= index)
        <4>1. at(i) = i + 1 /\ i + 1 \in 1 .. n + 1 /\ ~(i + 1 <= index) /\ i + 1 # index + 1 /\ (i + 1) - 1 = i
          BY <1>2, <1>4, <3>2
        <4>2. s[i + 1] = g[(i + 1) - 1]
          BY <1>4, <4>1
        <4> QED  BY <4>1, <4>2
      <3> QED  BY <3>1, <3>2
    <2>3. index + 1 \in 1 .. n + 1 /\ s[index + 1] = c
      BY <1>2, <1>4
    <2>4. \A k \in 1 .. n + 1 : k = index + 1 \/ \E i \in 1 .. n : k = at(i)
      <3> SUFFICES ASSUME NEW k \in 1 .. n + 1, k # index + 1  PROVE \E i \in 1 .. n : k = at(i)
        OBVIOUS
      <3>1. CASE k <= index
        <4>1. k \in 1 .. n /\ k = at(k)
          BY <1>2, <1>4, <3>1
        <4> QED  BY <4>1
      <3>2. CASE ~(k <= index)
        <4>1. k - 1 \in 1 .. n /\ ~(k - 1 <= index) /\ k = (k - 1) + 1
          BY <1>2, <1>4, <3>2
        <4> QED  BY <4>1
      <3> QED  BY <3>1, <3>2
    <2>5. \A i, j \in 1 .. n : (at(i) < at(j) <=> i < j) /\ at(i) \in Nat
      BY <1>2, <1>4
    <2>6. \A i \in 1 .. n : (at(i) < index + 1 <=> i <= index) /\ (index + 1 < at(i) <=> i > index) /\ at(i) # index + 1
      BY <1>2, <1>4
    <2> HIDE DEF at
    <2>7. \A k, l \in 1 .. Len(s) : s[k] = s[l] => k = l
      <3> SUFFICES ASSUME NEW k \in 1 .. n + 1, NEW l \in 1 .. n + 1, s[k] = s[l]  PROVE k = l
        BY <1>4
      <3>1. \A i \in 1 .. n : s[at(i)] # c /\ s[at(i)] = g[i]
        BY <2>1, <2>2
      <3>2. CASE k = index + 1 \/ l = index + 1
        BY <2>3, <2>4, <3>1, <3>2
      <3>3. CASE k # index + 1 /\ l # index + 1
        <4>1. PICK i \in 1 .. n : k = at(i)
          BY <2>4, <3>3
        <4>2. PICK j \in 1 .. n : l = at(j)
          BY <2>4, <3>3
        <4>3. g[i] = g[j]
          BY <3>1, <4>1, <4>2
        <4> QED  BY <1>3, <4>1, <4>2, <4>3
      <3> QED  BY <3>2, <3>3
    <2>8. /\ \A k \in 1 .. Len(s) : Renumbered(s)[s[k]] = PositionStep * k
          /\ \A d \in Cards : (\A k \in 1 .. Len(s) : s[k] # d) => Renumbered(s)[d] = position[d]
      BY <1>4, <2>7, RenumberedPlaces
    <2>9. (\A i \in 1 .. n : position'[g[i]] = PositionStep * at(i)) /\ position'[c] = PositionStep * (index + 1)
      BY <1>4, <1>6, <2>2, <2>3, <2>8
    <2>10. \A k, l \in Nat : /\ PositionStep * k < PositionStep * l <=> k < l
                             /\ PositionStep * k = PositionStep * l <=> k = l
      BY <1>1
    <2>11. ASSUME NEW i \in 1 .. n, NEW d \in S, d = g[i]
           PROVE  (Before(d, c)' <=> i <= index) /\ (Before(c, d)' <=> i > index)
      <3>1. position'[d] < position'[c] <=> i <= index
        BY <2>11, <1>4, <2>5, <2>6, <2>9, <2>10
      <3>2. position'[c] < position'[d] <=> i > index
        BY <2>11, <1>4, <2>5, <2>6, <2>9, <2>10
      <3>3. position'[c] # position'[d]
        BY <2>11, <1>4, <2>5, <2>6, <2>9, <2>10
      <3> QED  BY <3>1, <3>2, <3>3 DEF Before
    <2>12. ASSUME NEW d \in S, NEW e \in S  PROVE Before(d, e)' <=> Before(d, e)
      <3>1. PICK i \in 1 .. n : g[i] = d
        BY <1>3
      <3>2. PICK j \in 1 .. n : g[j] = e
        BY <1>3
      <3>3. Before(d, e) <=> i < j
        BY <1>3, <3>1, <3>2
      <3>4. position'[d] < position'[e] <=> i < j
        BY <2>5, <2>9, <2>10, <3>1, <3>2
      <3>5. position'[d] = position'[e] => d = e
        <4>1. position'[d] = position'[e] => at(i) = at(j)
          BY <2>5, <2>9, <2>10, <3>1, <3>2
        <4> QED  BY <2>2, <3>1, <3>2, <4>1
      <3>6. ~(d < d)
        BY <1>1
      <3> QED  BY <3>3, <3>4, <3>5, <3>6 DEF Before
    <2>13. \A d \in Cards \ (S \cup {c}) : position'[d] = position[d]
      <3> SUFFICES ASSUME NEW d \in Cards \ (S \cup {c})  PROVE position'[d] = position[d]
        OBVIOUS
      <3>1. \A k \in 1 .. n + 1 : s[k] # d
        BY <1>3, <2>2, <2>3, <2>4
      <3> QED  BY <1>4, <1>6, <2>8, <3>1
    <2> QED  BY <2>11, <2>12, <2>13 DEF g, n
  <1> QED  BY <1>5, <1>6 DEF Between

\* A list with one more card in it.
LEMMA InsertAtPlaces ==
    ASSUME NEW g \in Seq(Cards), NEW index \in 0 .. Len(g), NEW c \in Cards
    PROVE  /\ InsertAt(g, index + 1, c) \in Seq(Cards)
           /\ Len(InsertAt(g, index + 1, c)) = Len(g) + 1
           /\ \A i \in 1 .. Len(g) + 1 :
                 InsertAt(g, index + 1, c)[i] = IF i <= index THEN g[i]
                                                ELSE IF i = index + 1 THEN c ELSE g[i - 1]
  <1> DEFINE list == InsertAt(g, index + 1, c)
             front == SubSeq(g, 1, index)
             back  == SubSeq(g, index + 1, Len(g))
             head  == front \o <<c>>
  <1>1. list = head \o back
    <2>1. (index + 1) - 1 = index
      OBVIOUS
    <2>2. list = SubSeq(g, 1, (index + 1) - 1) \o <<c>> \o SubSeq(g, index + 1, Len(g))
      BY DEF InsertAt
    <2> QED  BY <2>1, <2>2, Zenon
  <1>2. front \in Seq(Cards) /\ Len(front) = index /\ \A i \in 1 .. index : front[i] = g[i]
    BY SubSeqProperties
  <1>3. /\ back \in Seq(Cards) /\ Len(back) = Len(g) - index
        /\ \A i \in 1 .. Len(g) - index : back[i] = g[index + i]
    <2>1. /\ index + 1 \in Int /\ Len(g) \in Int
          /\ \A i \in index + 1 .. Len(g) : g[i] \in Cards
      OBVIOUS
    <2>2. /\ back \in Seq(Cards)
          /\ Len(back) = IF index + 1 <= Len(g) THEN Len(g) - (index + 1) + 1 ELSE 0
          /\ \A i \in 1 .. Len(back) : back[i] = g[(index + 1) + i - 1]
      BY <2>1, SubSeqProperties
    <2>3. index \in Nat /\ Len(g) \in Nat /\ index <= Len(g)
      OBVIOUS
    <2> HIDE DEF back
    <2>4. Len(back) = Len(g) - index
      BY <2>2, <2>3
    <2>5. \A i \in 1 .. Len(back) : ((index + 1) + i) - 1 = index + i
      BY <2>3, <2>4
    <2> QED  BY <2>2, <2>4, <2>5
  <1> HIDE DEF front, back
  <1>4. <<c>> \in Seq(Cards) /\ Len(<<c>>) = 1 /\ <<c>>[1] = c
    OBVIOUS
  <1>5. /\ head \in Seq(Cards) /\ Len(head) = index + 1
        /\ \A i \in 1 .. index + 1 : head[i] = IF i <= index THEN g[i] ELSE c
    <2>1. /\ head \in Seq(Cards) /\ Len(head) = Len(front) + Len(<<c>>)
          /\ \A i \in 1 .. Len(front) + Len(<<c>>) :
                head[i] = IF i <= Len(front) THEN front[i] ELSE <<c>>[i - Len(front)]
      BY <1>2, <1>4, ConcatProperties
    <2> HIDE DEF head
    <2>2. \A i \in 1 .. index + 1 : IF i <= index THEN i \in 1 .. index ELSE i - index = 1
      OBVIOUS
    <2> QED  BY <1>2, <1>4, <2>1, <2>2
  <1> HIDE DEF head, list
  <1>6. /\ list \in Seq(Cards) /\ Len(list) = Len(head) + Len(back)
        /\ \A i \in 1 .. Len(head) + Len(back) :
              list[i] = IF i <= Len(head) THEN head[i] ELSE back[i - Len(head)]
    BY <1>1, <1>3, <1>5, ConcatProperties
  <1>7. Len(list) = Len(g) + 1
    BY <1>3, <1>5, <1>6
  <1>8. ASSUME NEW i \in 1 .. Len(g) + 1
        PROVE  list[i] = IF i <= index THEN g[i] ELSE IF i = index + 1 THEN c ELSE g[i - 1]
    <2>1. CASE i <= index + 1
      <3>1. i \in 1 .. index + 1 /\ i \in 1 .. Len(head) + Len(back) /\ i <= Len(head)
        BY <1>3, <1>5, <2>1
      <3>2. list[i] = head[i]
        BY <1>6, <3>1
      <3>3. ~(i <= index) => i = index + 1
        BY <2>1
      <3> QED  BY <1>5, <3>1, <3>2, <3>3
    <2>2. CASE ~(i <= index + 1)
      <3>1. i - (index + 1) \in 1 .. Len(g) - index /\ index + (i - (index + 1)) = i - 1
            /\ ~(i <= index) /\ i # index + 1 /\ i \in 1 .. Len(head) + Len(back)
        BY <1>3, <1>5, <2>2
      <3>2. list[i] = back[i - (index + 1)]
        BY <1>5, <1>6, <2>2, <3>1
      <3> QED  BY <1>3, <3>1, <3>2
    <2> QED  BY <2>1, <2>2
  <1> QED  BY <1>6, <1>7, <1>8 DEF list

\* Where a drop puts a card among a group: which cards of it stay before.
LEMMA PlaceInGroup ==
    ASSUME OrderTypeOK, NEW cards, NEW S \in SUBSET Cards, NEW pinned \in BOOLEAN,
           NEW before \in Cards \cup {Nothing}
    PROVE  LET index == PlaceIndex(cards, Sorted(S), pinned, before)
           IN  /\ index \in 0 .. Len(Sorted(S))
               /\ \A i \in 1 .. Len(Sorted(S)) :
                     i <= index <=> IF before \in S THEN Before(Sorted(S)[i], before)
                                    ELSE before = Nothing \/ pinned
  <1> DEFINE g == Sorted(S)
             n == Len(g)
             index == PlaceIndex(cards, g, pinned, before)
  <1>1. position \in [Cards -> Position]
    BY DEF OrderTypeOK, Position
  <1>2. g \in Seq(Cards) /\ n \in Nat /\ DOMAIN g = 1 .. n
    BY <1>1, SortedIsASequence
  <1>3. /\ \A d \in S : \E i \in 1 .. n : g[i] = d
        /\ \A i \in 1 .. n : g[i] \in S
        /\ \A i, j \in 1 .. n : Before(g[i], g[j]) <=> i < j
        /\ \A i, j \in 1 .. n : g[i] = g[j] => i = j
    BY <1>1, SortedTakesAll
  <1> HIDE DEF g
  <1>4. Contains(g, before) <=> before \in S
    BY <1>2, <1>3 DEF Contains
  <1>5. Nothing \notin S
    BY OrderAssumption DEF Nothing, Cards
  <1>6. CASE before \in S
    <2> DEFINE k == CHOOSE i \in DOMAIN g : g[i] = before
    <2>1. k \in 1 .. n /\ g[k] = before
      BY <1>2, <1>3, <1>6
    <2>2. index = k - 1
      BY <1>4, <1>5, <1>6 DEF PlaceIndex
    <2> HIDE DEF k, index
    <2>3. k - 1 \in 0 .. n
      BY <1>2, <2>1
    <2>4. \A i \in 1 .. n : i <= k - 1 <=> i < k
      BY <1>2, <2>1
    <2>5. \A i \in 1 .. n : Before(g[i], before) <=> i < k
      BY <1>3, <2>1
    <2> QED  BY <1>6, <2>2, <2>3, <2>4, <2>5 DEF index, g
  <1>7. CASE before \notin S
    <2>1. index = IF before = Nothing \/ pinned THEN n ELSE 0
      BY <1>4, <1>7 DEF PlaceIndex
    <2> HIDE DEF index
    <2>2. index \in 0 .. n /\ \A i \in 1 .. n : i <= index <=> before = Nothing \/ pinned
      BY <1>2, <2>1
    <2> QED  BY <1>7, <2>2 DEF index, g
  <1> QED  BY <1>6, <1>7

\* A card that was never made is not pinned.
NewAreLoose == \A c \in Cards : ~Exists(c) => ~isPinned[c]

LEMMA WhereCardsStand ==
    ASSUME OrderTypeOK
    PROVE  /\ FirstWorking \in Columns
           /\ \A c \in Cards : Stands(c) \in Columns
           /\ \A col \in Columns : In(col) = Shown(col) /\ Shown(col) \in SUBSET Cards
           /\ Ahead \in SUBSET (Cards \X Cards)
           /\ \A c, d \in Cards :
                 <<c, d>> \in Ahead <=> /\ Exists(c) /\ Exists(d) /\ Stands(c) = Stands(d)
                                        /\ ShownBefore(c, d)
  <1>1. FirstWorking \in Columns
    BY DEF OrderTypeOK, FirstWorking
  <1>2. \A c \in Cards : Stands(c) \in Columns
    BY <1>1 DEF OrderTypeOK, Stands
  <1>3. \A col \in Columns : col # Nothing
    BY OrderAssumption DEF Nothing
  <1>4. \A col \in Columns : In(col) = Shown(col)
    BY <1>3 DEF In, Shown, Stands
  <1> QED  BY <1>1, <1>2, <1>4 DEF Shown, Ahead

\* Position and key, and with them the pins, tell all cards apart.
LEMMA CardsAreInLine ==
    ASSUME OrderTypeOK, NEW c \in Cards, NEW d \in Cards, NEW e \in Cards
    PROVE  /\ ShownBefore(c, d) => ~ShownBefore(d, c)
           /\ c # d => ShownBefore(c, d) \/ ShownBefore(d, c)
           /\ ShownBefore(c, d) /\ ShownBefore(d, e) => ShownBefore(c, e)
           /\ isPinned[c] /\ ~isPinned[d] => ShownBefore(c, d)
  <1>1. /\ position[c] \in Nat /\ position[d] \in Nat /\ position[e] \in Nat
        /\ c \in Nat /\ d \in Nat /\ e \in Nat
        /\ isPinned[c] \in BOOLEAN /\ isPinned[d] \in BOOLEAN /\ isPinned[e] \in BOOLEAN
    BY OrderAssumption DEF OrderTypeOK, Cards
  <1>2. /\ Before(c, d) => ~Before(d, c)
        /\ c # d => Before(c, d) \/ Before(d, c)
        /\ Before(c, d) /\ Before(d, e) => Before(c, e)
    BY <1>1 DEF Before
  <1> QED  BY <1>1, <1>2 DEF ShownBefore

\* Every column is a list, the pinned cards first.
LEMMA ColumnsAreInLine == OrderTypeOK => List!ColumnsAreLists
  <1> SUFFICES ASSUME OrderTypeOK  PROVE List!ColumnsAreLists
    OBVIOUS
  <1>1. ASSUME NEW p \in Ahead
        PROVE  \E col \in Columns : p \in [k \in Columns |-> Shown(k)][col] \X [k \in Columns |-> Shown(k)][col]
    <2>1. /\ p \in Cards \X Cards /\ Exists(p[1]) /\ Exists(p[2]) /\ Stands(p[1]) = Stands(p[2])
      BY DEF Ahead
    <2>2. Stands(p[1]) \in Columns
      BY <2>1, WhereCardsStand
    <2>3. p \in Shown(Stands(p[1])) \X Shown(Stands(p[1]))
      BY <2>1 DEF Shown
    <2> QED  BY <2>2, <2>3
  <1>2. ASSUME NEW col \in Columns, NEW c \in Shown(col), NEW d \in Shown(col), NEW e \in Shown(col)
        PROVE  /\ <<c, d>> \in Ahead => <<d, c>> \notin Ahead
               /\ c # d => <<c, d>> \in Ahead \/ <<d, c>> \in Ahead
               /\ <<c, d>> \in Ahead /\ <<d, e>> \in Ahead => <<c, e>> \in Ahead
               /\ c \in {b \in Cards : isPinned[b]} /\ d \notin {b \in Cards : isPinned[b]} => <<c, d>> \in Ahead
    <2>1. /\ c \in Cards /\ d \in Cards /\ e \in Cards
          /\ Exists(c) /\ Exists(d) /\ Exists(e)
          /\ Stands(c) = col /\ Stands(d) = col /\ Stands(e) = col
      BY DEF Shown
    <2>2. /\ <<c, d>> \in Ahead <=> ShownBefore(c, d)
          /\ <<d, c>> \in Ahead <=> ShownBefore(d, c)
          /\ <<d, e>> \in Ahead <=> ShownBefore(d, e)
          /\ <<c, e>> \in Ahead <=> ShownBefore(c, e)
      BY <2>1, WhereCardsStand
    <2> QED  BY <2>1, <2>2, CardsAreInLine
  <1> QED  BY <1>1, <1>2 DEF List!ColumnsAreLists

\* Pairs with one card taken out and put behind the cards of F.
LEMMA OneCardMoves ==
    ASSUME NEW A \in SUBSET (Cards \X Cards), NEW B \in SUBSET (Cards \X Cards),
           NEW c \in Cards, NEW S \in SUBSET (Cards \ {c}), NEW F \in SUBSET S,
           \A d, e \in Cards \ {c} : <<d, e>> \in B <=> <<d, e>> \in A,
           \A d \in Cards : <<d, c>> \in B <=> d \in F,
           \A d \in Cards : <<c, d>> \in B <=> d \in S \ F
    PROVE  B = {p \in A : c \notin {p[1], p[2]}} \cup (F \X {c}) \cup ({c} \X (S \ F))
  <1> DEFINE C == {p \in A : c \notin {p[1], p[2]}} \cup (F \X {c}) \cup ({c} \X (S \ F))
  <1>1. C \in SUBSET (Cards \X Cards)
    OBVIOUS
  <1>2. ASSUME NEW d \in Cards, NEW e \in Cards  PROVE <<d, e>> \in B <=> <<d, e>> \in C
    <2>1. <<d, e>> \in C <=> \/ <<d, e>> \in A /\ d # c /\ e # c
                             \/ d \in F /\ e = c
                             \/ d = c /\ e \in S \ F
      OBVIOUS
    <2> HIDE DEF C
    <2> QED  BY <2>1
  <1> HIDE DEF C
  <1>3. \A p \in Cards \X Cards : p \in B <=> p \in C
    BY <1>2
  <1>4. B = C
    BY <1>1, <1>3
  <1> QED  BY <1>4 DEF C

\* One card changes its place, among the cards of col, and no other does.
LEMMA OneCardPlaced ==
    ASSUME OrderTypeOK, OrderTypeOK', NEW c \in Cards, NEW col \in Columns,
           NEW F \in SUBSET (Shown(col) \ {c}),
           Exists(c)', Stands(c)' = col,
           \A d \in Cards \ {c} : /\ Exists(d)' <=> Exists(d)
                                  /\ Stands(d)' = Stands(d) /\ isPinned'[d] = isPinned[d],
           \A d, e \in Cards \ {c} :
              Exists(d) /\ Exists(e) /\ Stands(d) = Stands(e) /\ isPinned[d] = isPinned[e]
              => (Before(d, e)' <=> Before(d, e)),
           \A d \in Shown(col) \ {c} : (d \in F <=> ShownBefore(d, c)') /\ (d \notin F <=> ShownBefore(c, d)')
    PROVE  /\ Ahead' = {p \in Ahead : c \notin {p[1], p[2]}} \cup (F \X {c})
                       \cup ({c} \X ((Shown(col) \ {c}) \ F))
           /\ \A k \in Columns : Shown(k)' = IF k = col THEN Shown(k) \cup {c} ELSE Shown(k) \ {c}
  <1>0. ~ShownBefore(c, c)'
    <2>1. position'[c] \in Nat /\ c \in Nat
      BY OrderAssumption DEF OrderTypeOK, Cards
    <2>2. ~(position'[c] < position'[c]) /\ ~(c < c)
      BY <2>1
    <2> QED  BY <2>2 DEF ShownBefore, Before
  <1>1. ASSUME NEW d \in Cards \ {c}, NEW e \in Cards \ {c}
        PROVE  <<d, e>> \in Ahead' <=> <<d, e>> \in Ahead
    <2>1. <<d, e>> \in Ahead' <=> Exists(d)' /\ Exists(e)' /\ Stands(d)' = Stands(e)' /\ ShownBefore(d, e)'
      BY DEF Ahead
    <2>2. Exists(d) /\ Exists(e) /\ Stands(d) = Stands(e) => (ShownBefore(d, e)' <=> ShownBefore(d, e))
      BY DEF ShownBefore
    <2> QED  BY <2>1, <2>2 DEF Ahead
  <1>2. ASSUME NEW d \in Cards  PROVE <<d, c>> \in Ahead' <=> d \in F
    <2>1. <<d, c>> \in Ahead' <=> Exists(d)' /\ Stands(d)' = col /\ ShownBefore(d, c)'
      BY DEF Ahead
    <2>2. CASE d = c
      BY <1>0, <2>1, <2>2
    <2>3. CASE d # c
      BY <2>1, <2>3 DEF Shown
    <2> QED  BY <2>2, <2>3
  <1>3. ASSUME NEW d \in Cards  PROVE <<c, d>> \in Ahead' <=> d \in (Shown(col) \ {c}) \ F
    <2>1. <<c, d>> \in Ahead' <=> Exists(d)' /\ Stands(d)' = col /\ ShownBefore(c, d)'
      BY DEF Ahead
    <2>2. CASE d = c
      BY <1>0, <2>1, <2>2
    <2>3. CASE d # c
      BY <2>1, <2>3 DEF Shown
    <2> QED  BY <2>2, <2>3
  <1>4. Ahead \in SUBSET (Cards \X Cards) /\ Ahead' \in SUBSET (Cards \X Cards)
    BY DEF Ahead
  <1>5. Shown(col) \ {c} \in SUBSET (Cards \ {c})
    BY DEF Shown
  <1>6. ASSUME NEW k \in Columns
        PROVE  Shown(k)' = IF k = col THEN Shown(k) \cup {c} ELSE Shown(k) \ {c}
    BY DEF Shown
  <1> QED  BY <1>1, <1>2, <1>3, <1>4, <1>5, <1>6, OneCardMoves

\* The end of a column: after the cards that are not pinned, if it is not
\* pinned itself.
LEMMA CreateIsAdd ==
    ASSUME OrderTypeOK, NewAreLoose, NEW c \in Cards, NEW col \in Columns, CreateCard(c, col)
    PROVE  List!Add(c, col) /\ c \in Cards \ UNION {Shown(k) : k \in Columns}
  <1> DEFINE o == EndPosition(col).others
             at == EndPosition(col).at
  <1>1. OrderTypeOK'
    BY CreateCardKeepsOrder
  <1>2. /\ ~Exists(c) /\ position' = [o EXCEPT ![c] = at] /\ column' = [column EXCEPT ![c] = col]
        /\ state' = [state EXCEPT ![c] = "open"] /\ UNCHANGED <<working, isPinned>>
    BY DEF CreateCard
  <1>3. /\ \A d \in Shown(col) : o[d] < at /\ o[d] \in Nat
        /\ \A d, e \in Shown(col) : o[d] < o[e] \/ (o[d] = o[e] /\ d < e) <=> Before(d, e)
        /\ \A d \in Cards \ Shown(col) : o[d] = position[d]
        /\ at \in Nat
    BY EndIsTheEnd, WhereCardsStand
  <1>4. o \in [Cards -> Position]
    BY EndIsAPosition
  <1> HIDE DEF o, at
  <1>5. position'[c] = at /\ \A d \in Cards \ {c} : position'[d] = o[d]
    BY <1>2, <1>4
  <1>6. /\ Exists(c)' /\ Stands(c)' = col
        /\ \A d \in Cards \ {c} : /\ Exists(d)' <=> Exists(d)
                                  /\ Stands(d)' = Stands(d) /\ isPinned'[d] = isPinned[d]
    <2>1. col # Nothing
      BY OrderAssumption DEF Nothing
    <2> QED  BY <1>2, <2>1 DEF OrderTypeOK, Exists, Stands, FirstWorking
  <1>7. ASSUME NEW d \in Cards \ {c}, NEW e \in Cards \ {c}, Exists(d), Exists(e), Stands(d) = Stands(e)
        PROVE  Before(d, e)' <=> Before(d, e)
    <2>1. d \in Shown(col) <=> e \in Shown(col)
      BY <1>7 DEF Shown
    <2> QED  BY <1>3, <1>5, <2>1 DEF Before
  <1>8. c \notin Shown(col)
    BY <1>2 DEF Shown
  <1>9. ASSUME NEW d \in Shown(col) \ {c}
        PROVE  ShownBefore(d, c)' /\ ~ShownBefore(c, d)'
    <2>1. position'[d] < position'[c] /\ ~(position'[c] < position'[d]) /\ position'[c] # position'[d]
      BY <1>3, <1>5 DEF Shown
    <2>2. ~isPinned'[c] /\ isPinned'[d] \in BOOLEAN /\ isPinned'[c] \in BOOLEAN
      BY <1>2 DEF NewAreLoose, OrderTypeOK, Shown
    <2> QED  BY <2>1, <2>2 DEF ShownBefore, Before
  <1>10. /\ Ahead' = {p \in Ahead : c \notin {p[1], p[2]}} \cup (Shown(col) \X {c})
                     \cup ({c} \X ((Shown(col) \ {c}) \ Shown(col)))
         /\ \A k \in Columns : Shown(k)' = IF k = col THEN Shown(k) \cup {c} ELSE Shown(k) \ {c}
    <2> DEFINE F == Shown(col)
    <2>1. F \in SUBSET (Shown(col) \ {c})
      BY <1>8
    <2>2. \A d \in Shown(col) \ {c} : (d \in F <=> ShownBefore(d, c)') /\ (d \notin F <=> ShownBefore(c, d)')
      BY <1>9
    <2>3. F = Shown(col)
      OBVIOUS
    <2> HIDE DEF F
    <2>4. /\ Ahead' = {p \in Ahead : c \notin {p[1], p[2]}} \cup (F \X {c})
                      \cup ({c} \X ((Shown(col) \ {c}) \ F))
          /\ \A k \in Columns : Shown(k)' = IF k = col THEN Shown(k) \cup {c} ELSE Shown(k) \ {c}
      BY <1>1, <1>6, <1>7, <2>1, <2>2, OneCardPlaced
    <2> QED  BY <2>3, <2>4
  <1>11. {p \in Ahead : c \notin {p[1], p[2]}} = Ahead
    BY <1>2 DEF Ahead
  <1>12. Ahead' = Ahead \cup (Shown(col) \X {c})
    BY <1>10, <1>11
  <1>13. \A k \in Columns : c \notin Shown(k)
    BY <1>2 DEF Shown
  <1>14. [k \in Columns |-> Shown(k)]' = [[k \in Columns |-> Shown(k)] EXCEPT ![col] = @ \cup {c}]
    <2>1. \A k \in Columns : Shown(k)' = IF k = col THEN Shown(k) \cup {c} ELSE Shown(k)
      BY <1>10, <1>13
    <2> QED  BY <2>1
  <1> QED  BY <1>2, <1>12, <1>13, <1>14 DEF List!Add

\* Putting a card between the pinned ones and the others, and changing its pin.
LEMMA PinnedAnew ==
    ASSUME OrderTypeOK, OrderTypeOK', NEW c \in Cards, Exists(c),
           isPinned' = [isPinned EXCEPT ![c] = ~isPinned[c]], UNCHANGED <<working, column, state>>,
           \A d, e \in Cards \ {c} :
              Exists(d) /\ Exists(e) /\ Stands(d) = Stands(e) /\ isPinned[d] = isPinned[e]
              => (Before(d, e)' <=> Before(d, e)),
           \A d \in Shown(Stands(c)) \ {c} : isPinned[d] # isPinned[c] =>
              /\ isPinned[d] => Before(d, c)' /\ ~Before(c, d)'
              /\ ~isPinned[d] => Before(c, d)' /\ ~Before(d, c)'
    PROVE  List!Pin(c, Stands(c)) /\ Stands(c) \in Columns /\ c \in Shown(Stands(c))
  <1> DEFINE col == Stands(c)
             held == {d \in Cards : isPinned[d]}
             F == (Shown(col) \ {c}) \cap held
  <1>1. col \in Columns /\ c \in Shown(col)
    BY WhereCardsStand DEF Shown
  <1>2. /\ Exists(c)' /\ Stands(c)' = col
        /\ \A d \in Cards \ {c} : /\ Exists(d)' <=> Exists(d)
                                  /\ Stands(d)' = Stands(d) /\ isPinned'[d] = isPinned[d]
        /\ isPinned'[c] = ~isPinned[c]
        /\ \A d \in Cards : isPinned[d] \in BOOLEAN
    BY DEF OrderTypeOK, Exists, Stands, FirstWorking
  <1>3. ASSUME NEW d \in Shown(col) \ {c}
        PROVE  (d \in F <=> ShownBefore(d, c)') /\ (d \notin F <=> ShownBefore(c, d)')
    <2>1. d \in Cards /\ isPinned'[d] = isPinned[d] /\ isPinned[d] \in BOOLEAN /\ isPinned[c] \in BOOLEAN
          /\ isPinned'[c] = ~isPinned[c]
      BY <1>2 DEF Shown
    <2>2. d \in F <=> isPinned[d]
      BY <1>3, <2>1
    <2> HIDE DEF F
    <2>3. CASE isPinned[d] = isPinned[c]
      BY <2>1, <2>2, <2>3 DEF ShownBefore
    <2>4. CASE isPinned[d] # isPinned[c]
      BY <2>1, <2>2, <2>4 DEF ShownBefore
    <2> QED  BY <2>3, <2>4
  <1>4. F \in SUBSET (Shown(col) \ {c})
    OBVIOUS
  <1> HIDE DEF F, col
  <1>5. /\ Ahead' = {p \in Ahead : c \notin {p[1], p[2]}} \cup (F \X {c})
                    \cup ({c} \X ((Shown(col) \ {c}) \ F))
        /\ \A k \in Columns : Shown(k)' = IF k = col THEN Shown(k) \cup {c} ELSE Shown(k) \ {c}
    BY <1>1, <1>2, <1>3, <1>4, OneCardPlaced
  <1>6. \A k \in Columns : Shown(k)' = Shown(k)
    BY <1>1, <1>5 DEF Shown, col
  <1>7. [k \in Columns |-> Shown(k)]' = [k \in Columns |-> Shown(k)]
    BY <1>6
  <1>8. {d \in Cards : isPinned[d]}' = IF c \in held THEN held \ {c} ELSE held \cup {c}
    BY <1>2
  <1>9. [k \in Columns |-> Shown(k)][col] = Shown(col)
    BY <1>1
  <1> QED  BY <1>1, <1>5, <1>7, <1>8, <1>9 DEF List!Pin, List!Inserted, F, col

LEMMA PinIsPin ==
    ASSUME OrderTypeOK, NEW c \in Cards, PinCard(c)
    PROVE  List!Pin(c, Stands(c)) /\ Stands(c) \in Columns /\ c \in Shown(Stands(c))
  <1> DEFINE col == Stands(c)
             o == EndPosition(col).others
             at == EndPosition(col).at
  <1>1. OrderTypeOK'
    BY PinCardKeepsOrder
  <1>2. /\ Exists(c) /\ ~isPinned[c] /\ position' = [o EXCEPT ![c] = at]
        /\ isPinned' = [isPinned EXCEPT ![c] = TRUE] /\ UNCHANGED <<working, column, state>>
    BY DEF PinCard, Exists
  <1>3. /\ \A d \in Shown(col) : o[d] < at /\ o[d] \in Nat
        /\ \A d, e \in Shown(col) : o[d] < o[e] \/ (o[d] = o[e] /\ d < e) <=> Before(d, e)
        /\ \A d \in Cards \ Shown(col) : o[d] = position[d]
        /\ at \in Nat
    BY EndIsTheEnd, WhereCardsStand
  <1>4. o \in [Cards -> Position]
    BY EndIsAPosition
  <1> HIDE DEF o, at
  <1>5. position'[c] = at /\ \A d \in Cards \ {c} : position'[d] = o[d]
    BY <1>2, <1>4
  <1>6. ASSUME NEW d \in Cards \ {c}, NEW e \in Cards \ {c}, Exists(d), Exists(e), Stands(d) = Stands(e)
        PROVE  Before(d, e)' <=> Before(d, e)
    <2>1. d \in Shown(col) <=> e \in Shown(col)
      BY <1>6 DEF Shown
    <2> QED  BY <1>3, <1>5, <2>1 DEF Before
  <1>7. ASSUME NEW d \in Shown(col) \ {c}  PROVE Before(d, c)' /\ ~Before(c, d)'
    <2>1. position'[d] < position'[c] /\ ~(position'[c] < position'[d]) /\ position'[c] # position'[d]
      BY <1>3, <1>5 DEF Shown
    <2> QED  BY <2>1 DEF Before
  <1>8. isPinned' = [isPinned EXCEPT ![c] = ~isPinned[c]]
    BY <1>2
  <1>9. ASSUME NEW d \in Shown(Stands(c)) \ {c}, isPinned[d] # isPinned[c]
        PROVE  /\ isPinned[d] => Before(d, c)' /\ ~Before(c, d)'
               /\ ~isPinned[d] => Before(c, d)' /\ ~Before(d, c)'
    <2>1. isPinned[d]
      BY <1>2, <1>9 DEF OrderTypeOK, Shown
    <2> QED  BY <1>7, <1>9, <2>1
  <1>10. \A d, e \in Cards \ {c} :
            Exists(d) /\ Exists(e) /\ Stands(d) = Stands(e) /\ isPinned[d] = isPinned[e]
            => (Before(d, e)' <=> Before(d, e))
    BY <1>6
  <1> HIDE DEF col
  <1> QED  BY <1>1, <1>2, <1>8, <1>9, <1>10, PinnedAnew

LEMMA UnpinIsPin ==
    ASSUME OrderTypeOK, NEW c \in Cards, UnpinCard(c)
    PROVE  List!Pin(c, Stands(c)) /\ Stands(c) \in Columns /\ c \in Shown(Stands(c))
  <1> DEFINE col == Stands(c)
             S == {d \in Shown(col) : ~isPinned[d]}
             g == Sorted(S)
             n == Len(g)
             new == IF g # <<>> /\ position[Head(g)] >= 2 THEN position[Head(g)] \div 2 ELSE 0
             list == <<c>> \o g
  <1>1. OrderTypeOK'
    BY UnpinCardKeepsOrder
  <1>2. /\ Exists(c) /\ isPinned[c]
        /\ isPinned' = [isPinned EXCEPT ![c] = FALSE] /\ UNCHANGED <<working, column, state>>
    BY DEF UnpinCard, Exists
  <1>3. position' = IF g # <<>> /\ position[Head(g)] >= 2
                    THEN [position EXCEPT ![c] = new] ELSE Renumbered(list)
    <2>1. S = {d \in In(Stands(c)) : ~isPinned[d]}
      BY WhereCardsStand
    <2> HIDE DEF S
    <2> QED  BY <2>1 DEF UnpinCard
  <1>4. S \in SUBSET (Cards \ {c}) /\ S \in SUBSET Cards
    BY <1>2 DEF Shown
  <1> HIDE DEF S
  <1>5. position \in [Cards -> Position] /\ \A d \in Cards : position[d] \in Nat /\ position[d] <= MaxPosition
    BY OrderAssumption DEF OrderTypeOK, Position
  <1>6. g \in Seq(Cards) /\ n \in Nat
    BY <1>4, <1>5, SortedIsASequence
  <1>7. /\ \A d \in S : \E i \in 1 .. n : g[i] = d
        /\ \A i \in 1 .. n : g[i] \in S
        /\ \A i, j \in 1 .. n : Before(g[i], g[j]) <=> i < j
    BY <1>4, <1>5, SortedTakesAll
  <1> HIDE DEF g
  <1>8. /\ list \in Seq(Cards) /\ Len(list) = n + 1
        /\ \A i \in 1 .. Len(list) : list[i] = IF i <= 0 THEN g[i] ELSE IF i = 0 + 1 THEN c ELSE g[i - 1]
    <2>1. <<c>> \in Seq(Cards) /\ Len(<<c>>) = 1 /\ <<c>>[1] = c
      OBVIOUS
    <2>2. /\ list \in Seq(Cards) /\ Len(list) = 1 + n
          /\ \A i \in 1 .. 1 + n : list[i] = IF i <= 1 THEN <<c>>[i] ELSE g[i - 1]
      BY <1>6, <2>1, ConcatProperties
    <2> HIDE DEF list
    <2> QED  BY <1>6, <2>1, <2>2
  <1>9. new \in Position /\
        (g # <<>> /\ position[Head(g)] >= 2 => \A i \in 0 + 1 .. n : new < position[g[i]])
    <2>1. CASE g # <<>> /\ position[Head(g)] >= 2
      <3>1. n > 0 /\ Head(g) = g[1] /\ g[1] \in Cards
        BY <1>6, <2>1
      <3>2. new \in Position /\ new < position[g[1]]
        BY <1>5, <2>1, <3>1, OrderAssumption DEF Position
      <3>3. ASSUME NEW i \in 1 .. n  PROVE position[g[1]] <= position[g[i]]
        <4>1. 1 \in 1 .. n /\ g[i] \in Cards /\ position[g[i]] \in Nat /\ position[g[1]] \in Nat
          BY <1>5, <1>6, <3>1
        <4>2. CASE i = 1
          BY <4>1, <4>2
        <4>3. CASE i # 1
          <5>1. Before(g[1], g[i])
            BY <1>6, <1>7, <4>1, <4>3
          <5> QED  BY <4>1, <5>1 DEF Before
        <4> QED  BY <4>2, <4>3
      <3>4. ASSUME NEW i \in 1 .. n  PROVE new < position[g[i]]
        <4>1. new \in Nat /\ position[g[1]] \in Nat /\ position[g[i]] \in Nat
          BY <1>5, <1>6, <3>1, <3>2, OrderAssumption DEF Position
        <4>2. position[g[1]] <= position[g[i]]
          BY <3>3
        <4> HIDE DEF new
        <4> QED  BY <3>2, <4>1, <4>2
      <3> QED  BY <3>2, <3>4
    <2>2. CASE ~(g # <<>> /\ position[Head(g)] >= 2)
      BY <2>2, OrderAssumption DEF Position
    <2> QED  BY <2>1, <2>2
  <1>10. \/ position' = Renumbered(list)
         \/ position' = [position EXCEPT ![c] = new] /\ Between(new, S, 0)
    <2>1. \A i \in 1 .. 0 : FALSE
      OBVIOUS
    <2> HIDE DEF new, list
    <2> QED  BY <1>3, <1>9, <2>1 DEF Between, g
  <1> HIDE DEF new, list
  <1>11. /\ \A d, e \in S : Before(d, e)' <=> Before(d, e)
         /\ \A i \in 1 .. n : \A d \in S : d = g[i] => /\ Before(d, c)' <=> i <= 0
                                                       /\ Before(c, d)' <=> i > 0
         /\ \A d \in Cards \ (S \cup {c}) : position'[d] = position[d]
    <2>1. 0 \in 0 .. Len(Sorted(S))
      BY <1>6 DEF g
    <2>2. ListWith(list, S, 0, c)
      BY <1>8 DEF ListWith, g
    <2>3. new \in Position
      BY <1>9
    <2> QED  BY <1>4, <1>10, <2>1, <2>2, <2>3, PlacedAmong DEF g
  <1>12. ASSUME NEW d \in Cards \ {c}, NEW e \in Cards \ {c},
                Exists(d), Exists(e), Stands(d) = Stands(e), isPinned[d] = isPinned[e]
         PROVE  Before(d, e)' <=> Before(d, e)
    <2>1. d \in S <=> e \in S
      BY <1>12 DEF S, Shown
    <2> QED  BY <1>11, <2>1 DEF Before
  <1>13. ASSUME NEW d \in Shown(col) \ {c}, ~isPinned[d]  PROVE Before(c, d)' /\ ~Before(d, c)'
    <2>1. d \in S
      BY <1>13 DEF S
    <2>2. PICK i \in 1 .. n : g[i] = d
      BY <1>7, <2>1
    <2> QED  BY <1>11, <2>1, <2>2
  <1>14. isPinned' = [isPinned EXCEPT ![c] = ~isPinned[c]]
    BY <1>2
  <1> QED  BY <1>1, <1>2, <1>12, <1>13, <1>14, PinnedAnew

\* What a drop writes to a card lies between those before and those after it.
LEMMA GapIsThere ==
    ASSUME OrderTypeOK, NEW cards \in SUBSET Cards, NEW S \in SUBSET cards, NEW pinned \in BOOLEAN,
           NEW index \in 0 .. Len(Sorted(S))
    PROVE  LET group == Sorted(S)
               lower == IF index > 0 THEN position[group[index]] ELSE 0
               new   == IF index < Len(group) THEN Middle(lower, position[group[index + 1]])
                        ELSE After(cards, group, pinned)
           IN  /\ new \in Position
               /\ new # Nothing => /\ \A i \in 1 .. index : position[group[i]] < new
                                   /\ \A i \in index + 1 .. Len(group) : new < position[group[i]]
  <1> DEFINE g == Sorted(S)
             n == Len(g)
             lower == IF index > 0 THEN position[g[index]] ELSE 0
             new == IF index < n THEN Middle(lower, position[g[index + 1]]) ELSE After(cards, g, pinned)
  <1>1. /\ position \in [Cards -> Position] /\ S \in SUBSET Cards
        /\ \A d \in Cards : position[d] \in Nat /\ position[d] <= MaxPosition
        /\ MaxPosition \in Nat /\ PositionStep \in Nat /\ PositionStep > 0
    BY OrderAssumption DEF OrderTypeOK, Position
  <1>2. g \in Seq(Cards) /\ n \in Nat
    BY <1>1, SortedIsASequence
  <1>3. /\ \A i \in 1 .. n : g[i] \in S
        /\ \A i, j \in 1 .. n : Before(g[i], g[j]) <=> i < j
    BY <1>1, SortedTakesAll
  <1> HIDE DEF g
  <1>4. \A i \in 1 .. n : g[i] \in Cards /\ position[g[i]] \in Nat /\ position[g[i]] <= MaxPosition
    BY <1>1, <1>3
  <1>5. ASSUME NEW i \in 1 .. n, NEW j \in 1 .. n, i <= j
        PROVE  position[g[i]] <= position[g[j]]
    <2>1. CASE i = j
      BY <1>4, <2>1
    <2>2. CASE i < j
      <3>1. Before(g[i], g[j])
        BY <1>3, <2>2
      <3> QED  BY <1>4, <3>1 DEF Before
    <2> QED  BY <1>5, <2>1, <2>2
  <1>6. index \in Nat /\ index <= n
    BY <1>2 DEF g
  <1>7. CASE index < n
    <2> DEFINE u == position[g[index + 1]]
    <2>1. index + 1 \in 1 .. n /\ u \in Nat /\ u <= MaxPosition
      BY <1>2, <1>4, <1>6, <1>7
    <2>2. lower \in Nat /\ (index > 0 => index \in 1 .. n /\ lower = position[g[index]])
      BY <1>2, <1>4, <1>6
    <2>3. \A i \in 1 .. index : position[g[i]] <= lower
      <3> SUFFICES ASSUME NEW i \in 1 .. index  PROVE position[g[i]] <= lower
        OBVIOUS
      <3>1. index > 0 /\ i \in 1 .. n /\ i <= index
        BY <1>2, <1>6
      <3> QED  BY <1>5, <2>2, <3>1
    <2>4. \A i \in index + 1 .. n : u <= position[g[i]]
      <3> SUFFICES ASSUME NEW i \in index + 1 .. n  PROVE u <= position[g[i]]
        OBVIOUS
      <3>1. i \in 1 .. n /\ index + 1 <= i
        BY <1>2, <1>6
      <3> QED  BY <1>5, <2>1, <3>1
    <2>5. \A i \in 1 .. index : position[g[i]] \in Nat
      BY <1>2, <1>4, <1>6
    <2>6. \A i \in index + 1 .. n : position[g[i]] \in Nat
      BY <1>2, <1>4, <1>6
    <2>7. new = IF u - lower >= 2 THEN (lower + u) \div 2 ELSE 0
      BY <1>7 DEF Middle, Nothing
    <2> HIDE DEF u, lower, new
    <2>8. CASE u - lower >= 2
      <3>1. new \in Nat /\ lower < new /\ new < u /\ new <= MaxPosition
        BY <1>1, <2>1, <2>2, <2>7, <2>8
      <3>2. \A i \in 1 .. index : position[g[i]] < new
        BY <2>2, <2>3, <2>5, <3>1
      <3>3. \A i \in index + 1 .. n : new < position[g[i]]
        BY <2>1, <2>4, <2>6, <3>1
      <3> QED  BY <1>1, <3>1, <3>2, <3>3 DEF Position, new, g, lower
    <2>9. CASE ~(u - lower >= 2)
      <3>1. new = 0
        BY <2>7, <2>9
      <3> QED  BY <1>1, <3>1 DEF Position, Nothing, new, g, lower
    <2> QED  BY <2>8, <2>9
  <1>8. CASE ~(index < n)
    <2> DEFINE last == IF pinned THEN LastPosition(Range(g)) ELSE LastPosition(cards)
    <2>1. Range(g) \in SUBSET Cards /\ \A i \in 1 .. n : g[i] \in Range(g) /\ g[i] \in cards
      BY <1>2, <1>3 DEF Range
    <2>2. last \in Nat /\ \A i \in 1 .. n : position[g[i]] <= last
      <3>1. LastPosition(cards) \in Position /\ \A d \in cards : position[d] <= LastPosition(cards)
        BY <1>1, LastIsAPosition
      <3>2. LastPosition(Range(g)) \in Position /\ \A d \in Range(g) : position[d] <= LastPosition(Range(g))
        BY <1>1, <2>1, LastIsAPosition
      <3> QED  BY <1>1, <2>1, <3>1, <3>2 DEF Position
    <2>3. new = IF last + PositionStep <= MaxPosition THEN last + PositionStep ELSE 0
      BY <1>8 DEF After, Nothing
    <2> HIDE DEF last, new
    <2>4. new \in Nat /\ new <= MaxPosition
      BY <1>1, <2>2, <2>3
    <2>5. index = n
      BY <1>2, <1>6, <1>8
    <2>6. new # 0 => \A i \in 1 .. n : position[g[i]] < new
      BY <1>1, <1>4, <2>2, <2>3
    <2>7. \A i \in index + 1 .. n : FALSE
      BY <1>2, <2>5
    <2> QED  BY <1>1, <2>4, <2>5, <2>6, <2>7 DEF Position, Nothing, new, g, lower
  <1> QED  BY <1>7, <1>8

\* A drop puts the card right before the one it was dropped before.
LEMMA MoveIsMove ==
    ASSUME OrderTypeOK, NEW c \in Cards, NEW col \in Columns, NEW before \in Cards \cup {Nothing},
           MoveCard(c, col, before)
    PROVE  /\ List!Move(c, Stands(c), col, before)
           /\ Stands(c) \in Columns /\ c \in Shown(Stands(c)) /\ before \in Shown(col) \cup {0}
  <1> DEFINE from == Stands(c)
             pinned == isPinned[c] /\ col = from
             cards == Shown(col) \ {c}
             S == {d \in cards : isPinned[d] = pinned}
             g == Sorted(S)
             n == Len(g)
             index == PlaceIndex(cards, g, pinned, before)
             lower == IF index > 0 THEN position[g[index]] ELSE 0
             new == IF index < n THEN Middle(lower, position[g[index + 1]]) ELSE After(cards, g, pinned)
             list == InsertAt(g, index + 1, c)
  <1>1. OrderTypeOK'
    BY MoveCardKeepsOrder
  <1>2. /\ Exists(c) /\ (before = Nothing \/ before \in cards)
        /\ isPinned' = [isPinned EXCEPT ![c] = pinned]
        /\ position' = IF new = Nothing THEN Renumbered(list) ELSE [position EXCEPT ![c] = new]
        /\ column' = [column EXCEPT ![c] = col] /\ UNCHANGED <<working, state>>
    <2>1. In(col) = Shown(col)
      BY WhereCardsStand
    <2> QED  BY <2>1 DEF MoveCard, Exists
  <1>3. /\ position \in [Cards -> Position] /\ cards \in SUBSET Cards /\ S \in SUBSET cards
        /\ S \in SUBSET (Cards \ {c}) /\ S \in SUBSET Cards
        /\ pinned \in BOOLEAN /\ from \in Columns /\ c \in Shown(from)
        /\ \A d \in Cards : isPinned[d] \in BOOLEAN
    BY <1>2, WhereCardsStand DEF OrderTypeOK, Position, Shown
  <1>4. \A d \in cards : d \in S <=> isPinned[d] = pinned
    OBVIOUS
  <1> HIDE DEF S, pinned, from
  <1>5. /\ index \in 0 .. n
        /\ \A i \in 1 .. n : i <= index <=> IF before \in S THEN Before(g[i], before) ELSE before = Nothing \/ pinned
    BY <1>3, PlaceInGroup
  <1> HIDE DEF index
  <1>6. /\ new \in Position
        /\ new # Nothing => /\ \A i \in 1 .. index : position[g[i]] < new
                            /\ \A i \in index + 1 .. n : new < position[g[i]]
    BY <1>3, <1>5, GapIsThere
  <1>7. g \in Seq(Cards)
    BY <1>3, SortedIsASequence
  <1>8. /\ list \in Seq(Cards) /\ Len(list) = n + 1
        /\ \A i \in 1 .. n + 1 : list[i] = IF i <= index THEN g[i] ELSE IF i = index + 1 THEN c ELSE g[i - 1]
    BY <1>5, <1>7, InsertAtPlaces
  <1> HIDE DEF new, list
  <1>9. /\ \A d, e \in S : Before(d, e)' <=> Before(d, e)
        /\ \A i \in 1 .. n : \A d \in S : d = g[i] => /\ Before(d, c)' <=> i <= index
                                                      /\ Before(c, d)' <=> i > index
        /\ \A d \in Cards \ (S \cup {c}) : position'[d] = position[d]
    <2>1. ListWith(list, S, index, c)
      BY <1>8 DEF ListWith
    <2>2. \/ position' = Renumbered(list)
          \/ position' = [position EXCEPT ![c] = new] /\ Between(new, S, index)
      BY <1>2, <1>6 DEF Between
    <2>3. S \in SUBSET (Cards \ {c}) /\ index \in 0 .. Len(Sorted(S)) /\ new \in Position
      BY <1>3, <1>5, <1>6
    <2> QED  BY <2>1, <2>2, <2>3, PlacedAmong
  <1>10. \A d \in S : \E i \in 1 .. n : g[i] = d
    BY <1>3, SortedTakesAll
  <1> HIDE DEF g
  <1>11. /\ Exists(c)' /\ Stands(c)' = col
         /\ \A d \in Cards \ {c} : /\ Exists(d)' <=> Exists(d)
                                   /\ Stands(d)' = Stands(d) /\ isPinned'[d] = isPinned[d]
         /\ isPinned'[c] = pinned
    <2>1. col # Nothing
      BY OrderAssumption DEF Nothing
    <2> QED  BY <1>2, <2>1 DEF OrderTypeOK, Exists, Stands, FirstWorking
  <1>12. ASSUME NEW d \in Cards \ {c}, NEW e \in Cards \ {c},
                Exists(d), Exists(e), Stands(d) = Stands(e), isPinned[d] = isPinned[e]
         PROVE  Before(d, e)' <=> Before(d, e)
    <2>1. d \in S <=> e \in S
      BY <1>12 DEF S, Shown
    <2> QED  BY <1>9, <2>1 DEF Before
  <1> DEFINE F == {d \in cards : IF d \in S THEN Before(d, c)' ELSE ~pinned}
  <1>13. ASSUME NEW d \in cards
         PROVE  (d \in F <=> ShownBefore(d, c)') /\ (d \notin F <=> ShownBefore(c, d)')
    <2>1. /\ d \in Cards /\ isPinned'[d] = isPinned[d] /\ isPinned'[c] = pinned
          /\ isPinned[d] \in BOOLEAN /\ pinned \in BOOLEAN
      BY <1>3, <1>11
    <2>2. CASE d \in S
      <3>1. PICK i \in 1 .. n : g[i] = d
        BY <1>10, <2>2
      <3>2. i <= index <=> ~(i > index)
        BY <1>5
      <3>3. Before(d, c)' <=> ~Before(c, d)'
        BY <1>9, <2>2, <3>1, <3>2
      <3> QED  BY <1>4, <2>1, <2>2, <3>3 DEF ShownBefore
    <2>3. CASE d \notin S
      <3>1. d \in F <=> ~pinned
        BY <2>3
      <3>2. isPinned[d] = ~pinned
        BY <1>4, <2>1, <2>3
      <3> HIDE DEF F
      <3> QED  BY <2>1, <3>1, <3>2 DEF ShownBefore
    <2> QED  BY <2>2, <2>3
  <1>14. F \in SUBSET cards
    OBVIOUS
  <1>15. \A d \in cards : d \in F <=> IF d \in S
                                      THEN IF before \in S THEN Before(d, before) ELSE before = Nothing \/ pinned
                                      ELSE ~pinned
    <2> SUFFICES ASSUME NEW d \in cards, d \in S
                 PROVE  Before(d, c)' <=> IF before \in S THEN Before(d, before) ELSE before = Nothing \/ pinned
      OBVIOUS
    <2>1. PICK i \in 1 .. n : g[i] = d
      BY <1>10
    <2> QED  BY <1>5, <1>9, <2>1
  <1> HIDE DEF F
  <1>16. /\ Ahead' = {p \in Ahead : c \notin {p[1], p[2]}} \cup (F \X {c}) \cup ({c} \X (cards \ F))
         /\ \A k \in Columns : Shown(k)' = IF k = col THEN Shown(k) \cup {c} ELSE Shown(k) \ {c}
    BY <1>1, <1>11, <1>12, <1>13, <1>14, OneCardPlaced
  <1> DEFINE held == {d \in Cards : isPinned'[d]}
             mine == {d \in cards : d \in held <=> c \in held}
  <1>17. mine = S
    <2>1. \A d \in cards : d \in held <=> isPinned[d]
      BY <1>3, <1>11
    <2>2. c \in held <=> pinned
      BY <1>11
    <2> HIDE DEF held
    <2>3. \A d \in cards : d \in mine <=> d \in S
      BY <1>3, <1>4, <2>1, <2>2
    <2> QED  BY <1>3, <2>3
  <1>18. c \in held <=> pinned
    BY <1>11
  <1>19. /\ before \in cards \/ before = Nothing
         /\ Nothing \notin cards
    BY <1>2, <1>3, OrderAssumption DEF Nothing, Cards
  <1>20. before \in S => \A d \in S : <<d, before>> \in Ahead <=> Before(d, before)
    <2> SUFFICES ASSUME before \in S, NEW d \in S
                 PROVE  <<d, before>> \in Ahead <=> Before(d, before)
      OBVIOUS
    <2>1. /\ d \in Cards /\ before \in Cards /\ isPinned[d] = isPinned[before]
          /\ Exists(d) /\ Exists(before) /\ Stands(d) = col /\ Stands(before) = col
      BY <1>3, <1>4 DEF Shown
    <2> QED  BY <2>1 DEF Ahead, ShownBefore
  <1> DEFINE front == IF c \in held
                      THEN {d \in mine : before \in mine => <<d, before>> \in Ahead}
                      ELSE (cards \ mine) \cup
                           {d \in mine : before \notin cards \ mine /\ (before \in mine => <<d, before>> \in Ahead)}
  <1>21. front = F
    <2> HIDE DEF held, mine
    <2>1. \A d \in cards : d \in front <=> d \in F
      BY <1>3, <1>15, <1>17, <1>18, <1>19, <1>20
    <2>2. front \in SUBSET cards
      BY <1>3, <1>17
    <2> QED  BY <1>14, <2>1, <2>2
  <1>22. front = List!Front(c, cards, held, before)
    BY DEF List!Front
  <1>23. {d \in Cards : isPinned[d]}' = IF from = col THEN {d \in Cards : isPinned[d]} ELSE {d \in Cards : isPinned[d]} \ {c}
    BY <1>3, <1>11 DEF pinned
  <1>24. [k \in Columns |-> Shown(k)]' = [k \in Columns |-> IF k = col THEN [j \in Columns |-> Shown(j)][k] \cup {c}
                                                          ELSE [j \in Columns |-> Shown(j)][k] \ {c}]
    BY <1>16
  <1>25. [k \in Columns |-> Shown(k)][col] \ {c} = cards
    OBVIOUS
  <1>26. held = {d \in Cards : isPinned[d]}'
    OBVIOUS
  <1> HIDE DEF front, held, cards
  <1>27. Ahead' = List!Inserted(c, cards, List!Front(c, cards, held, before))
    BY <1>16, <1>21, <1>22 DEF List!Inserted
  <1>28. List!Move(c, from, col, before)
    BY <1>23, <1>24, <1>25, <1>26, <1>27 DEF List!Move
  <1> QED  BY <1>3, <1>19, <1>28 DEF from, cards, Nothing

\* Cards that stand where they stood make the same lists.
LEMMA NobodyMoves ==
    ASSUME UNCHANGED <<position, isPinned>>,
           \A c \in Cards : (Exists(c)' <=> Exists(c)) /\ (Exists(c) => Stands(c)' = Stands(c))
    PROVE  UNCHANGED List!vars
  <1>1. [k \in Columns |-> Shown(k)]' = [k \in Columns |-> Shown(k)]
    <2>1. \A k \in Columns : Shown(k)' = Shown(k)
      BY DEF Shown
    <2> QED  BY <2>1
  <1>2. \A c, d \in Cards : ShownBefore(c, d)' <=> ShownBefore(c, d)
    BY DEF ShownBefore, Before
  <1>3. Ahead' = Ahead
    BY <1>2 DEF Ahead
  <1>4. {c \in Cards : isPinned[c]}' = {c \in Cards : isPinned[c]}
    OBVIOUS
  <1> QED  BY <1>1, <1>3, <1>4 DEF List!vars

\* Cards that go to another column without being written join it in order.
LEMMA SomeJoin ==
    ASSUME OrderTypeOK, OrderTypeOK', UNCHANGED <<position, isPinned, state>>,
           NEW from \in Columns, NEW into \in Columns,
           \A c \in Cards : Exists(c) =>
              Stands(c)' = Stands(c) \/ (Stands(c) = from /\ Stands(c)' = into)
    PROVE  [List!Next]_List!vars
  <1>1. \A c \in Cards : Exists(c)' <=> Exists(c)
    BY DEF Exists
  <1>2. CASE from = into
    BY <1>1, <1>2, NobodyMoves
  <1>3. CASE from # into
    <2> DEFINE joined == {c \in Shown(from) : Stands(c)' = into}
               lists == [k \in Columns |-> Shown(k)]
    <2>1. ASSUME NEW k \in Columns
          PROVE  Shown(k)' = IF k = from THEN Shown(k) \ joined
                             ELSE IF k = into THEN Shown(k) \cup joined ELSE Shown(k)
      BY <1>1, <1>3 DEF Shown
    <2> HIDE DEF joined
    <2>2. lists' = [lists EXCEPT ![from] = @ \ joined, ![into] = @ \cup joined]
      BY <1>3, <2>1
    <2>3. joined \in SUBSET lists[from]
      BY DEF joined
    <2>4. UNCHANGED {c \in Cards : isPinned[c]}
      OBVIOUS
    <2>5. ASSUME NEW k \in Columns, NEW l \in Columns,
                 NEW c \in Shown(k) \cap Shown(l)', NEW d \in Shown(k) \cap Shown(l)'
          PROVE  <<c, d>> \in Ahead' <=> <<c, d>> \in Ahead
      <3>1. /\ c \in Cards /\ d \in Cards /\ Exists(c) /\ Exists(d) /\ Stands(c) = Stands(d)
            /\ Exists(c)' /\ Exists(d)' /\ Stands(c)' = Stands(d)'
        BY DEF Shown
      <3>2. ShownBefore(c, d)' <=> ShownBefore(c, d)
        BY DEF ShownBefore, Before
      <3> QED  BY <3>1, <3>2 DEF Ahead
    <2>6. \A k, l \in Columns : \A c, d \in lists[k] \cap (lists')[l] :
              <<c, d>> \in Ahead' <=> <<c, d>> \in Ahead
      BY <2>5
    <2>7. List!ColumnsAreLists'
      BY ColumnsAreInLine, PTL
    <2> HIDE DEF lists
    <2>8. List!Join(from, into)
      BY <2>2, <2>3, <2>4, <2>6, <2>7 DEF List!Join, lists
    <2> QED  BY <1>3, <2>8 DEF List!Next
  <1> QED  BY <1>2, <1>3

LEMMA MoveColumnJoins ==
    ASSUME OrderTypeOK, OrderTypeOK', NEW i, MoveColumn(i)
    PROVE  [List!Next]_List!vars
  <1>1. FirstWorking \in Columns /\ FirstWorking' \in Columns
    BY DEF OrderTypeOK, FirstWorking
  <1>2. \A c \in Cards : Stands(c)' = Stands(c) \/ (Stands(c) = FirstWorking /\ Stands(c)' = FirstWorking')
    <2>1. column' = column
      BY DEF MoveColumn
    <2>2. ASSUME NEW c \in Cards
          PROVE  Stands(c)' = Stands(c) \/ (Stands(c) = FirstWorking /\ Stands(c)' = FirstWorking')
      <3>1. Stands(c)' = IF column[c] = Nothing THEN FirstWorking' ELSE column[c]
        BY <2>1 DEF Stands, Nothing
      <3> QED  BY <3>1 DEF Stands
    <2> QED  BY <2>2
  <1>3. PICK from \in Columns, into \in Columns : from = FirstWorking /\ into = FirstWorking'
    BY <1>1
  <1> QED  BY <1>2, <1>3, SomeJoin DEF MoveColumn

LEMMA DeleteColumnJoins ==
    ASSUME OrderTypeOK, OrderTypeOK', NEW col \in Columns, DeleteColumn(col)
    PROVE  [List!Next]_List!vars
  <1>1. PICK i \in DOMAIN working : working[i] = col /\ working' = RemoveAt(working, i)
    BY DEF DeleteColumn
  <1>2. FirstWorking' \in Columns
    BY DEF OrderTypeOK, FirstWorking
  <1>3. col # Nothing
    BY OrderAssumption DEF Nothing
  <1>4. FirstWorking = col \/ FirstWorking' = FirstWorking
    <2>1. working \in Seq(Columns) /\ working # <<>> /\ i \in 1 .. Len(working) /\ Len(working) \in Nat
          /\ working' \in Seq(Columns) /\ working' # <<>>
      BY <1>1 DEF OrderTypeOK
    <2>2. FirstWorking = working[1] /\ FirstWorking' = working'[1]
      BY <2>1 DEF FirstWorking
    <2>3. CASE i = 1
      BY <1>1, <2>2, <2>3
    <2>4. CASE i # 1
      <3> DEFINE front == SubSeq(working, 1, i - 1)
                 back  == SubSeq(working, i + 1, Len(working))
      <3>1. front \in Seq(Columns) /\ Len(front) = i - 1 /\ \A k \in 1 .. i - 1 : front[k] = working[k]
        BY <2>1, SubSeqProperties
      <3>2. back \in Seq(Columns)
        BY <2>1, SubSeqProperties
      <3>3. working' = front \o back
        BY <1>1 DEF RemoveAt
      <3> HIDE DEF front, back
      <3>4. /\ Len(front \o back) = Len(front) + Len(back)
            /\ \A k \in 1 .. Len(front) + Len(back) :
                  (front \o back)[k] = IF k <= Len(front) THEN front[k] ELSE back[k - Len(front)]
        BY <3>1, <3>2, ConcatProperties
      <3>5. 1 \in 1 .. i - 1 /\ 1 <= Len(front) /\ 1 \in 1 .. Len(front) + Len(back)
        BY <2>1, <2>4, <3>1, <3>2
      <3> QED  BY <2>2, <3>1, <3>3, <3>4, <3>5
    <2> QED  BY <2>3, <2>4
  <1>5. \A c \in Cards : Stands(c)' = Stands(c) \/ (Stands(c) = col /\ Stands(c)' = FirstWorking')
    <2>1. ASSUME NEW c \in Cards
          PROVE  column'[c] = IF column[c] = col THEN Nothing ELSE column[c]
      BY DEF DeleteColumn
    <2>2. ASSUME NEW c \in Cards
          PROVE  Stands(c)' = Stands(c) \/ (Stands(c) = col /\ Stands(c)' = FirstWorking')
      <3>1. Stands(c)' = IF column'[c] = Nothing THEN FirstWorking' ELSE column'[c]
        BY DEF Stands, Nothing
      <3>2. Stands(c) = IF column[c] = Nothing THEN FirstWorking ELSE column[c]
        BY DEF Stands
      <3>3. CASE column[c] = col
        BY <1>3, <2>1, <3>1, <3>2, <3>3
      <3>4. CASE column[c] # col /\ column[c] = Nothing
        BY <1>4, <2>1, <3>1, <3>2, <3>4
      <3>5. CASE column[c] # col /\ column[c] # Nothing
        BY <2>1, <3>1, <3>2, <3>5
      <3> QED  BY <3>3, <3>4, <3>5
    <2> QED  BY <2>2
  <1>6. PICK into \in Columns : into = FirstWorking'
    BY <1>2
  <1> QED  BY <1>5, <1>6, SomeJoin DEF DeleteColumn

\* No step pins a card that was never made.
LEMMA LooseStay == OrderSpec => []NewAreLoose
  <1>1. OrderInit => NewAreLoose
    BY DEF OrderInit, NewAreLoose
  <1>2. OrderTypeOK /\ NewAreLoose /\ [OrderNext]_orderVars => NewAreLoose'
    <2> SUFFICES ASSUME OrderTypeOK, NewAreLoose, [OrderNext]_orderVars  PROVE NewAreLoose'
      OBVIOUS
    <2>1. ASSUME NEW c \in Cards, NEW col \in Columns, CreateCard(c, col)  PROVE NewAreLoose'
      BY <2>1 DEF CreateCard, NewAreLoose, Exists, OrderTypeOK
    <2>2. ASSUME NEW c \in Cards, NEW col \in Columns, NEW before \in Cards \cup {Nothing}, MoveCard(c, col, before)
          PROVE  NewAreLoose'
      <3>1. state[c] = "open" /\ UNCHANGED state /\ \E p : isPinned' = [isPinned EXCEPT ![c] = p]
        BY <2>2 DEF MoveCard
      <3> QED  BY <3>1 DEF NewAreLoose, Exists, OrderTypeOK
    <2>3. ASSUME NEW c \in Cards, PinCard(c) \/ UnpinCard(c)  PROVE NewAreLoose'
      BY <2>3 DEF PinCard, UnpinCard, NewAreLoose, Exists, OrderTypeOK
    <2>4. ASSUME NEW c \in Cards, CloseCard(c) \/ ReopenCard(c)  PROVE NewAreLoose'
      BY <2>4 DEF CloseCard, ReopenCard, NewAreLoose, Exists, OrderTypeOK
    <2>5. ASSUME UNCHANGED <<isPinned, state>>  PROVE NewAreLoose'
      BY <2>5 DEF NewAreLoose, Exists
    <2> QED  BY <2>1, <2>2, <2>3, <2>4, <2>5 DEF OrderNext, MoveColumn, DeleteColumn, orderVars
  <1> QED  BY <1>1, <1>2, PositionsStayInRange, PTL DEF OrderSpec

\* Every step does to the columns what a list may have done to it.
LEMMA StepIsAListStep ==
    ASSUME OrderTypeOK, NewAreLoose, [OrderNext]_orderVars
    PROVE  [List!Next]_List!vars
  <1> DEFINE lists == [k \in Columns |-> Shown(k)]
  <1>1. OrderTypeOK'
    BY OrderNextKeeps
  <1>2. \A k \in Columns : lists[k] = Shown(k)
    OBVIOUS
  <1>3. ASSUME NEW c \in Cards, NEW col \in Columns, CreateCard(c, col)  PROVE List!Next
    <2>1. List!Add(c, col) /\ c \in Cards \ UNION {Shown(k) : k \in Columns}
      BY <1>3, CreateIsAdd
    <2>2. {lists[k] : k \in Columns} = {Shown(k) : k \in Columns}
      OBVIOUS
    <2>3. c \in Cards \ UNION {lists[k] : k \in Columns}
      BY <2>1, <2>2
    <2> QED  BY <2>1, <2>3 DEF List!Next
  <1>4. ASSUME NEW c \in Cards, NEW col \in Columns, NEW before \in Cards \cup {Nothing}, MoveCard(c, col, before)
        PROVE  List!Next
    <2>1. /\ List!Move(c, Stands(c), col, before)
          /\ Stands(c) \in Columns /\ c \in Shown(Stands(c)) /\ before \in Shown(col) \cup {0}
      BY <1>4, MoveIsMove
    <2> QED  BY <1>2, <2>1 DEF List!Next
  <1>5. ASSUME NEW c \in Cards, PinCard(c) \/ UnpinCard(c)  PROVE List!Next
    <2>1. List!Pin(c, Stands(c)) /\ Stands(c) \in Columns /\ c \in Shown(Stands(c))
      BY <1>5, PinIsPin, UnpinIsPin
    <2>2. PICK col \in Columns : col = Stands(c)
      BY <2>1
    <2>3. List!Pin(c, col)
      BY <2>1, <2>2 DEF List!Pin
    <2> QED  BY <1>2, <2>1, <2>2, <2>3 DEF List!Next
  <1>6. ASSUME NEW c \in Cards, CloseCard(c) \/ ReopenCard(c)  PROVE UNCHANGED List!vars
    <2>1. \A d \in Cards : (Exists(d)' <=> Exists(d)) /\ Stands(d)' = Stands(d)
      BY <1>6 DEF CloseCard, ReopenCard, Exists, Stands, FirstWorking, OrderTypeOK
    <2> QED  BY <1>6, <2>1, NobodyMoves DEF CloseCard, ReopenCard
  <1>7. CASE UNCHANGED orderVars
    BY <1>7, NobodyMoves DEF orderVars, Exists, Stands, FirstWorking
  <1> QED  BY <1>1, <1>3, <1>4, <1>5, <1>6, <1>7, MoveColumnJoins, DeleteColumnJoins DEF OrderNext

\* A column is a list, the pinned cards first, through every renumbering, at
\* the ceiling and when columns are exchanged or deleted.
THEOREM OrderIsAList == OrderSpec => KeepsTheList
  <1>1. OrderInit => List!Init
    <2> SUFFICES ASSUME OrderInit  PROVE List!Init
      OBVIOUS
    <2>1. \A c \in Cards : ~Exists(c) /\ ~isPinned[c]
      BY DEF OrderInit, Exists
    <2>2. \A k \in Columns : Shown(k) = {}
      BY <2>1 DEF Shown
    <2>3. Ahead = {}
      BY <2>1 DEF Ahead
    <2> QED  BY <2>1, <2>2, <2>3 DEF List!Init
  <1>2. OrderTypeOK /\ NewAreLoose /\ [OrderNext]_orderVars => [List!Next]_List!vars
    BY StepIsAListStep
  <1> QED  BY <1>1, <1>2, PositionsStayInRange, LooseStay, ColumnsAreInLine, PTL
           DEF OrderSpec, KeepsTheList, List!Spec

\* A card moved is right before the card it was dropped before, whether there
\* was a gap or the group was written anew.
THEOREM CardsGoWhereAsked == OrderSpec => PlacedAsAsked
  <1>1. OrderTypeOK /\ [OrderNext]_orderVars =>
           [\A c \in Cards, col \in Columns, before \in Cards \cup {Nothing} :
               MoveCard(c, col, before) => List!Move(c, Stands(c), col, before)]_orderVars
    BY MoveIsMove
  <1> QED  BY <1>1, PositionsStayInRange, PTL DEF OrderSpec, PlacedAsAsked

=============================================================================
