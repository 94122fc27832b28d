---------------------------- MODULE SmkCorrections ----------------------------
(***************************************************************************)
(* One record of the quality department and the work it hands out:         *)
(* smk/services.py and its edit form, with the tasks of tasks/services.py  *)
(* and their attachments.  A correction compares what the form posts with  *)
(* the measures of the locked record: a measure that is the same keeps its *)
(* tasks, any other is superseded, its open tasks are cancelled, and what  *)
(* replaces it is written and handed out anew.  Meanwhile people complete  *)
(* the tasks, have them returned, and attach and remove files; and the     *)
(* form was filled from the record as it was when the page was opened.     *)
(***************************************************************************)
EXTENDS Naturals, FiniteSets

CONSTANTS
    Editors,
    People,
    Texts,
    Instructions,   \* what a row of the form may say
    Files,
    MaxRows,        \* bound on the rows of a form
    MaxMeasures,    \* bound on the measures ever stored
    MaxReturned,    \* bound on the tasks ever taken back into work
    None

Batch == (SUBSET People) \ {{}}

\* What the fingerprint compares: text and due date in one, the people, and
\* whether each of them gets a task of their own.
Instruction == [text : Texts, people : Batch, split : BOOLEAN]

ASSUME SmkAssumption ==
    /\ Instructions \subseteq Instruction
    /\ None \notin Instruction
    /\ MaxRows \in Nat
    /\ MaxMeasures \in Nat
    /\ MaxReturned \in Nat

Statuses   == {"none", "ACTIVE", "ARCHIVED"}
TaskStates == {"none", "IN_PROGRESS", "COMPLETED", "CANCELLED"}

\* Primary keys of the measures; a row of the form without one is a new row.
Ids == 1 .. MaxMeasures
NewRow == 0

\* A task is identified by its measure and the people it is for.
Tasks == Ids \X Batch

VARIABLES
    status,
    written,     \* how many measures were ever stored
    measure,     \* what each of them says; never changed once stored
    current,     \* those not superseded
    work,        \* the status of each task
    returned,    \* tasks that were taken back into work (TaskReopening)
    opened,      \* the measures shown by the edit page of each editor
    rows,        \* attachments: the file and its task
    stored,      \* files in the storage
    uploading,   \* files written for a task, whose row is not
    unlinking    \* files whose row is removed, and who are not

recordVars == <<status, written, measure, current>>
fileVars   == <<rows, stored, uploading, unlinking>>
vars == <<recordVars, work, returned, opened, fileVars>>

-----------------------------------------------------------------------------
(* What a form asks for                                                     *)

Several(S) == \E u, v \in S : u # v

\* Mutant: the flag is stored as the form posted it.
AsPosted(i) == i

\* SmkSourceForm: splitting a measure among one person means nothing.
Normalized(i) == [i EXCEPT !.split = @ /\ Several(i.people)]

\* Mutant: the measure itself is compared with what was posted.
SaysWhatWasPosted(row) ==
    row.id \in current /\ measure[row.id] = row.what

\* A row is the measure it claims to be, unchanged.
SameMeasure(row) ==
    row.id \in current /\ measure[row.id] = Normalized(row.what)

\* Mutant: two rows may claim the same measure.
KeptByAnyRow(post) == {n \in DOMAIN post : SameMeasure(post[n])}

\* The rows that keep a measure: of two that claim it the first one does.
KeptRows(post) ==
    {n \in DOMAIN post :
        /\ SameMeasure(post[n])
        /\ \A k \in 1 .. n - 1 : SameMeasure(post[k]) => post[k].id # post[n].id}

KeptIds(post) == {post[n].id : n \in KeptRows(post)}
CreatedRows(post) == DOMAIN post \ KeptRows(post)

\* Mutant: the whole record is handed out again.
EveryMeasure(post) == current

\* Mutant: a measure still on the form is not withdrawn.
NotOnTheForm(post) == current \ {post[n].id : n \in DOMAIN post}

\* The measures the correction changed or removed.
Replaced(post) == current \ KeptIds(post)

\* Keys are given out in the order of the created rows.
NewId(created, n) == written + Cardinality({k \in created : k <= n})

-----------------------------------------------------------------------------
(* The record                                                               *)

\* _create_action: one shared task, or one for each person.
Batches(i) ==
    IF i.split /\ Several(i.people) THEN {{u} : u \in i.people} ELSE {i.people}

HandedOut(i) == [b \in Batch |-> IF b \in Batches(i) THEN "IN_PROGRESS" ELSE "none"]

\* cancel_smk_action_tasks: what is final stays as it is.
CancelledWork(tasks) ==
    [b \in Batch |-> IF tasks[b] = "IN_PROGRESS" THEN "CANCELLED" ELSE tasks[b]]

\* What the record and its tasks are once the rows are stored.
Store(post) ==
    LET created == CreatedRows(post)
        fresh == {NewId(created, n) : n \in created}
        row(m) == CHOOSE n \in created : NewId(created, n) = m
    IN  /\ fresh \subseteq Ids
        /\ written' = written + Cardinality(created)
        /\ current' = KeptIds(post) \cup fresh
        /\ measure' = [m \in Ids |-> IF m \in fresh THEN Normalized(post[row(m)].what)
                                                   ELSE measure[m]]
        /\ work' = [m \in Ids |-> CASE m \in fresh -> HandedOut(measure'[m])
                                    [] m \in Replaced(post) \ fresh -> CancelledWork(work[m])
                                    [] OTHER -> work[m]]
        /\ UNCHANGED <<returned, fileVars>>

\* Forms of at least one row, whose rows are those of the page or new ones.
Forms(ids) ==
    UNION {[1 .. n -> [id : ids \cup {NewRow}, what : Instructions]] : n \in 1 .. MaxRows}

Init ==
    /\ status = "none" /\ written = 0
    /\ measure = [m \in Ids |-> None] /\ current = {}
    /\ work = [m \in Ids |-> [b \in Batch |-> "none"]]
    /\ returned = {}
    /\ opened = [e \in Editors |-> {}]
    /\ rows = {} /\ stored = {} /\ uploading = {} /\ unlinking = {}

\* create_smk_source
Create(post) ==
    /\ status = "none"
    /\ status' = "ACTIVE"
    /\ Store(post)
    /\ UNCHANGED opened

\* smk_edit, GET: the form is filled from the current measures.
OpenForm(e) ==
    /\ status = "ACTIVE"
    /\ opened' = [opened EXCEPT ![e] = current]
    /\ UNCHANGED <<recordVars, work, returned, fileVars>>

\* smk_edit, POST, and update_smk_source.  The keys are looked up by the form
\* and again under the lock of the record: a row whose measure was superseded
\* since the page was opened is a new row.
Save(e, post) ==
    /\ opened[e] # {}
    /\ status = "ACTIVE"
    /\ opened' = [opened EXCEPT ![e] = {}]
    /\ Store(post)
    /\ UNCHANGED status

\* archive_smk_source
Archive ==
    /\ status = "ACTIVE"
    /\ status' = "ARCHIVED"
    /\ UNCHANGED <<written, measure, current, work, returned, opened, fileVars>>

-----------------------------------------------------------------------------
(* The tasks.  There is always somebody who may: an administrator, besides  *)
(* the people of the task and, for a return, the quality department.        *)

InProgress(t) == work[t[1]][t[2]] = "IN_PROGRESS"

SetWork(t, state) == work' = [work EXCEPT ![t[1]][t[2]] = state]

HasAttachment(t) == \E r \in rows : r.task = t

\* complete_task: a task of this record always requires an attachment.
Complete(t) ==
    /\ InProgress(t)
    /\ HasAttachment(t)
    /\ SetWork(t, "COMPLETED")
    /\ UNCHANGED <<recordVars, returned, opened, fileVars>>

\* reopen_task asks the status of the task, not of its measure or its record.
Reopen(t) ==
    /\ work[t[1]][t[2]] = "COMPLETED"
    /\ SetWork(t, "IN_PROGRESS")
    /\ returned' = returned \cup {t}
    /\ Cardinality(returned') <= MaxReturned
    /\ UNCHANGED <<recordVars, opened, fileVars>>

\* add_task_attachment writes the file first ...
WriteFile(f, t) ==
    /\ f \notin stored \cup unlinking
    /\ \A u \in uploading : u.file # f
    /\ InProgress(t)
    /\ stored' = stored \cup {f}
    /\ uploading' = uploading \cup {[file |-> f, task |-> t]}
    /\ UNCHANGED <<recordVars, work, returned, opened, rows, unlinking>>

\* ... then the row, if the locked task still accepts it, ...
AddRow(u) ==
    /\ u \in uploading
    /\ InProgress(u.task)
    /\ rows' = rows \cup {u}
    /\ uploading' = uploading \ {u}
    /\ UNCHANGED <<recordVars, work, returned, opened, stored, unlinking>>

\* ... or takes the file back, which may fail or not be reached.
DropUpload(u) ==
    /\ u \in uploading
    /\ uploading' = uploading \ {u}
    /\ stored' \in {stored, stored \ {u.file}}
    /\ UNCHANGED <<recordVars, work, returned, opened, rows, unlinking>>

\* Mutant: the right is not asked again of the locked task.
AskedBeforeTheLock(t) == TRUE

\* can_delete_task_attachment, of the locked task
MayRemove(t) == InProgress(t)

\* delete_task_attachment removes the row ...
RemoveRow(r) ==
    /\ r \in rows
    /\ MayRemove(r.task)
    /\ rows' = rows \ {r}
    /\ unlinking' = unlinking \cup {r.file}
    /\ UNCHANGED <<recordVars, work, returned, opened, stored, uploading>>

\* ... and, once that is committed, the file, unless the storage fails.
RemoveFile(f) ==
    /\ f \in unlinking
    /\ unlinking' = unlinking \ {f}
    /\ stored' \in {stored, stored \ {f}}
    /\ UNCHANGED <<recordVars, work, returned, opened, rows, uploading>>

-----------------------------------------------------------------------------
Next ==
    \/ \E post \in Forms({}) : Create(post)
    \/ \E e \in Editors : OpenForm(e) \/ \E post \in Forms(opened[e]) : Save(e, post)
    \/ Archive
    \/ \E t \in Tasks : Complete(t) \/ Reopen(t)
    \/ \E f \in Files, t \in Tasks : WriteFile(f, t)
    \/ \E u \in uploading : AddRow(u) \/ DropUpload(u)
    \/ \E r \in rows : RemoveRow(r)
    \/ \E f \in unlinking : RemoveFile(f)

Spec == Init /\ [][Next]_vars

-----------------------------------------------------------------------------
(* Properties                                                               *)

\* Instructions as the form leaves them.
StoredInstruction == {i \in Instruction : i.split => Several(i.people)}

Attachment == [file : Files, task : Tasks]

\* Every variable has its type, a current measure is stored, and none is stored
\* as split with one person to split it among (SmkSourceForm).
TypeOK ==
    /\ status \in Statuses
    /\ written \in Nat
    /\ measure \in [Ids -> StoredInstruction \cup {None}]
    /\ current \in SUBSET {m \in Ids : measure[m] # None}
    /\ work \in [Ids -> [Batch -> TaskStates]]
    /\ returned \in SUBSET Tasks
    /\ opened \in [Editors -> SUBSET Ids]
    /\ rows \in SUBSET Attachment /\ uploading \in SUBSET Attachment
    /\ stored \in SUBSET Files /\ unlinking \in SUBSET Files

\* Each measure of the record is covered once by tasks that stand: those its
\* people and its split ask for, none of them cancelled, and no other, whatever
\* corrections, completions and returns came before (update_smk_source).
CoveredOnce ==
    \A m \in current, b \in Batch :
        IF b \in Batches(measure[m])
        THEN work[m][b] \in {"IN_PROGRESS", "COMPLETED"}
        ELSE work[m][b] = "none"

\* A measure that is no longer on the record asks nobody for anything, unless
\* its task was completed once and then returned (cancel_smk_action_tasks
\* leaves a completed task, and reopen_task does not look at the measure).
ReplacedWorkIsWithdrawn ==
    \A t \in Tasks : t[1] \notin current /\ InProgress(t) => t \in returned

\* The work in hand is the work the record asks for.
WorkFollowsTheRecord == CoveredOnce /\ ReplacedWorkIsWithdrawn

\* A completed task has an attachment, and its file (complete_task asks for one
\* under the lock that add and delete_task_attachment take).
DoneWithEvidence ==
    \A t \in Tasks :
        work[t[1]][t[2]] = "COMPLETED" => \E r \in rows : r.task = t /\ r.file \in stored

\* A correction leaves the record saying what was posted, every row as often as
\* it was posted, and changes no record in the archive (update_smk_source).
SavedAsPosted ==
    [][/\ \A e \in Editors : \A post \in Forms(opened[e]) :
            Save(e, post) =>
                \A i \in Instruction :
                    Cardinality({m \in current' : measure'[m] = i})
                    = Cardinality({n \in DOMAIN post : Normalized(post[n].what) = i})
       /\ status = "ARCHIVED" => UNCHANGED recordVars]_vars

\* Who posts a current measure as it is leaves it and its tasks as they are,
\* wherever on the form and whatever else is changed (update_smk_source).
UntouchedWorkStays ==
    [][\A e \in Editors : \A post \in Forms(opened[e]) :
          Save(e, post) =>
              \A n \in DOMAIN post :
                  LET m == post[n].id
                  IN  m \in current /\ measure[m] = Normalized(post[n].what)
                      => m \in current' /\ work'[m] = work[m]]_vars

\* A correction does what the form says and nothing to what it leaves alone.
CorrectionIsExact == SavedAsPosted /\ UntouchedWorkStays

=============================================================================
