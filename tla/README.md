# A verification development for the quality-management system

The program is a Django monolith of a plant: nonconformity acts, meeting
protocols, a library of controlled documents, a registry of corrective measures,
boards of cards, a common work queue, notifications by page and by mail, and pages
that refresh themselves. It runs on PostgreSQL at READ COMMITTED with several web
workers, a mail job that a timer starts every minute and daily jobs. `ATOMIC_REQUESTS` is off: a request is
as many transactions as its code opens, and whatever it reads before a row lock
may be old when it is used. That is where this development looks.

It consists of TLA+ modules of the processes, TLC runs over small instances of
them, and TLAPS proofs of their safety for every instance. `PROJECT.json` maps
every definition to its lines of `src/`.

## 1. The system

| Component | State | Operations | Talks to | What is hard | What makes it correct |
|---|---|---|---|---|---|
| **acts** (`acts/services.py`, `permissions.py`, `workshops.py`, edit page in `views.py`) | an act: status, `ko_round`, defect rows with a decision and its round, the analysis | send to КО, decide a share, return, analyse, return to КО or ТО, approve; edit the draft | tasks (one routing entry per stage), notifications, roles | designers of several workshops decide separately; the edit page writes back an act it loaded before the lock; routing and permission are separate code | no act passes a stage undecided; queue and act agree; decisions of an old round do not count; the archive is final |
| **accounts** (`roles.py`, `admin.py`) | profile roles, dated role substitutions, accounts switched off | save and expire a substitution, switch an account | tasks: a substitute joins open entries | the list of people on an entry is read before it is locked | a substitution only adds people |
| **tasks** (`tasks/services.py`) | one row per task with its assignees, kind, status | issue, complete, reopen, close, cancel, narrow; attachments | called by every process inside its transaction | a task mirrors a process whose rows change elsewhere; completed ones can be reopened | open tasks are exactly the work the process asks for |
| **protocols** (`protocols/services.py`, sending view) | status, revision, approval rows per revision, decisions, attachments | save, send, approve, return, archive, attach | tasks, notifications, file storage | save-and-send is two transactions; pages outlive rounds; the storage is not transactional | the archive has everybody's approval of what it stores; its work is handed out once |
| **documents** (`documents/services.py`) | versions, one current, a round per version, acknowledgements, status, review date, trash | upload, approve, return, restore a version, ask to read, cancel, trash, purge, review job | tasks, notifications | purge and the review job take no lock; versions come back out of order | what people read was agreed; whoever must read it is asked; records stay |
| **email queue** (`notifications/email_delivery.py`) | a row per delivery: status, attempts, times | select, claim, send, record, retry, recover | SMTP; started by a systemd timer | runs overlap, are killed, and outlive the timeout after which others take them for dead | bounded mails, one sender, final outcomes, every delivery settled |
| **notifications, in-app** | one row per event and reader, unique by a key | create in the event's transaction, read, hide | the queue above | the key decides what counts as told already | what is told again is what the key names anew |
| **smk** (`smk/services.py`) | a source, its findings and measures, tasks of the measures | create, edit (diff by fingerprint), archive | tasks | a changed measure is replaced and its tasks cancelled while people complete and reopen them; the edit page may be of any age | every current measure is covered once; work that was not changed stays |
| **boards: cards** (`boards/services.py`, `columns.py`) | cards with a task each, subtasks, tabs of columns, pins, actions, members | create, edit, move, close, cancel, return; change columns, rules and members; archive | tasks, notifications | every call locks the board, but what a card names may be gone by the next call, and its edit form is older than that | a card always has a place; work is members' work; old forms are refused |
| **boards: order** (`boards/services.py`) | an integer per card, pinned cards | drop a card before another, pin, close, delete a column | — | gaps run out, the integers reach a ceiling, closed cards keep theirs unseen | a column is a list that only a person's move changes |
| **boards: requests** | fields and options, values of cards and rules, requests with values | submit, accept, reject, withdraw; archive, delete and change fields | — | fields change while a request waits with their values | values fit; whoever waits can be answered, once |
| **boards: links** | which card waits for which | link, unlink, close, reopen, tell who may start | several boards at once | two boards' locks; what is read of other boards is only what is committed | no circles; who waited hears of it |
| **boards: digest and reminders** (`boards/digest.py`, `send_due_reminders`) | a subscription with the day it was last handled; notification keys | two daily jobs; subscribe, follow, change a due date | SMTP; notifications | no lock, no transaction, repeated by hand, days without a run | no day lost or mailed twice; an overdue card is heard of |
| **realtime** (`realtime/`) | revision tokens; nothing stored of events | publish after commit, stream, compare revisions | every process after its commit | events are lost without a trace; the stream is trusted before it is subscribed | a page ends up current |
| **browser tabs** (`static/js/realtime/*.js`) | a leader lease in `localStorage`, a stream, timers, a block on the page | elect, renew, release, hand over; poll, compare, refresh | the stream; the other tabs | no compare-and-set; timers and answers in any order | recovery has one owner; one tab leads in the end |
| **bugs, calculator, plate cutting, disposal, dashboard, references, maintenance, ecosystem, pages** | single rows or none | edits of one row, queries, computations | — | no process of several steps | — |

Processes call the work queue and the notifications as functions, inside their own
transaction. A service that changes a process takes the row lock of its main row
first (`select_for_update`) and asks its guards again. Three kinds of code do
otherwise, and most of `hazards` in `PROJECT.json` are at them: views that read
before the service locks, jobs that take no lock, and everything around a
transaction (pages, files, mail, events). Boards differ: every call locks the row of
the board first, so what interleaves there are calls about several boards, and what
is hard on one board is what a sequence of legal calls leaves behind.

## 2. The modules

| Module | What it is |
|---|---|
| `ActRoles` | the rules of `acts/permissions.py` and `workshops.py`, as operators on role sets and workshops |
| `ActWorkflow` | one act, its queue entries and tasks, edits in flight, substitutions being saved, accounts |
| `ActRoute` | abstract: what the route of an act promises |
| `ProtocolApproval` | one protocol from draft to archive, with sending requests, open pages, attachments, accounts |
| `SignOff` | abstract: a text that is signed off by those its content names |
| `DocumentControl` | one document, its versions, tasks, trash, removal and review job |
| `Revisions` | abstract: what people read was agreed |
| `SmkCorrections` | one record, its measures and their tasks, edit pages, attachments |
| `EmailDelivery` | the rows of the queue and the runs over them |
| `MailPromise` | abstract: settled once, bounded mails, settled in the end |
| `BoardCards` | the cards of one board, its tabs, columns, pins, actions, members and archive |
| `BoardOrder` | the positions of the cards of a tab |
| `CardList` | abstract: a column is a list (its cards and who stands before whom), the pinned cards first |
| `BoardRequests` | the fields of a board, their values, rules and requests |
| `BoardLinks` | calls that close and link cards of several boards, with their locks |
| `BoardMail` | the digest and the reminders of due dates, over days |
| `LiveTabs` | the pages of one session: lease, stream, recovery, blocks |
| `BoardNames` | the constants that modules about several boards share |
| `*_proofs` | the theorems about the module of that name; `Boards_proofs` is about `BoardLinks`, `BoardRequests` and `LiveTabs`, `SmkCorrections_proofs` also about `BoardOrder` |
| `MC*` | instances for TLC |

A transaction that takes the lock of its main row first is one action. Its guard is
what the code asks **under the lock**; what a view asked of an object loaded earlier
is not a guard. Where the code reads, leaves its transaction or lock, and acts on
what it read, there is an action for each side and a variable for what is held in
between:

| Held in between | Module | From | To |
|---|---|---|---|
| `edits` | `ActWorkflow` | `act_edit` loads act and defects | the locked save |
| `requests` | `ActWorkflow` | assignees of an entry listed for a substitute | `replace_task_assignees` |
| `submitted` | `ProtocolApproval` | the form is saved | `send_protocol_for_approval` |
| `shown` | `ProtocolApproval` | an approver opens the page | approve or return |
| `uploading`, `unlinking` | `ProtocolApproval` | file written; row removed | row written; file removed |
| `purging` | `DocumentControl` | "is it in the trash, was anything issued" | the deletion |
| `reviewing` | `DocumentControl` | the job lists; reads | reads; issues |
| `opened` | `SmkCorrections` | an editor opens the edit page | the form is saved |
| `uploading`, `unlinking` | `SmkCorrections` | file written; row removed | row written; file removed |
| `phase`, `hand`, `seen`, `todo` | `EmailDelivery` | every query of a run | its next query |
| `call` (`wants`, `read`, `tell`), `holder` | `BoardLinks` | each lock; the links of a card read | the commit |
| `digest`, `reminders` | `BoardMail` | the rows listed; the letter accepted | each row handled; the row marked |
| `sync`, `snapshot`, `known` of a tab | `LiveTabs` | a request sent | its answer |

### ActWorkflow

`status`, `koRound`, `defects` (workshop, decision, round of each row) and `plan` are
the act; `queue`, `openPrints`, `donePrints`, `rejections`, `handedOut` its tasks;
`active` and `lent` decide who holds which role. The actions are the ten services of
`acts/services.py` (`apply_ko_decision` is `ApplyKoShare` or `ApplyLastKoShare`,
`apply_structured_to_analysis` has one action per route), the two halves of
`act_edit`, the two halves of saving a substitution, its expiry, an account switched
off or on, and the completion and reopening of print tasks. `MoveTask` and the print
and rejection tasks are parts of the transitions that call them. Rights and routing
are computed from `ActRoles` at the moment of the step, as the code does.

The workflow implements `ActRoute` as long as `OverlappingEdits` is FALSE, that is, as
long as an edit is saved over the act it loaded. With overlapping edits it does not,
see section 5; what still holds then is checked and proved with them. The run
`act_overlap` has them, `act_route` does not.

### ProtocolApproval

`content` keeps what approval depends on: who signs, who carries out each decision and
whether it is split. Approvals and their tasks are kept per revision, so that history
is visible. `Send`, `Approve` and `ReturnForRevision` are the services;
`ApproveOrFinalize` is what send and approve share, and archives when nobody is left.
An author nobody has to approve for is archived at once by `Send`.

### DocumentControl

`round` is `approval_status`, `approvals` the approval rows of a version's round,
`signTasks`, `readTasks`, `reviewTasks` the three kinds of document tasks.
`ReadTasksOnEntry` is `_put_version_in_force` and `WithdrawOpenWork` is
`_withdraw_open_work`. Departments and roles a version is sent to are resolved to the
people who hold them (`Audiences`). What a version being restored was asked before
the lock is a guard because it can never change of that version.

### SmkCorrections

A measure is what its fingerprint compares: text and due date (one value), people, and
whether each gets a task. `measure` is never changed once stored, `current` are those not
superseded, `work` the status of the task of each measure and people. A form is a
sequence of rows, each with the key of a measure its page showed or none; `KeptRows`,
`CreatedRows` and `Replaced` are the three outcomes of the comparison in
`update_smk_source`, `Store` is what it then writes, the tasks included. `Complete`,
`Reopen` and the two halves of adding and removing an attachment are those of
`tasks/services.py`; an upload or a removal may be cut off between its halves.

### EmailDelivery

Each query of a run is an action, because the run holds no transaction across them:
`Begin` (settings and recovery), `Select`, `Read`, `Claim` or `LoseClaim`, `Refresh`
(the attempt number is read back by a query of its own), the SMTP conversation, and the
recording update. `Crash` may come after any of them. Time is two facts about a row:
`due` (`available_at` has come) and `stale` (`started_at` is older than the timeout).
`overran` is a history variable: the deliveries a live run of which outlived the timeout.

### BoardCards, BoardOrder

In `BoardCards` a card is its number. `column` is what the card names, which may be
nothing once the column was deleted; `Standing` is where it stands then. `Entered` is
`_apply_column_entry` and `Placed` is `_move_locked`, with the subtasks taken along; both are
parts of the calls that use them. `version` is what an edit form is checked against and
`stay` the last entry of the journal that names a column. `asked` remembers whether "all
subtasks are done" was said since; `returned` which cards were taken back into work, since
reopening keeps whoever was on the card.

`BoardOrder` keeps positions only: `PlaceIndex`, `Middle`, `EndPosition` and `Renumbered`
are the functions of that name. Closed cards keep their integers and are counted in the
renumbering though nobody sees them. It implements `CardList`: what stands before what, as the
page sorts the cards of a column (`ShownBefore`), is a line without ties, and a drop, a pin or
the end of a column changes it as it would change a list, and nothing else does. The list is
kept as the relation, not as a sequence: a drop takes one card out of the relation and puts it
behind some and ahead of the others (`Inserted`).

### BoardRequests

A value is what it looks like (words, digits, a day) or the key of an option, which is
enough to decide what each kind of field accepts. `Refused` and `Edited` are
`_clean_field_values` and `_field_value_changes`, `ValuesForCard` what an accepted request
brings along. `kinds` of a request is history: the kind each field had when it was asked.

### BoardLinks

A call takes the locks of its boards one row after the other (`Lock`), reads, and commits.
What it reads of other boards is what is committed then. `raced` of a call are the deeds
that committed between its reading and its commit: who was closed or taken back, what was
linked or unlinked. `news` is what a card heard since it last waited; `About` says which of
these deeds concern it.

### BoardMail

One run of each job. `digest` holds what the run loaded: the rows, who was active, and whose
letter was accepted and not recorded yet. What happened on a board is left open: any boards
the person still reads may be in the letter, or none (`NothingToSend`). `told`, `mailed` and
`again` are history. A reminder is a notification with the task and the due date in its
key; `Remind` is an iteration of the loop, with the people of the moment and the due date
of the listing.

### LiveTabs

A tab is the state of its scripts: whether it leads and stands for election, the state of
the stream, the timers that run, the request under way, what it compared last and what its
block shows. What the server would show is a number, `version`, the count of the changes; its
token is another, `revision[version]`, as the code hashes counts and the latest stamps: any
change may move the token, leave it as it was, or bring an earlier one back. The channel
between tabs delivers at once; a request for a fragment and its answer are one step, a
request for revisions two. `Release` is a tab that closes or stops; a lease may run out
whenever its holder is late.

## 3. The runs

| Run | Question | Instance |
|---|---|---|
| `act_overlap` | Does the route hold together while an edit request is in flight over any number of transitions, and an author and a designer come and go? | 6 users, 2 defects, an act of one workshop, two rows or two workshops, 2 rounds |
| `act_route` | Without such edits, do routing and permission agree, does every round start undecided, is `ActRoute` implemented, with a substitution saved at any point? | the same plant, mixed and combined acts, one substitution, one print task |
| `protocol_rounds` | Do rounds, queue, archive, tasks and attachments hold over two revisions with two sending requests, stale pages and people who leave; is `SignOff` implemented? | 3 users, 2 decisions, 2 revisions, 2 requests, 1 file |
| `document_versions` | Do rounds, readers, reviews and records hold over versions, trash, cancellation, removal and the review job; is `Revisions` implemented? | 3 users, 2 versions, 1 date |
| `smk_record` | Is each measure covered once, does replaced work end and completed work keep its evidence, does a correction touch only what it changes, over pages of different age and tasks completed, returned and given attachments? | 2 editors, 2 people, 3 measures, forms of 2 rows, 1 returned task, 1 file |
| `email_queue` | Do overlapping, killed and overrunning runs with different limits send boundedly, one at a time, record truthfully, and settle everything? | 1 delivery, 2 runs, limits 2 and 3, 2 crashes |
| `board_cards` | Does every card keep a place, is open work members' work, are people asked when the subtasks are done, are old forms refused and moves journalled, whatever the manager changes meanwhile? | 2 people, a card and two subtasks, 2 tabs, up to 3 columns, 1 action, 2 changes of the board |
| `board_order` | Is a column a list, through every renumbering, and is a dropped card where it was dropped? | 3 cards, 2 columns, a gap of one, a ceiling one card away |
| `board_requests` | Do values fit their fields, can whoever waits be answered, once, whatever becomes of the fields? | 1 field of any kind, 2 options, 1 request, 2 cards, 4 changes |
| `board_links` | Can cards or calls wait for each other, and does who waited hear? | 3 cards on 2 boards, 2 calls at a time, 5 in all |
| `board_mail` | Is a day lost or mailed twice, is an overdue card heard of? | 1 reader and card, Friday to Monday, 2 changes, 1 trouble |
| `live_tabs` | Who recovers, does a page whose token moved end up current, does one tab lead in the end? | 2 tabs, 1 change on the server that moves the token or not, 1 trouble |

Every property has a mutant in its module (the operators marked *Mutant*): the same
operator with a plausible bug in it, under which TLC finds the property violated.
The mutants are never used by the specifications. Several properties are conjunctions of
named parts that one question of the run asks together: `AttemptIsOneRuns` (mails, senders
and what is recorded as sent), `QueueIsTheRound`, `LastApprovalArchives` and `HistoryStands`
of the protocols, `WorkFollowsTheRecord` and `CorrectionIsExact` of the SMK, `ApprovedThenRead`
of the documents, `WorkIsHandedOutOnce` of the acts, `NothingDangles`, `WorkIsInHand`,
`FieldsHoldUp`, `WaitingGetsAnAnswer` and `NothingWaitsInACircle` of the boards.

### Bounds, and why they suffice

* `MaxRound`, `MaxRevision` = 2: what can go wrong between rounds goes wrong between
  one and the next. The proofs are for any bound.
* Two defects, of one or two workshops or of the combined one: a share that is the last
  and one that is not, a mixed act, an act with one row added or removed by an edit.
* The plant has two ОТК workers (author and another), two designers, a technologist
  and an administrator who is also ПДО: somebody for each role, a second for the author's.
* `MaxPrints` = 1 completed print task makes the reopening possible; 0 in `act_overlap`,
  where printing plays no part.
* Two overlapping runs of the queue and two crashes: each may be killed holding the
  delivery, or one twice. Limits 2 and 3 make a row one run may still claim and the
  other must refuse. A third run adds nothing a second one cannot do later; the proofs
  take any number. One delivery: rows do not interact but for the batch, and the proofs
  take any number.
* `MaxNumber` = 2 versions: the one people read and the one on its way. The divergence
  that needs three is described in section 5.
* Three measures and forms of two rows: one kept, one replaced, one new, and a row whose
  measure is gone. The two instructions are one for a single person marked as split
  (which the form undoes) and one for each of two. One returned task is enough to leave
  work open on a replaced measure. Editors are symmetric: the model names none.
* A board of two tabs and three columns lets a tab lose a column, its first column and
  itself; the one spare column is created anew. Tabs and columns are symmetric. A card with
  two subtasks has a last one and one before it, which end in either order, one completed and
  one cancelled, one returned in between (`MaxReturned`). The version of a card stops at 2, one
  edit after an old form, and one card is edited (`MaxEdited`): forms of two cards have nothing
  in common. A form names one set of people, a rule one set that has another person too.
* Three cards exhaust a gap of one integer with the first drop and reach the ceiling with
  the second card added at the end, so every path through `EndPosition` and `Middle` is
  taken; the cards are not symmetric, as the primary key breaks ties.
* One field is enough for values that outlive its kind: fields do not interact but for their
  limit, which a single field cannot overstep. The run tests the limit of options (two, of which
  one has room); that of fields rests on the theorem, which has any number. Two cards, so
  that one request might be made into two.
* Two blockers of one card, on two boards, and a third board's lock never needed by a call:
  a call takes two locks at most. Five calls let both blockers close, one return, and a link
  come and go.
* Friday to Monday is the stretch where the daily and the weekly letter, the weekend and the
  missed day meet. One trouble: the recovery is the same from any. Boards of a person share
  nothing but the letter.
* Two tabs make one election; a third stands exactly as the second does. One change makes a
  page stale, with a token that moves or stays; a token that comes back takes two, which are out
  of TLC's reach here and left to `StalenessIsFound`. One trouble is one lost event, failed request, dropped stream, slipped lease or
  closed tab, at any point.
* `CHECK_DEADLOCK FALSE` stands where the system really may stop: nothing is left to do
  of an archived act, a document removed for good, an archived record whose tasks are done, a
  queue without deliveries, a board when nobody calls (and the bounds are used up), a week
  that is over, tabs that are closed. In `protocol_rounds` deadlock is checked.

### Fairness

Three modules assume any, for their liveness; nothing is assumed of people. Whether an
act, a protocol or a document gets anywhere depends on them, and no liveness is claimed.

* `EmailDelivery`: `Step(w)` of every run is weakly fair: the timer
  (`quality-email-queue.timer`) starts a run for ever, a run that is not killed proceeds,
  and an SMTP conversation ends since the client has a timeout. `Passing(d)`: time passes.
  Crashes are bounded, which stands for a job that is not killed for ever.
* `BoardMail`: the scheduler starts the reminders again and again, and a run that is not
  killed goes on. The digest is not fair: `NoDayIsLost` says what holds when it does not run.
  Days need not pass.
* `LiveTabs`: timers fire (`Renew`, `Stand`, `PollTick`, `SafetyTick`, a lease that runs out,
  the handshake's timeout, the deadline of a stream) and answers to requests come, be it as
  failures. Streams need not open and events need not arrive: `CatchesUp` rests on the
  comparison of revisions alone. Troubles are bounded.

## 4. The proofs

All theorems hold for every value of the constants that satisfies the named
assumptions of the modules (`PeopleAssumption`, `DataAssumption`, `ProtocolAssumption`,
`LibraryAssumption`, `SmkAssumption`, `QueueAssumption`, `BoardAssumption`, `LinkAssumption`,
`RequestAssumption`, `OrderAssumption`, `MailAssumption`, `LiveTabsAssumption`): types of the
constants, that people, fields, options and columns are finitely many, that the value for "none"
is none of them, that an author does not approve their own protocol, that limits are positive and
that the ceiling of positions has room for every card. TLC evaluates them in the runs. In each `_proofs` module what a step does is stated once per action that
touches the state in question, and once for all the others; the invariants follow.

| Module | Theorems | Inductive strengthening, and why |
|---|---|---|
| `ActWorkflow_proofs` | types, `QueueAndActAgree`, `NothingPassesUndecided`, `TheArchiveIsFinal`, `WorkHandedOutOnce`; assuming `~OverlappingEdits` also `RoundsStartUndecided`, `WorkflowRefinesRoute`, `RoutingAgreesWithPermission` | the first four need only the types: a transition replaces the queue whole, an edit commits only in the draft. `HandedOutIsThePlan`: what was handed out are the batches of a plan that is not changed any more. `StayersActive`, `ProhibitedIsPlanned`: a prohibited defect is owed one rejection task from the approval on, and somebody who may not leave can do it. `RlAlone`: no defect of the combined workshop stands next to another workshop's; the form refuses it, and an edit saved over the act it loaded cannot bring it about (section 5 says what happens to a mixed act). With it, routing and permission agree however substitutions overlap, and overlapping edits too (`RoutedWhileRlAlone`). `RoundsBehind`: no defect carries a round later than the act's. It is what makes the next round a fresh one, and what an overlapping edit destroys |
| `ProtocolApproval_proofs` | types, `RoundsEnd`, `QueueAndRoundAgree`, `DecisionsStay`, `ArchiveIsApproved`, `ArchiveStays`, `WorkGoesOutOnce`, `AttachmentsHaveFiles`, `ProtocolIsSignedOff`, and of the run's conjunctions `QueueIsAlwaysTheRound`, `LastApprovalEndsIt`, `HistoryStays` | `Fresh`: revisions not sent yet have no rows, so a send overwrites none. `Asked`: the rows of the running round are those its content asks for. `HandedOver`: tasks are the batches of the stored content. `FilesInPlace`: what is listed, being written or being removed has its file, and no file is in two of these at once, so a removal that ends cannot take the file of a row |
| `DocumentControl_proofs` | types, `RoundsAreWhole`, `ReadersAreAsked`, `RecordsKept`, `OneReview`, `VersionsAreApprovedThenRead`, `DocumentKeepsRevisions` | `Rows`: a version without a round has no approval rows, and one on approval has only pending and given ones. `ReviewIsNew`: what the job has read has had no task since, as it is the only one that issues them |
| `SmkCorrections_proofs` | types, `MeasuresAreCovered`, `ReplacedWorkEnds`, `UntouchedWorkIsKept`, `CorrectionsAreExact`, `WorkFollows`, `DoneWorkHasEvidence`; of `BoardOrder` `PositionsStayInRange`, `OrderIsAList`, `CardsGoWhereAsked` | `Kept`: where each row of a form is stored; two rows are never stored as one measure, so that rows and current measures can be paired off instead of counted. `Numbered`: a measure beyond `written` is not stored and has no tasks, so the keys a correction gives out are new and overwrite no work. `FilesInPlace`: as in the protocols. `DoneWithRow`: a completed task has a row, which nobody may remove while it is completed. Of the order: positions that exist are from 1 to the ceiling, which already needs that a renumbered column fits (`Renumbered` hands out places by what comes before). `NewAreLoose`: a card never made is not pinned, or a new one would be put among the pinned. `OneCardPlaced` says once what every call then has to show: the others stand as they stood, and the card is behind these and ahead of those |
| `EmailDelivery_proofs` | types, `MailsAreBounded`, `OneRunSends`, `SettlementIsFinal`, `SentWereMailed`, `AttemptsAreOneRuns`, `QueueKeepsPromise` | `Budget`: mails plus the runs about to send never exceed attempts. `Custody`: who holds a delivery nobody overran holds it alone, with the attempt of a row that is not stale, which is why recovery leaves it alone. `Posted`: a run about to record SENT has its mail counted. `Asked`: what is in hand was queued |
| `BoardCards_proofs` | types, `PlacesHold`, `WorkHolds`, `AskedInTime`, `FormsStale`, `MovesJournalled` | `Numbering`: a new card gets the number no card has, so it has no subtasks yet. `ColumnsHaveATab`, `ColumnsAreUsed`: a column is on a tab, and its key was given before, so a new column is named by no card. `LiveActionsLead`: an action that can be pressed leads to some column, which `RulesNameWhatThereIs` says is there |
| `Boards_proofs`, links | types, `NothingInACircle`, `ToldHolds` | `Ordered`, `Locks`: a call holds its locks in ascending order of the boards. `LinkIsNew`: a call about to link has read, under both locks, that neither direction is there, and still neither is. `NewsOfWaiting`, `TellsTheFree`: until a closing commits, every open card that it leaves waiting for nobody is on its list, unless since it read another blocker of that card was closed or unlinked, or the card taken back into work |
| `Boards_proofs`, requests | `FieldsAreHeldUp`, `WaitingIsAnswered`, `AnswersAreFinal` | `OptionsHaveTheirList`: an option that is there is one of a list that is there, so deleting or changing a field takes its options along. `AskedInItsKind`: what a waiting request holds is of the kind its field had when it was asked, lists aside. `ShelfIsQuiet`: a board on the shelf is at rest, with no card in work and no request waiting. `UnmadeCardsAreBlank`: a card to be made is of no request yet |
| `Boards_proofs`, pages | `OneOwnerOfRecovery`, `StalenessIsFound` | `TabsOwned`: a page that polls, compares or has a stream leads, and never polls and compares both. Every handler leaves the record of its page so, and what another page hears through the channel runs the same handlers. `TabsKnow`: the token a page holds, or would pass on, is one the server had by the state the page shows, unless its block is due or its request failed; so a page that is behind holds another token than the server's as long as that is new |
| `BoardMail_proofs` | types, `NoDayLost`, `NothingMailedTwice` | `LoadedStands`: a row in hand is as it was loaded or is not the row of its subscription any more, as one run of the digest is under way. `MailedBehind`: days in a letter lie before the day the row was handled, unless it was not recorded. `SentIsCovered`: between letter and record the period of the letter is accounted for. Nothing about working days is needed: periods begin where the last one ended |

`QueueKeepsPromise` is the safety part of `MailPromise`; liveness is checked by TLC
only, as the prover has no rule for fairness: `KeepsPromise`, `OverdueIsHeard`, `CatchesUp`,
`OneLeaderInTheEnd`. `StalenessIsFound` is the safety half of `CatchesUp`: whatever made a page
stale, the next comparison tells. Every other property of the runs is a theorem. `OneReview` assumes, as
the code does, that one instance of the review job runs at a time (`reviewing` is one
job): the unique constraint behind it names the version, not the document. `BoardMail`
assumes the same of its two jobs.

## 5. Where the code does not do what it says

Seen while modelling. The models contain these behaviours, and the properties checked say
what holds in spite of them; what they violate is said here and in no run.

* `acts/views.py:391`: `act_edit` writes back `ko_round` of the act it loaded. A round
  opened, partly decided and returned in between is forgotten; the next one reuses its
  number, and its decisions count. `RoundStartsUndecided` and `RefinesRoute` are violated
  with `OverlappingEdits`; `DecidedBeforeAnalysis` is not: there is a decision, but of the
  withdrawn round.
* `acts/permissions.py:62`: `ko_roles_for_defect` names a workshop's КО for every defect, and
  the combined workshop has none, so that all КО roles are named; `can_decide_defect` (`:78`)
  lets only the general КО and full access decide such a defect. On an act that mixes that
  workshop with another one the КО of other workshops are given work they cannot do. The form
  refuses such a mix (`acts/forms.py:301`; "сервер отклоняет попытку смешать цеха в новом акте",
  `docs/domain.md:145`), but two overlapping edits, each on its own row, save one. `RoutingAgreesWithPermission` is
  about acts that are not mixed.
* `tasks/services.py:1112`: two substitutions saved at once; the second writes the
  assignees it read before the first and takes the first substitute off.
* `tasks/services.py:1380`: "at most one open print task per act" fails, harmlessly, when a
  completed one is returned to work after a new one was issued.
* `protocols/services.py:693`: an approver with a page of revision 1 approves revision 2.
* `protocols/views.py:470`: what goes for approval is what is stored at the send, not
  what was saved by the request that sends.
* `smk/services.py:405`: an editor whose page is older than somebody's correction changes
  only the audit date; the corrected measure is superseded in its turn, its tasks are
  cancelled, and the old wording is handed out to its people anew.
* `documents/services.py:1253`: the removal asks without a lock; a document restored in the
  meantime is deleted.
* `documents/services.py:1118`: "when a new version comes out, unread acknowledgements of
  the old one are withdrawn" (`docs/domain.md`). Add a version, bring version 1 back, add
  another: the tasks of version 2 stay open and cannot be answered, as bringing a version
  back withdraws nothing.
* `boards/services.py:3719`: "every open card it blocked that now waits for no open card
  tells" the people on it (docstring at 3705). Nobody is told when, between what the closing
  read and its commit, another board commits one of three things about the blocked card: its
  other blocker is closed (each of the two closings sees the other one in work), its other
  blocker is unlinked (the card still waited for the one being closed, so whoever unlinked saw
  it wait), or it is taken back into work (it was not among the open ones that were read).
  `ToldWhenTheLastCloses` excludes exactly these; anything else done meanwhile excuses nobody.
* `boards/services.py:4217`: of the values of a request "what no longer applies is left out
  rather than refusing the card". A value of a field that was given another kind (`:2468`,
  which asks about cards only) is passed on and refuses the card: such a request can only be
  rejected, or accepted once the field is archived. `WaitingGetsAnAnswer` excludes it.
* `notifications/services.py:371`: the key of "a card was assigned to you" is the task, so
  that somebody taken off a card and put on it again is told once. In the same way a due
  date moved away and back is reminded of once.
* `boards/digest.py:297` and `docs/operations.md`: the digest "may be repeated"; a run killed
  between a letter and its record repeats the letter, and `--date` with an earlier day moves
  the mark back, so that days are mailed again. A first letter whose record is lost, followed
  by days without a run, loses the days before the first one recorded. `NoDayIsLost` and
  `MailedOnce` say what is left of the promise.
* `boards/management/commands/board_digest.py:27`: `--date` takes any day, one to come included,
  and marks all days up to it as handled before they are over. The model starts the digest for
  today or the day before, as the help text ("for a check or to send a day again") has it.
* `realtime/sync.py:354`: the `boards` revision, like the others, hashes `Max(updated_at)`, a stamp set when a row is
  saved and visible when its transaction commits. A transaction that stamped earlier and
  commits after a page compared a later stamp leaves the token as it was; with its event lost
  the page stays stale until the next change that moves it, though "the revision notices it even for who
  missed the event" (`docs/realtime.md:103`, likewise `:114` and `:137`). `CatchesUp` and
  `StalenessIsFound` are about pages whose server has a token that is new since the state they show,
  and leave out exactly the others.
* `static/js/realtime/core.js:215`: a fragment that could not be fetched is not asked for
  again until something else happens; `CatchesUp` excludes such a tab.
* `docs/realtime.md:324`: a new follower asks the leader for a snapshot. A tab that opens
  while the lease is out asks nobody (`tabs.js:287`), and if another one is elected before it,
  it waits for the next event or the next comparison that finds something new; `CatchesUp` is
  about pages that compared once.

## 6. What the models leave out

* *Roles and rights* are read at the step that commits; the code reads them in the same
  transaction, some statements earlier.
* *Wording and layout*: names, comments, descriptions, numbers, due dates, the printed
  form, the text of notifications. `approve_act` also refuses a past due date, which is
  no state of the act.
* *Forms* that refuse inactive people do so before the save; the models let people leave
  in between, so the form's check is no guard.
* *Email*: the recovery's three updates are one action, because their sets of rows are
  disjoint and no run distinguishes their order; the order within a batch is arbitrary;
  deletion of a delivery is not modelled. A row may be claimed before its retry is due,
  as in the code. A send that raises may have been accepted.
* *Acts*: `close_act` (no code assigns `ACTIONS_ASSIGNED` any more), attachments, comments,
  the demo reset. A substitution taken back by hand has the effect of its expiry.
* *Protocols*: numbering, comments, snapshots of names, agenda and speeches.
* *Documents*: folders and access, links, subscriptions, the stored files and previews.
  The people a version was sent to are those who hold the roles when it is sent.
* *SMK*: the findings and the header of a record and its history, which no task depends
  on. Task rights: an administrator may always act, so a right never blocks a step.
  Tasks issued before attachments were required may be completed without.
* *Tasks* are modelled with the process that issues them; free-standing tasks are not
  yet. Attachments of tasks are modelled with those of `SmkCorrections`.
* *Boards*: comments, files, checklists, marks, epics, the followers of a column, the
  transfer of a board, filters, limits other than those of subtasks, fields and options. A
  card's text and its checks are left out of its version. A card is in one module for each of
  the questions about it: its place, its order, its values, its links, its letters; they share
  no state but whether it is open, which each module changes as the services do.
* *Digest and reminders*: what a section lists of a board, and boards in the archive. One
  run of each job at a time.
* *Revisions*: which aggregates a token is made of and which changes move it. The model lets
  each change move it or not, so that whatever moves none is covered, and promised nothing.
* *Browser*: the channel between tabs delivers at once; a fragment is asked for and shown in
  one step; one block per page; no deduplication of events, toasts, offline or visibility
  handlers; every tab has `localStorage` and `BroadcastChannel`. A tab that stops hands its
  lease back, as one that closes.
* Code without a process of several steps (the last row of section 1) is not modelled.

The map covers about a seventh of the implementation's lines. The rest is, in this order:
pages (views, forms, templates' context), selectors that build lists, schema and
administration, presentation, the transfer between databases, the calculators, and scripts of
pages that post what the services accept. They hold no state of a process, so that a module
about them would restate queries.

## 7. The plan

In order of what matters most to the plant; what is marked done is in this directory.

1. `ActWorkflow` with `ActRoles` over `ActRoute` — done, with proofs.
2. `EmailDelivery` over `MailPromise` — done, with proofs; liveness by TLC.
3. `ProtocolApproval` over `SignOff` — done, with proofs.
4. `DocumentControl` over `Revisions` — done, with proofs.
5. `SmkCorrections`, with attachments of its tasks — done, with proofs.
6. `BoardCards`, `BoardLinks`, `BoardOrder` over `CardList`, `BoardRequests` — done, with proofs.
7. `BoardMail`: digest and reminders over days — done, with proofs.
8. `LiveTabs`: publishing, stream, revisions and the lease — done, with proofs; liveness by TLC.
9. Free-standing tasks of `tasks/services.py`: issue to several people, hand over, close
   for somebody else, as one lifecycle.
10. Documents: folders, who may read them, and a version sent to people who come and go.
11. Proofs that are left: the safety that `OverdueIsHeard` rests on (a card overdue when a run
    of the job passed it has been heard of), and what overlapping edits leave of `ActRoute`.
