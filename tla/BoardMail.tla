------------------------------ MODULE BoardMail ------------------------------
(***************************************************************************)
(* What boards tell people without being opened: the digest of             *)
(* boards/digest.py and the reminders of boards/services.py, two jobs that *)
(* the scheduler starts once a day and an operator may start again.  A job *)
(* takes no lock: it lists rows, and handles them one by one while the     *)
(* people it writes to subscribe, move cards and leave.  Each is promised  *)
(* to be safe to repeat (docs/operations.md), so it has to find what it    *)
(* told already, and after a day without a run what nobody told.           *)
(*                                                                         *)
(* At most one run of each job is under way.  A digest names a board by    *)
(* what happened on it in a period of days and by how it stands; whether   *)
(* there is anything to name is left open.                                 *)
(***************************************************************************)
EXTENDS Integers

CONSTANTS
    People,
    Boards,
    Cards,
    Home,            \* the board of each card
    FirstWeekday,    \* of day 0; Monday is 0
    MaxDay,          \* bound on the days
    MaxChanges,      \* bound on what people change
    MaxTrouble,      \* bound on letters that fail, runs killed and runs for another day
    None

ASSUME MailAssumption ==
    /\ Home \in [Cards -> Boards]
    /\ FirstWeekday \in 0 .. 6
    /\ MaxDay \in Nat /\ MaxChanges \in Nat /\ MaxTrouble \in Nat
    /\ None \notin Int /\ None \notin People

VARIABLES
    day,
    reads,       \* who reads which board
    active,      \* people with an account and an address
    sub,         \* BoardDigestSubscription of each person and board
    digest,      \* the run of board_digest
    card,        \* whether it is open, its due date, its author, who is on it, who follows it
    reminders,   \* the run of board_due_reminders
    heard,       \* notifications of due dates
    told,        \* history: the days a subscription accounted for, since which one
    mailed,      \* history: the days that were in a letter of a subscription
    again,       \* history: people whose letter was sent and not recorded, or asked for again
    rows, changes, trouble

digestVars   == <<sub, digest, told, mailed, again, rows>>
reminderVars == <<card, reminders, heard>>
vars == <<day, reads, active, digestVars, reminderVars, changes, trouble>>

Pairs == People \X Boards

-----------------------------------------------------------------------------
(* The calendar                                                             *)

Weekday(d) == (d + FirstWeekday) % 7
Workday(d) == Weekday(d) < 5

\* add_working_days(today, 1)
Horizon(today) ==
    CASE Weekday(today) = 4 -> today + 3
      [] Weekday(today) = 5 -> today + 2
      [] OTHER -> today + 1

\* due_frequencies
DueFrequencies(date) ==
    IF ~Workday(date) THEN {} ELSE IF Weekday(date) = 0 THEN {"DAILY", "WEEKLY"} ELSE {"DAILY"}

\* FIRST_PERIOD_DAYS, and back over a weekend
FirstStart(freq, date) ==
    LET start == date - (IF freq = "DAILY" THEN 1 ELSE 7)
    IN  CASE Weekday(start) = 5 -> start - 1
          [] Weekday(start) = 6 -> start - 2
          [] OTHER -> start

\* Mutant: the day the last letter was sent is taken for covered.
DayAfter(s, date) ==
    IF s.handled # None /\ s.handled < date THEN s.handled + 1 ELSE FirstStart(s.freq, date)

\* period_start
PeriodStart(s, date) ==
    IF s.handled # None /\ s.handled < date THEN s.handled ELSE FirstStart(s.freq, date)

\* The period ends the day before: that day is not over yet.
Period(s, date) == PeriodStart(s, date) .. date - 1

-----------------------------------------------------------------------------
(* The digest. A row that was listed is [of, row, freq, handled].           *)

NoSub == [row |-> 0, freq |-> "OFF", handled |-> None]

Idle == [date |-> None, loaded |-> {}, able |-> {}, todo |-> {}, sent |-> None]

Changing == changes < MaxChanges /\ changes' = changes + 1 /\ UNCHANGED <<day, trouble>>
Troubled == trouble < MaxTrouble /\ trouble' = trouble + 1

\* Mutant: whatever is due is listed, handled that day or not.
EvenHandled(date) ==
    {[of |-> x, row |-> sub[x].row, freq |-> sub[x].freq, handled |-> sub[x].handled] :
        x \in {y \in Pairs : sub[y].freq \in DueFrequencies(date)}}

\* The rows of a frequency due on the date and not handled on it
DueRows(date) ==
    {[of |-> x, row |-> sub[x].row, freq |-> sub[x].freq, handled |-> sub[x].handled] :
        x \in {y \in Pairs : sub[y].freq \in DueFrequencies(date) /\ sub[y].handled # date}}

\* What was loaded for p, and whichever of it is still the row of its pair
RowsOf(p) == {s \in digest.loaded : s.of[1] = p}
Same(s)   == sub[s.of].row = s.row
HasRow(x, p) == x[1] = p /\ \E s \in RowsOf(p) : s.of = x /\ Same(s)
RowOf(x)  == CHOOSE s \in digest.loaded : s.of = x

\* last_sent_on of the rows handled for p
Marked(p) == [x \in Pairs |-> IF HasRow(x, p) THEN [sub[x] EXCEPT !.handled = digest.date] ELSE sub[x]]

\* Every day of the period is accounted for: named, or found empty, or not p's to read.
Covered(p) ==
    [x \in Pairs |-> IF HasRow(x, p) THEN told[x].days \cup Period(RowOf(x), digest.date) ELSE told[x].days]

\* What a digest that is recorded first starts from
Since(p) ==
    [x \in Pairs |-> IF HasRow(x, p) /\ told[x].since = None
                     THEN PeriodStart(RowOf(x), digest.date) ELSE told[x].since]

\* send_digests lists the rows: today, or with --date for the day before.
BeginDigest(date) ==
    /\ digest.todo = {}
    /\ date \in {day, day - 1}
    /\ DueRows(date) # {}
    /\ digest' = [Idle EXCEPT !.date = date, !.loaded = DueRows(date), !.able = active,
                              !.todo = {s.of[1] : s \in DueRows(date)}]
    /\ IF date = day THEN UNCHANGED <<again, trouble>> ELSE Troubled /\ again' = People
    /\ UNCHANGED <<day, reads, active, sub, told, mailed, rows, reminderVars, changes>>

Facing(p) == digest.sent = None /\ p \in digest.todo

\* Who was inactive or without an address when the rows were listed is left for another run.
SkipPerson(p) ==
    /\ Facing(p) /\ p \notin digest.able
    /\ digest' = [digest EXCEPT !.todo = @ \ {p}]
    /\ UNCHANGED <<day, reads, active, sub, told, mailed, again, rows, reminderVars, changes, trouble>>

\* Nothing to report, of none of the boards p still reads: handled for the day.
NothingToSend(p) ==
    /\ Facing(p) /\ p \in digest.able
    /\ sub' = Marked(p)
    /\ told' = [x \in Pairs |-> [since |-> Since(p)[x], days |-> Covered(p)[x]]]
    /\ digest' = [digest EXCEPT !.todo = @ \ {p}]
    /\ UNCHANGED <<day, reads, active, mailed, again, rows, reminderVars, changes, trouble>>

\* One letter that names the boards p still reads and has something on.
SendLetter(p, named) ==
    /\ Facing(p) /\ p \in digest.able
    /\ named # {} /\ named \subseteq {s \in RowsOf(p) : s.of \in reads}
    /\ digest' = [digest EXCEPT !.sent = p]
    /\ told' = [x \in Pairs |-> [told[x] EXCEPT !.days = Covered(p)[x]]]
    /\ mailed' = [x \in Pairs |->
                    IF \E s \in named : s.of = x /\ Same(s)
                    THEN mailed[x] \cup Period(RowOf(x), digest.date) ELSE mailed[x]]
    /\ UNCHANGED <<day, reads, active, sub, again, rows, reminderVars, changes, trouble>>

\* It is not accepted, or taken before something raises: the rows stay as they are.
SendFails(p, taken) ==
    /\ Facing(p) /\ p \in digest.able
    /\ \E s \in RowsOf(p) : s.of \in reads
    /\ Troubled
    /\ digest' = [digest EXCEPT !.todo = @ \ {p}]
    /\ again' = IF taken THEN again \cup {p} ELSE again
    /\ UNCHANGED <<day, reads, active, sub, told, mailed, rows, reminderVars, changes>>

RecordSent ==
    /\ digest.sent # None
    /\ sub' = Marked(digest.sent)
    /\ told' = [x \in Pairs |-> [told[x] EXCEPT !.since = Since(digest.sent)[x]]]
    /\ digest' = [digest EXCEPT !.todo = @ \ {digest.sent}, !.sent = None]
    /\ UNCHANGED <<day, reads, active, mailed, again, rows, reminderVars, changes, trouble>>

\* The run is killed, maybe with a letter sent and not recorded.
KillDigest ==
    /\ digest.todo # {}
    /\ Troubled
    /\ digest' = Idle
    /\ again' = IF digest.sent = None THEN again ELSE again \cup {digest.sent}
    /\ UNCHANGED <<day, reads, active, sub, told, mailed, rows, reminderVars, changes>>

\* set_digest_subscription: another frequency keeps the row.
Subscribe(x, freq) ==
    /\ x \in reads /\ freq # sub[x].freq
    /\ Changing
    /\ IF sub[x].row = 0
       THEN /\ rows' = rows + 1
            /\ sub' = [sub EXCEPT ![x] = [row |-> rows + 1, freq |-> freq, handled |-> None]]
            /\ told' = [told EXCEPT ![x] = [since |-> None, days |-> {}]]
            /\ mailed' = [mailed EXCEPT ![x] = {}]
       ELSE /\ sub' = [sub EXCEPT ![x].freq = freq]
            /\ UNCHANGED <<told, mailed, rows>>
    /\ UNCHANGED <<reads, active, digest, again, reminderVars>>

Unsubscribe(x) ==
    /\ x \in reads /\ sub[x].row # 0
    /\ Changing
    /\ sub' = [sub EXCEPT ![x] = NoSub]
    /\ UNCHANGED <<reads, active, digest, told, mailed, again, rows, reminderVars>>

-----------------------------------------------------------------------------
(* The reminders                                                            *)

\* card_audience: of those whose the card is, the ones who still read it.
Audience(c, those) == {p \in those : p \in active /\ <<p, Home[c]>> \in reads}

\* The people on it, its author (None is somebody else), those who follow it
Concerned(c) == card[c].on \cup {card[c].by} \cup card[c].hears

\* Mutant: one notification of a kind per task.
KeyOfTask(kind, c, due) == <<kind, c>>

\* The deduplication key
Key(kind, c, due) == <<kind, c, due>>

\* create_notifications
Notified(kind, c, due, those) ==
    heard \cup {[kind |-> kind, key |-> Key(kind, c, due), due |-> due, to |-> p] :
                   p \in {q \in those : ~\E n \in heard : n.to = q /\ n.key = Key(kind, c, due)}}

Listed(from, to) == {<<c, card[c].due>> : c \in {k \in Cards : card[k].open /\ card[k].due \in from .. to}}

NoRun == [kind |-> None, today |-> None, list |-> {}]

\* send_due_reminders lists the cards due soon, and the overdue ones once it has
\* told of those.
BeginReminders ==
    /\ reminders.kind = None
    /\ reminders' = [kind |-> "soon", today |-> day, list |-> Listed(day, Horizon(day))]
    /\ UNCHANGED <<day, reads, active, digestVars, card, heard, changes, trouble>>

ListOverdue ==
    /\ reminders.kind = "soon" /\ reminders.list = {}
    /\ reminders' = [reminders EXCEPT !.kind = "overdue", !.list = Listed(0, reminders.today - 1)]
    /\ UNCHANGED <<day, reads, active, digestVars, card, heard, changes, trouble>>

EndReminders ==
    /\ reminders.kind = "overdue" /\ reminders.list = {}
    /\ reminders' = NoRun
    /\ UNCHANGED <<day, reads, active, digestVars, card, heard, changes, trouble>>

\* Told of the due date that was listed, to the people of the moment.
Remind ==
    /\ \E x \in reminders.list :
          LET c == x[1]
              those == IF reminders.kind = "soon" THEN card[c].on ELSE Concerned(c)
          IN  /\ heard' = Notified(reminders.kind, c, x[2], Audience(c, those))
              /\ reminders' = [reminders EXCEPT !.list = @ \ {x}]
    /\ UNCHANGED <<day, reads, active, digestVars, card, changes, trouble>>

KillReminders ==
    /\ reminders.kind # None
    /\ Troubled
    /\ reminders' = NoRun
    /\ UNCHANGED <<day, reads, active, digestVars, card, heard, changes>>

Edited(c, r) == card' = [card EXCEPT ![c] = r] /\ UNCHANGED <<reads, active, digestVars, reminders, heard>>

\* update_card: another due date, or other people, who may be none of these
MoveDue(c, due) ==
    /\ card[c].open /\ due # card[c].due
    /\ Changing
    /\ Edited(c, [card[c] EXCEPT !.due = due])

Assign(c, those) ==
    /\ card[c].open /\ those \X {Home[c]} \subseteq reads /\ those # card[c].on
    /\ Changing
    /\ Edited(c, [card[c] EXCEPT !.on = those])

\* toggle_card_subscription
Follow(p, c) ==
    /\ <<p, Home[c]>> \in reads
    /\ Changing
    /\ Edited(c, [card[c] EXCEPT !.hears = IF p \in @ THEN @ \ {p} ELSE @ \cup {p}])

\* complete_card or cancel_card, reopen_card
CloseOrReopen(c) ==
    /\ Changing
    /\ Edited(c, [card[c] EXCEPT !.open = ~@])

-----------------------------------------------------------------------------
(* People come and go.                                                      *)

\* remove_board_member: not with an open card; what is addressed to them goes too.
RemoveMember(p, b) ==
    /\ <<p, b>> \in reads
    /\ \A c \in Cards : Home[c] = b /\ card[c].open => p \notin card[c].on
    /\ Changing
    /\ reads' = reads \ {<<p, b>>}
    /\ sub' = [sub EXCEPT ![<<p, b>>] = NoSub]
    /\ card' = [c \in Cards |-> IF Home[c] = b THEN [card[c] EXCEPT !.hears = @ \ {p}] ELSE card[c]]
    /\ UNCHANGED <<active, digest, told, mailed, again, rows, reminders, heard>>

\* Who reads a board by a role may lose it and get it back, or be added.
SwitchAccess(p, b) ==
    /\ Changing
    /\ reads' = IF <<p, b>> \in reads THEN reads \ {<<p, b>>} ELSE reads \cup {<<p, b>>}
    /\ UNCHANGED <<active, digestVars, reminderVars>>

SwitchAccount(p) ==
    /\ Changing
    /\ active' = IF p \in active THEN active \ {p} ELSE active \cup {p}
    /\ UNCHANGED <<reads, digestVars, reminderVars>>

NextDay ==
    /\ day < MaxDay
    /\ day' = day + 1
    /\ UNCHANGED <<reads, active, digestVars, reminderVars, changes, trouble>>

Init ==
    /\ day = 0
    /\ reads = Pairs
    /\ active = People
    /\ sub = [x \in Pairs |-> NoSub]
    /\ digest = Idle
    /\ card \in [Cards -> [open : {TRUE}, due : {0}, by : People \cup {None},
                           on : {{}}, hears : {{}}]]
    /\ reminders = NoRun
    /\ heard = {}
    /\ told = [x \in Pairs |-> [since |-> None, days |-> {}]]
    /\ mailed = [x \in Pairs |-> {}]
    /\ again = {}
    /\ rows = 0 /\ changes = 0 /\ trouble = 0

Next ==
    \/ NextDay
    \/ \E date \in {day - 1, day} : BeginDigest(date)
    \/ \E p \in People :
          \/ SkipPerson(p) \/ NothingToSend(p) \/ SwitchAccount(p)
          \/ \E taken \in BOOLEAN : SendFails(p, taken)
          \/ \E named \in SUBSET digest.loaded : SendLetter(p, named)
          \/ \E b \in Boards : RemoveMember(p, b) \/ SwitchAccess(p, b)
          \/ \E c \in Cards : Follow(p, c)
    \/ RecordSent \/ KillDigest
    \/ \E x \in Pairs : Unsubscribe(x) \/ \E freq \in {"DAILY", "WEEKLY"} : Subscribe(x, freq)
    \/ BeginReminders \/ Remind \/ ListOverdue \/ EndReminders \/ KillReminders
    \/ \E c \in Cards :
          \/ CloseOrReopen(c)
          \/ \E due \in 0 .. MaxDay : MoveDue(c, due)
          \/ \E those \in SUBSET People : Assign(c, those)

\* The scheduler starts the reminders again and again, and a run that is not
\* killed goes on.
Fairness == WF_vars(BeginReminders) /\ WF_vars(Remind \/ ListOverdue \/ EndReminders)

Spec == Init /\ [][Next]_vars /\ Fairness

-----------------------------------------------------------------------------
(* Properties                                                               *)

Rows == [of : Pairs, row : Nat, freq : {"OFF", "DAILY", "WEEKLY"}, handled : Int \cup {None}]

TypeOK ==
    /\ day \in Nat
    /\ reads \subseteq Pairs /\ active \subseteq People
    /\ sub \in [Pairs -> [row : Nat, freq : {"OFF", "DAILY", "WEEKLY"}, handled : Int \cup {None}]]
    /\ digest \in [date : Int \cup {None}, loaded : SUBSET Rows, able : SUBSET People,
                    todo : SUBSET People, sent : People \cup {None}]
    /\ told \in [Pairs -> [since : Int \cup {None}, days : SUBSET Int]]
    /\ mailed \in [Pairs -> SUBSET Int]
    /\ again \subseteq People
    /\ rows \in Nat
    /\ card \in [Cards -> [open : BOOLEAN, due : Nat, by : People \cup {None},
                           on : SUBSET People, hears : SUBSET People]]
    /\ reminders \in [kind : {"soon", "overdue", None}, today : Nat \cup {None}, list : SUBSET (Cards \X Nat)]
    /\ heard \subseteq [kind : {"soon", "overdue", None}, key : {"soon", "overdue", None} \X Cards \X Nat, due : Nat, to : People]
    /\ changes \in Nat /\ trouble \in Nat

\* Whatever days pass without a run, with a letter that was refused or with
\* another frequency: every day from the first one a subscription was recorded to
\* report to the last one it was handled for was accounted for (period_start,
\* send_digests).
NoDayIsLost ==
    \A x \in Pairs :
        sub[x].handled # None =>
            /\ told[x].since # None
            /\ told[x].since .. sub[x].handled - 1 \subseteq told[x].days

\* No day of a board is in two letters of one subscription, though the job is run
\* again the same day, unless a run was killed between the letter and its record, or a
\* letter was asked for again (send_digests).
MailedOnce ==
    [][\A p \in People, named \in SUBSET digest.loaded :
          SendLetter(p, named) /\ p \notin again =>
              \A s \in named : Same(s) => Period(s, digest.date) \cap mailed[s.of] = {}]_vars

Overdue(c, p, due) ==
    /\ card[c].open /\ card[c].due = due /\ due < day
    /\ p \in Audience(c, Concerned(c))

\* Whoever is on an overdue card, wrote it or follows it hears of that due date,
\* moved before or not, whatever runs are killed, unless it does not stay so
\* (send_due_reminders).
OverdueIsHeard ==
    \A c \in Cards, p \in People, due \in 0 .. MaxDay :
        Overdue(c, p, due) ~>
            \/ ~Overdue(c, p, due)
            \/ \E n \in heard : n.kind = "overdue" /\ n.key[2] = c /\ n.due = due /\ n.to = p
=============================================================================
