-------------------------- MODULE BoardMail_proofs --------------------------
(***************************************************************************)
(* Proofs about BoardMail: no day of a subscription is lost, and none is   *)
(* mailed twice, for any people, boards, numbers of days, changes and      *)
(* troubles.                                                               *)
(***************************************************************************)
EXTENDS BoardMail, TLAPS

\* A run has a date as long as it has people to write to; who was written to
\* is among them until it is recorded.
RunHasADate ==
    /\ digest.todo # {} => digest.date \in Int /\ digest.date <= day
    /\ digest.sent # None => digest.sent \in digest.todo

\* A key is given to one row only, whatever was deleted since.
RowsAreCounted ==
    /\ \A x \in Pairs : sub[x].row <= rows /\ (sub[x].row = 0 => sub[x] = NoSub)
    /\ \A s \in digest.loaded : s.row # 0 /\ s.row <= rows
    /\ \A s, t \in digest.loaded : s.of = t.of => s = t

\* What was listed is what the row holds until its person is dealt with.
LoadedStands ==
    \A s \in digest.loaded :
        s.of[1] \in digest.todo =>
            /\ Same(s) => sub[s.of].handled = s.handled
            /\ s.of[1] \notin again /\ s.handled # None => s.handled < digest.date

\* A row that was never handled accounts for nothing yet.
NewRowsAreBlank ==
    \A x \in Pairs : sub[x].row # 0 /\ sub[x].handled = None => told[x].since = None

HandledByNow == \A x \in Pairs : sub[x].handled # None => sub[x].handled <= day

\* Between a letter and its record its days are accounted for.
SentIsCovered ==
    \A s \in digest.loaded :
        digest.sent # None /\ s.of[1] = digest.sent /\ Same(s) =>
            Period(s, digest.date) \subseteq told[s.of].days

\* What was mailed is behind the day a row was handled, or in the hands of a run
\* that is about to record it.
MailedBehind ==
    \A x \in Pairs : \A d \in mailed[x] :
        sub[x].row # 0 /\ x[1] \notin again =>
            \/ sub[x].handled # None /\ d < sub[x].handled
            \/ digest.sent = x[1] /\ d < digest.date /\ HasRow(x, x[1])

IInv ==
    /\ TypeOK
    /\ RunHasADate
    /\ RowsAreCounted
    /\ LoadedStands
    /\ NewRowsAreBlank
    /\ HandledByNow
    /\ SentIsCovered
    /\ MailedBehind
    /\ NoDayIsLost

-----------------------------------------------------------------------------
\* period_start is a day.
LEMMA PeriodStartIsADay ==
    ASSUME NEW s \in Rows, NEW date \in Int
    PROVE  /\ PeriodStart(s, date) \in Int
           /\ Period(s, date) \subseteq Int
<1>1. FirstStart(s.freq, date) \in Int
  <2> DEFINE start == date - (IF s.freq = "DAILY" THEN 1 ELSE 7)
  <2>1. start \in Int
    OBVIOUS
  <2>2. FirstStart(s.freq, date) \in {start, start - 1, start - 2}
    BY DEF FirstStart
  <2> QED
    BY <2>1, <2>2
<1>2. s.handled # None => s.handled \in Int
  BY DEF Rows
<1> QED
  BY <1>1, <1>2 DEF PeriodStart, Period

\* The row that was loaded for a pair, while it is still the row of that pair
LEMMA RowFound ==
    ASSUME TypeOK, RowsAreCounted, NEW x \in Pairs, NEW p, HasRow(x, p)
    PROVE  /\ x[1] = p
           /\ RowOf(x) \in digest.loaded /\ RowOf(x).of = x /\ Same(RowOf(x))
           /\ RowOf(x) \in Rows
           /\ sub[x].row # 0
<1>1. PICK s \in digest.loaded : s.of = x /\ Same(s)
  BY DEF HasRow, RowsOf
<1>2. RowOf(x) \in digest.loaded /\ RowOf(x).of = x
  BY <1>1 DEF RowOf
<1>3. RowOf(x) = s
  BY <1>1, <1>2 DEF RowsAreCounted
<1>4. x[1] = p
  BY DEF HasRow
<1> QED
  BY <1>1, <1>2, <1>3, <1>4 DEF TypeOK, RowsAreCounted, Same

\* What recording a period adds: every day up to the one recorded is accounted for.
LEMMA NothingBetween ==
    ASSUME IInv, NEW x \in Pairs, NEW p \in digest.todo, HasRow(x, p)
    PROVE  /\ Since(p)[x] \in Int
           /\ digest.date \in Int
           /\ Since(p)[x] .. digest.date - 1 \subseteq told[x].days \cup Period(RowOf(x), digest.date)
<1> DEFINE s == RowOf(x)
<1>1. x[1] = p /\ s \in digest.loaded /\ s.of = x /\ Same(s) /\ s \in Rows /\ sub[x].row # 0
  BY RowFound DEF IInv
<1>2. digest.date \in Int
  BY DEF IInv, RunHasADate
<1>3. sub[x].handled = s.handled
  BY <1>1 DEF IInv, LoadedStands
<1>4. PeriodStart(s, digest.date) \in Int
  BY <1>1, <1>2, PeriodStartIsADay
<1>5. told[x].since \in Int \cup {None} /\ s.handled \in Int \cup {None}
  BY <1>1 DEF IInv, TypeOK, Rows
<1>6. Since(p)[x] = IF told[x].since = None THEN PeriodStart(s, digest.date) ELSE told[x].since
  BY DEF Since
<1>7. CASE s.handled = None
  <2>1. told[x].since = None
    BY <1>1, <1>3, <1>7 DEF IInv, NewRowsAreBlank
  <2> QED
    BY <2>1, <1>2, <1>4, <1>6 DEF Period
<1>8. CASE s.handled # None
  <2>1. told[x].since # None /\ told[x].since .. s.handled - 1 \subseteq told[x].days
    BY <1>3, <1>8 DEF IInv, NoDayIsLost
  <2>2. Since(p)[x] = told[x].since /\ told[x].since \in Int /\ s.handled \in Int
    BY <2>1, <1>5, <1>6, <1>8
  <2>3. CASE s.handled < digest.date
    <3>1. Period(s, digest.date) = s.handled .. digest.date - 1
      BY <2>3, <1>8 DEF Period, PeriodStart
    <3>2. told[x].since .. digest.date - 1
            \subseteq (told[x].since .. s.handled - 1) \cup (s.handled .. digest.date - 1)
      BY <1>2, <2>2
    <3> QED
      BY <2>1, <2>2, <3>1, <3>2, <1>2
  <2>4. CASE ~(s.handled < digest.date)
    <3>1. told[x].since .. digest.date - 1 \subseteq told[x].since .. s.handled - 1
      BY <2>2, <2>4, <1>2
    <3> QED
      BY <2>1, <2>2, <3>1, <1>2
  <2> QED
    BY <2>3, <2>4
<1> QED
  BY <1>7, <1>8

-----------------------------------------------------------------------------
(* What each step does to the digest.                                       *)

Rest ==
    /\ RunHasADate
    /\ RowsAreCounted
    /\ LoadedStands
    /\ NewRowsAreBlank
    /\ HandledByNow
    /\ SentIsCovered
    /\ MailedBehind
    /\ NoDayIsLost

LEMMA Outside ==
    ASSUME IInv, UNCHANGED digestVars, day' \in {day, day + 1}
    PROVE  Rest'
<1>1. day \in Nat /\ day' \in Nat /\ day <= day'
  BY DEF IInv, TypeOK
<1>2. RunHasADate'
  BY <1>1 DEF IInv, RunHasADate, digestVars
<1>3. HandledByNow'
  <2> SUFFICES ASSUME NEW x \in Pairs, sub[x].handled # None PROVE sub[x].handled <= day'
    BY DEF HandledByNow, digestVars
  <2>1. sub[x].handled \in Int /\ sub[x].handled <= day
    BY DEF IInv, TypeOK, HandledByNow
  <2> QED
    BY <1>1, <2>1
<1>4. RowsAreCounted' /\ NewRowsAreBlank' /\ NoDayIsLost'
  BY DEF IInv, RowsAreCounted, NewRowsAreBlank, NoDayIsLost, digestVars
<1>5. LoadedStands' /\ SentIsCovered'
  BY DEF IInv, LoadedStands, SentIsCovered, Same, Period, PeriodStart, digestVars
<1>6. MailedBehind'
  BY DEF IInv, MailedBehind, HasRow, RowsOf, Same, digestVars
<1> QED
  BY <1>2, <1>3, <1>4, <1>5, <1>6 DEF Rest

LEMMA OfBeginDigest ==
    ASSUME IInv, NEW date \in {day - 1, day}, BeginDigest(date)
    PROVE  Rest'
<1>1. /\ digest'.date = date /\ digest'.loaded = DueRows(date) /\ digest'.sent = None
      /\ UNCHANGED <<sub, told, mailed, rows, day>>
      /\ digest.sent = None
  BY DEF BeginDigest, Idle, IInv, RunHasADate
<1>2. date \in Int /\ date <= day /\ day \in Nat
  BY DEF IInv, TypeOK
<1>3. \/ again' = again /\ date = day
      \/ again' = People
  BY DEF BeginDigest
<1>4. \A s \in DueRows(date) :
         /\ s.of \in Pairs /\ sub[s.of].row = s.row /\ sub[s.of].handled = s.handled
         /\ s.handled # date /\ s.row # 0 /\ s.row <= rows
  <2> SUFFICES ASSUME NEW s \in DueRows(date)
               PROVE  /\ s.of \in Pairs /\ sub[s.of].row = s.row /\ sub[s.of].handled = s.handled
                      /\ s.handled # date /\ s.row # 0 /\ s.row <= rows
    OBVIOUS
  <2>1. PICK x \in Pairs : /\ sub[x].freq \in DueFrequencies(date) /\ sub[x].handled # date
                           /\ s = [of |-> x, row |-> sub[x].row, freq |-> sub[x].freq, handled |-> sub[x].handled]
    BY DEF DueRows
  <2>2. sub[x].freq # "OFF"
    BY <2>1 DEF DueFrequencies
  <2>3. sub[x].row # 0 /\ sub[x].row <= rows
    BY <2>2 DEF IInv, RowsAreCounted, NoSub
  <2> QED
    BY <2>1, <2>3
<1>5. RunHasADate'
  BY <1>1, <1>2 DEF RunHasADate
<1>6. RowsAreCounted'
  <2>1. \A s, t \in DueRows(date) : s.of = t.of => s = t
    BY DEF DueRows
  <2> QED
    BY <1>1, <1>4, <2>1 DEF IInv, RowsAreCounted
<1>7. LoadedStands'
  <2> SUFFICES ASSUME NEW s \in DueRows(date), s.of[1] \notin again', s.handled # None
               PROVE  s.handled < date
    BY <1>1, <1>4 DEF LoadedStands, Same
  <2>1. date = day
    BY <1>3, <1>4 DEF Pairs
  <2>2. s.handled <= day /\ s.handled \in Int
    BY <1>4 DEF IInv, TypeOK, HandledByNow
  <2> QED
    BY <1>2, <1>4, <2>1, <2>2
<1>8. SentIsCovered' /\ NewRowsAreBlank' /\ HandledByNow' /\ NoDayIsLost'
  BY <1>1 DEF IInv, SentIsCovered, NewRowsAreBlank, HandledByNow, NoDayIsLost
<1>9. MailedBehind'
  <2> SUFFICES ASSUME NEW x \in Pairs, NEW d \in mailed[x], sub[x].row # 0, x[1] \notin again
               PROVE  sub[x].handled # None /\ d < sub[x].handled
    BY <1>1, <1>3 DEF MailedBehind, Pairs
  <2>1. x[1] # None
    BY MailAssumption DEF Pairs
  <2> QED
    BY <1>1, <2>1 DEF IInv, MailedBehind
<1> QED
  BY <1>5, <1>6, <1>7, <1>8, <1>9 DEF Rest

LEMMA OfLeaving ==
    ASSUME IInv, NEW p \in People, Facing(p), again \subseteq again',
           digest' = [digest EXCEPT !.todo = @ \ {p}], UNCHANGED <<day, sub, told, mailed, rows>>
    PROVE  Rest'
<1>1. /\ digest'.todo = digest.todo \ {p} /\ digest'.date = digest.date
      /\ digest'.loaded = digest.loaded /\ digest'.sent = digest.sent /\ digest.sent = None
  BY DEF IInv, TypeOK, Facing
<1>2. RunHasADate' /\ RowsAreCounted' /\ NewRowsAreBlank' /\ HandledByNow' /\ NoDayIsLost'
  BY <1>1 DEF IInv, RunHasADate, RowsAreCounted, NewRowsAreBlank, HandledByNow, NoDayIsLost
<1>3. LoadedStands' /\ SentIsCovered'
  BY <1>1 DEF IInv, LoadedStands, SentIsCovered, Same
<1>4. MailedBehind'
  BY <1>1 DEF IInv, MailedBehind, HasRow, RowsOf, Same
<1> QED
  BY <1>2, <1>3, <1>4 DEF Rest

\* Rows handled for p, with their days accounted for
LEMMA OfRecording ==
    ASSUME IInv, NEW p \in People, p \in digest.todo, digest.sent \in {p, None},
           sub' = Marked(p),
           told' \in [Pairs -> [since : Int \cup {None}, days : SUBSET Int]],
           \A x \in Pairs :
              /\ told'[x].since = Since(p)[x]
              /\ told[x].days \subseteq told'[x].days
              /\ HasRow(x, p) => Period(RowOf(x), digest.date) \subseteq told'[x].days,
           digest' = [digest EXCEPT !.todo = @ \ {p}, !.sent = None],
           UNCHANGED <<day, mailed, again, rows>>
    PROVE  Rest'
<1>1. /\ digest'.todo = digest.todo \ {p} /\ digest'.date = digest.date
      /\ digest'.loaded = digest.loaded /\ digest'.sent = None
  BY DEF IInv, TypeOK
<1>2. digest.date \in Int /\ digest.date <= day /\ digest.date # None /\ None \notin People
  BY MailAssumption DEF IInv, RunHasADate
<1>3. ASSUME NEW x \in Pairs
      PROVE  /\ HasRow(x, p) => sub'[x] = [sub[x] EXCEPT !.handled = digest.date]
             /\ ~HasRow(x, p) => sub'[x] = sub[x] /\ told'[x].since = told[x].since
             /\ sub'[x].row = sub[x].row
             /\ HasRow(x, p) => sub'[x].handled = digest.date
  BY DEF Marked, Since, IInv, TypeOK
<1>4. ASSUME NEW x \in Pairs, HasRow(x, p)
      PROVE  /\ x[1] = p /\ sub[x].row # 0 /\ RowOf(x) \in digest.loaded /\ RowOf(x).of = x
             /\ sub[x].handled = RowOf(x).handled
             /\ p \notin again /\ sub[x].handled # None => sub[x].handled < digest.date
  <2>1. /\ x[1] = p /\ RowOf(x) \in digest.loaded /\ RowOf(x).of = x
        /\ Same(RowOf(x)) /\ sub[x].row # 0
    BY <1>4, RowFound DEF IInv
  <2> QED
    BY <2>1 DEF IInv, LoadedStands
<1>5. RunHasADate'
  BY <1>1 DEF IInv, RunHasADate
<1>6. RowsAreCounted'
  BY <1>1, <1>3, <1>4 DEF IInv, RowsAreCounted
<1>7. LoadedStands'
  <2> SUFFICES ASSUME NEW s \in digest.loaded, s.of[1] \in digest.todo, s.of[1] # p
               PROVE  /\ Same(s)' => sub'[s.of].handled = s.handled
                      /\ s.of[1] \notin again /\ s.handled # None => s.handled < digest.date
    BY <1>1 DEF LoadedStands
  <2>1. s.of \in Pairs /\ ~HasRow(s.of, p)
    BY DEF IInv, TypeOK, Rows, HasRow
  <2>2. sub'[s.of] = sub[s.of]
    BY <1>3, <2>1
  <2> QED
    BY <2>2 DEF IInv, LoadedStands, Same
<1>8. NewRowsAreBlank'
  <2> SUFFICES ASSUME NEW x \in Pairs, sub'[x].row # 0, sub'[x].handled = None
               PROVE  told'[x].since = None
    BY DEF NewRowsAreBlank
  <2>1. ~HasRow(x, p)
    BY <1>2, <1>3
  <2> QED
    BY <1>3, <2>1 DEF IInv, NewRowsAreBlank
<1>9. HandledByNow'
  BY <1>2, <1>3 DEF IInv, HandledByNow
<1>10. SentIsCovered'
  BY <1>1 DEF SentIsCovered
<1>11. MailedBehind'
  <2> SUFFICES ASSUME NEW x \in Pairs, NEW d \in mailed[x], sub[x].row # 0, x[1] \notin again
               PROVE  sub'[x].handled # None /\ d < sub'[x].handled
    BY <1>3 DEF MailedBehind
  <2>0. d \in Int /\ sub[x].handled \in Int \cup {None}
    BY DEF IInv, TypeOK
  <2>1. \/ sub[x].handled # None /\ d < sub[x].handled
        \/ digest.sent = x[1] /\ d < digest.date /\ HasRow(x, x[1])
    BY DEF IInv, MailedBehind
  <2>2. CASE HasRow(x, p)
    <3>1. sub'[x].handled = digest.date /\ x[1] = p
      BY <2>2, <1>3, <1>4
    <3>2. sub[x].handled # None => sub[x].handled < digest.date
      BY <2>2, <3>1, <1>4
    <3>3. d < digest.date
      BY <2>0, <2>1, <3>2, <1>2
    <3> QED
      BY <3>1, <3>3, <1>2
  <2>3. CASE ~HasRow(x, p)
    <3>1. x[1] # None
      BY <1>2 DEF Pairs
    <3>2. ~(digest.sent = x[1] /\ HasRow(x, x[1]))
      <4> SUFFICES ASSUME digest.sent = x[1], HasRow(x, x[1]) PROVE FALSE
        OBVIOUS
      <4>1. x[1] = p
        BY <3>1
      <4> QED
        BY <4>1, <2>3
    <3>3. sub'[x] = sub[x]
      BY <2>3, <1>3
    <3> QED
      BY <2>1, <3>2, <3>3
  <2> QED
    BY <2>2, <2>3
<1>12. NoDayIsLost'
  <2> SUFFICES ASSUME NEW x \in Pairs, sub'[x].handled # None
               PROVE  /\ told'[x].since # None
                      /\ told'[x].since .. sub'[x].handled - 1 \subseteq told'[x].days
    BY DEF NoDayIsLost
  <2>1. CASE HasRow(x, p)
    <3>1. Since(p)[x] \in Int
          /\ Since(p)[x] .. digest.date - 1 \subseteq told[x].days \cup Period(RowOf(x), digest.date)
      BY <2>1, NothingBetween
    <3>2. sub'[x].handled = digest.date /\ told'[x].since = Since(p)[x]
      BY <2>1, <1>3
    <3>3. told[x].days \cup Period(RowOf(x), digest.date) \subseteq told'[x].days
      BY <2>1
    <3>4. Since(p)[x] # None
      BY <3>1, MailAssumption
    <3> QED
      BY <3>1, <3>2, <3>3, <3>4
  <2>2. CASE ~HasRow(x, p)
    BY <2>2, <1>3 DEF IInv, NoDayIsLost
  <2> QED
    BY <2>1, <2>2
<1> QED
  BY <1>5, <1>6, <1>7, <1>8, <1>9, <1>10, <1>11, <1>12 DEF Rest

LEMMA OfSendLetter ==
    ASSUME IInv, NEW p \in People, NEW named \in SUBSET digest.loaded, SendLetter(p, named)
    PROVE  Rest'
<1>1. /\ digest'.todo = digest.todo /\ digest'.date = digest.date
      /\ digest'.loaded = digest.loaded /\ digest'.sent = p
      /\ digest.sent = None /\ p \in digest.todo /\ None \notin People
      /\ UNCHANGED <<day, sub, again, rows>>
  BY MailAssumption DEF IInv, TypeOK, SendLetter, Facing
<1>2. ASSUME NEW x \in Pairs
      PROVE  /\ told'[x].since = told[x].since
             /\ told[x].days \subseteq told'[x].days
             /\ HasRow(x, p) => Period(RowOf(x), digest.date) \subseteq told'[x].days
  BY DEF SendLetter, Covered, IInv, TypeOK
<1>3. RunHasADate' /\ RowsAreCounted' /\ HandledByNow'
  BY <1>1 DEF IInv, RunHasADate, RowsAreCounted, HandledByNow
<1>4. LoadedStands'
  BY <1>1 DEF IInv, LoadedStands, Same
<1>5. NewRowsAreBlank'
  BY <1>1, <1>2 DEF IInv, NewRowsAreBlank
<1>6. SentIsCovered'
  <2> SUFFICES ASSUME NEW s \in digest.loaded, s.of[1] = p, Same(s)
               PROVE  Period(s, digest.date) \subseteq told'[s.of].days
    BY <1>1 DEF SentIsCovered, Same, Period, PeriodStart
  <2>1. s.of \in Pairs /\ HasRow(s.of, p)
    BY DEF IInv, TypeOK, Rows, HasRow, RowsOf
  <2>2. RowOf(s.of) = s
    BY <2>1, RowFound DEF IInv, RowsAreCounted
  <2> QED
    BY <1>2, <2>1, <2>2
<1>7. NoDayIsLost'
  <2> SUFFICES ASSUME NEW x \in Pairs, sub[x].handled # None
               PROVE  told'[x].since # None /\ told'[x].since .. sub[x].handled - 1 \subseteq told'[x].days
    BY <1>1 DEF NoDayIsLost
  <2> QED
    BY <1>2 DEF IInv, NoDayIsLost
<1>8. MailedBehind'
  <2> SUFFICES ASSUME NEW x \in Pairs, NEW d \in mailed'[x], sub[x].row # 0, x[1] \notin again
               PROVE  \/ sub[x].handled # None /\ d < sub[x].handled
                      \/ p = x[1] /\ d < digest.date /\ HasRow(x, x[1])
    BY <1>1 DEF MailedBehind, HasRow, RowsOf, Same
  <2>1. CASE d \in mailed[x]
    <3>1. digest.sent # x[1]
      BY <1>1 DEF Pairs
    <3> QED
      BY <2>1, <3>1 DEF IInv, MailedBehind
  <2>2. CASE d \notin mailed[x]
    <3>0. mailed' = [y \in Pairs |->
                       IF \E s \in named : s.of = y /\ Same(s)
                       THEN mailed[y] \cup Period(RowOf(y), digest.date) ELSE mailed[y]]
      BY Zenon DEF SendLetter
    <3>1. PICK s \in named : s.of = x /\ Same(s) /\ d \in Period(RowOf(x), digest.date)
      BY <2>2, <3>0, Zenon
    <3>2. s \in RowsOf(p) /\ s.of[1] = p
      <4>1. named \subseteq {q \in RowsOf(p) : q.of \in reads}
        BY DEF SendLetter
      <4> QED
        BY <4>1 DEF RowsOf
    <3>3. x[1] = p /\ HasRow(x, p)
      BY <3>1, <3>2 DEF HasRow
    <3>4. digest.date \in Int /\ RowOf(x) \in Rows
      BY <1>1, <3>3, RowFound DEF IInv, RunHasADate
    <3>5. PeriodStart(RowOf(x), digest.date) \in Int
      BY <3>4, PeriodStartIsADay
    <3>6. d < digest.date
      BY <3>1, <3>4, <3>5 DEF Period
    <3> QED
      BY <3>3, <3>6
  <2> QED
    BY <2>1, <2>2
<1> QED
  BY <1>3, <1>4, <1>5, <1>6, <1>7, <1>8 DEF Rest

LEMMA OfKillDigest ==
    ASSUME IInv, KillDigest
    PROVE  Rest'
<1>1. /\ digest'.todo = {} /\ digest'.loaded = {} /\ digest'.sent = None
      /\ UNCHANGED <<day, sub, told, mailed, rows>>
      /\ again \subseteq again'
      /\ digest.sent # None => digest.sent \in again'
  BY DEF KillDigest, Idle
<1>2. RunHasADate' /\ LoadedStands' /\ SentIsCovered'
  BY <1>1 DEF RunHasADate, LoadedStands, SentIsCovered
<1>3. RowsAreCounted' /\ NewRowsAreBlank' /\ HandledByNow' /\ NoDayIsLost'
  BY <1>1 DEF IInv, RowsAreCounted, NewRowsAreBlank, HandledByNow, NoDayIsLost
<1>4. MailedBehind'
  <2> SUFFICES ASSUME NEW x \in Pairs, NEW d \in mailed[x], sub[x].row # 0, x[1] \notin again'
               PROVE  sub[x].handled # None /\ d < sub[x].handled
    BY <1>1 DEF MailedBehind
  <2>1. x[1] # None /\ x[1] \notin again
    BY <1>1, MailAssumption DEF Pairs
  <2>2. digest.sent # x[1]
    BY <1>1, <2>1
  <2> QED
    BY <2>1, <2>2 DEF IInv, MailedBehind
<1> QED
  BY <1>2, <1>3, <1>4 DEF Rest

LEMMA OfSubscribe ==
    ASSUME IInv, NEW x \in Pairs, NEW freq \in {"DAILY", "WEEKLY"}, Subscribe(x, freq)
    PROVE  Rest'
<1>1. UNCHANGED <<day, digest, again>>
  BY DEF Subscribe, Changing
<1>2. /\ \A y \in Pairs \ {x} : sub'[y] = sub[y] /\ told'[y] = told[y] /\ mailed'[y] = mailed[y]
      /\ rows' \in Nat /\ rows <= rows'
      /\ \/ /\ sub[x].row = 0 /\ sub'[x].row = rows + 1 /\ sub'[x].handled = None
            /\ told'[x].since = None /\ mailed'[x] = {} /\ rows' = rows + 1
         \/ /\ sub[x].row # 0 /\ sub'[x].row = sub[x].row /\ sub'[x].handled = sub[x].handled
            /\ told'[x] = told[x] /\ mailed'[x] = mailed[x] /\ rows' = rows
  BY DEF Subscribe, IInv, TypeOK
<1>3. \A y \in Pairs : sub[y].row \in Nat /\ rows \in Nat
  BY DEF IInv, TypeOK
<1>4. \A s \in digest.loaded : s.of \in Pairs /\ s.row \in Nat /\ s.row # 0 /\ s.row <= rows
  BY DEF IInv, TypeOK, Rows, RowsAreCounted
<1>5. ASSUME NEW s \in digest.loaded, Same(s)'
      PROVE  /\ Same(s) /\ sub'[s.of].handled = sub[s.of].handled
             /\ told'[s.of] = told[s.of]
  BY <1>1, <1>2, <1>3, <1>4, <1>5 DEF Same
<1>6. ASSUME NEW s \in digest.loaded, Same(s), sub[s.of].row # 0
      PROVE  Same(s)'
  BY <1>1, <1>2, <1>4, <1>6 DEF Same
<1>7. RunHasADate'
  BY <1>1 DEF IInv, RunHasADate
<1>8. RowsAreCounted'
  <2>1. ASSUME NEW y \in Pairs PROVE sub'[y].row <= rows' /\ (sub'[y].row = 0 => sub'[y] = NoSub)
    BY <1>2, <1>3 DEF IInv, RowsAreCounted
  <2>2. \A s \in digest.loaded : s.row # 0 /\ s.row <= rows'
    BY <1>2, <1>3, <1>4
  <2> QED
    BY <1>1, <2>1, <2>2 DEF IInv, RowsAreCounted
<1>9. LoadedStands'
  BY <1>1, <1>5 DEF IInv, LoadedStands
<1>10. NewRowsAreBlank' /\ HandledByNow' /\ NoDayIsLost'
  BY <1>1, <1>2 DEF IInv, NewRowsAreBlank, HandledByNow, NoDayIsLost
<1>11. SentIsCovered'
  BY <1>1, <1>5 DEF IInv, SentIsCovered, Period, PeriodStart
<1>12. MailedBehind'
  <2> SUFFICES ASSUME NEW y \in Pairs, NEW d \in mailed'[y], sub'[y].row # 0, y[1] \notin again
               PROVE  \/ sub'[y].handled # None /\ d < sub'[y].handled
                      \/ digest.sent = y[1] /\ d < digest.date /\ HasRow(y, y[1])'
    BY <1>1 DEF MailedBehind
  <2>1. d \in mailed[y] /\ sub[y].row # 0 /\ sub'[y].handled = sub[y].handled
    BY <1>2
  <2>2. HasRow(y, y[1]) => HasRow(y, y[1])'
    BY <1>1, <1>6, <2>1 DEF HasRow, RowsOf
  <2> QED
    BY <2>1, <2>2 DEF IInv, MailedBehind
<1> QED
  BY <1>7, <1>8, <1>9, <1>10, <1>11, <1>12 DEF Rest

\* unsubscribed, or removed from the board
LEMMA OfNoSub ==
    ASSUME IInv, NEW x \in Pairs, sub' = [sub EXCEPT ![x] = NoSub],
           UNCHANGED <<day, digest, told, mailed, again, rows>>
    PROVE  Rest'
<1>1. /\ \A y \in Pairs \ {x} : sub'[y] = sub[y]
      /\ sub'[x].row = 0 /\ sub'[x].handled = None /\ sub'[x] = NoSub
  BY DEF IInv, TypeOK, NoSub
<1>2. \A s \in digest.loaded : s.of \in Pairs /\ s.row # 0
  BY DEF IInv, TypeOK, Rows, RowsAreCounted
<1>3. ASSUME NEW s \in digest.loaded, Same(s)'
      PROVE  Same(s) /\ sub'[s.of] = sub[s.of]
  BY <1>1, <1>2, <1>3 DEF Same
<1>4. RunHasADate'
  BY DEF IInv, RunHasADate
<1>5. RowsAreCounted'
  BY <1>1 DEF IInv, TypeOK, RowsAreCounted
<1>6. LoadedStands'
  BY <1>3 DEF IInv, LoadedStands
<1>7. NewRowsAreBlank' /\ HandledByNow' /\ NoDayIsLost'
  BY <1>1 DEF IInv, NewRowsAreBlank, HandledByNow, NoDayIsLost
<1>8. SentIsCovered'
  BY <1>3 DEF IInv, SentIsCovered, Period, PeriodStart
<1>9. MailedBehind'
  <2> SUFFICES ASSUME NEW y \in Pairs, NEW d \in mailed[y], sub'[y].row # 0, y[1] \notin again
               PROVE  \/ sub'[y].handled # None /\ d < sub'[y].handled
                      \/ digest.sent = y[1] /\ d < digest.date /\ HasRow(y, y[1])'
    BY DEF MailedBehind
  <2>1. y # x /\ sub'[y] = sub[y]
    BY <1>1
  <2>2. HasRow(y, y[1]) => HasRow(y, y[1])'
    BY <2>1 DEF HasRow, RowsOf, Same
  <2> QED
    BY <2>1, <2>2 DEF IInv, MailedBehind
<1> QED
  BY <1>4, <1>5, <1>6, <1>7, <1>8, <1>9 DEF Rest

-----------------------------------------------------------------------------
(* Types                                                                    *)

DigestTypeOK ==
    /\ sub \in [Pairs -> [row : Nat, freq : {"OFF", "DAILY", "WEEKLY"}, handled : Int \cup {None}]]
    /\ digest \in [date : Int \cup {None}, loaded : SUBSET Rows, able : SUBSET People,
                   todo : SUBSET People, sent : People \cup {None}]
    /\ told \in [Pairs -> [since : Int \cup {None}, days : SUBSET Int]]
    /\ mailed \in [Pairs -> SUBSET Int]
    /\ again \subseteq People
    /\ rows \in Nat

ReminderTypeOK ==
    /\ card \in [Cards -> [open : BOOLEAN, due : Nat, by : People \cup {None},
                           on : SUBSET People, hears : SUBSET People]]
    /\ reminders \in [kind : {"soon", "overdue", None}, today : Nat \cup {None}, list : SUBSET (Cards \X Nat)]
    /\ heard \subseteq [kind : {"soon", "overdue", None}, key : {"soon", "overdue", None} \X Cards \X Nat,
                        due : Nat, to : People]

OtherTypeOK ==
    /\ day \in Nat
    /\ reads \subseteq Pairs /\ active \subseteq People
    /\ changes \in Nat /\ trouble \in Nat

LEMMA TypesInParts == TypeOK <=> DigestTypeOK /\ ReminderTypeOK /\ OtherTypeOK
  BY DEF TypeOK, DigestTypeOK, ReminderTypeOK, OtherTypeOK

\* What a period adds is days.
LEMMA TypeOfTold ==
    ASSUME IInv, NEW p \in digest.todo
    PROVE  \A x \in Pairs : Since(p)[x] \in Int \cup {None} /\ Covered(p)[x] \subseteq Int
<1> SUFFICES ASSUME NEW x \in Pairs
             PROVE  Since(p)[x] \in Int \cup {None} /\ Covered(p)[x] \subseteq Int
  OBVIOUS
<1>1. told[x].since \in Int \cup {None} /\ told[x].days \subseteq Int
  BY DEF IInv, TypeOK
<1>2. CASE HasRow(x, p)
  <2>1. RowOf(x) \in Rows /\ digest.date \in Int
    BY <1>2, RowFound DEF IInv, RunHasADate
  <2>2. PeriodStart(RowOf(x), digest.date) \in Int /\ Period(RowOf(x), digest.date) \subseteq Int
    BY <2>1, PeriodStartIsADay
  <2> QED
    BY <1>1, <2>2 DEF Since, Covered
<1>3. CASE ~HasRow(x, p)
  BY <1>1, <1>3 DEF Since, Covered
<1> QED
  BY <1>2, <1>3

LEMMA TypeOfMarked ==
    ASSUME IInv, NEW p \in digest.todo
    PROVE  Marked(p) \in [Pairs -> [row : Nat, freq : {"OFF", "DAILY", "WEEKLY"}, handled : Int \cup {None}]]
  BY DEF Marked, IInv, TypeOK

LEMMA DigestTypes ==
    ASSUME IInv, Next
    PROVE  DigestTypeOK'
<1> USE DEF DigestTypeOK
<1>0. DigestTypeOK
  BY TypesInParts DEF IInv
<1>1. ASSUME NEW date \in {day - 1, day}, BeginDigest(date) PROVE DigestTypeOK'
  <2>1. DueRows(date) \subseteq Rows
    BY <1>0 DEF DueRows, Rows
  <2>2. {s.of[1] : s \in DueRows(date)} \subseteq People
    BY <2>1 DEF Rows, Pairs
  <2>3. digest' = [date |-> date, loaded |-> DueRows(date), able |-> active,
                   todo |-> {s.of[1] : s \in DueRows(date)}, sent |-> None]
    BY <1>1 DEF BeginDigest, Idle
  <2>4. again' = again \/ again' = People
    BY <1>1 DEF BeginDigest
  <2>5. date \in Int /\ active \subseteq People
    BY DEF IInv, TypeOK
  <2>6. UNCHANGED <<sub, told, mailed, rows>>
    BY <1>1 DEF BeginDigest
  <2>7. digest' \in [date : Int \cup {None}, loaded : SUBSET Rows, able : SUBSET People,
                     todo : SUBSET People, sent : People \cup {None}]
    BY <2>1, <2>2, <2>3, <2>5
  <2>8. again' \subseteq People
    BY <1>0, <2>4
  <2> QED
    BY <1>0, <2>6, <2>7, <2>8
<1>2. ASSUME NEW p \in People, SkipPerson(p) \/ (\E taken \in BOOLEAN : SendFails(p, taken))
      PROVE  DigestTypeOK'
  BY <1>0, <1>2 DEF SkipPerson, SendFails, Facing
<1>3. ASSUME NEW p \in People, NothingToSend(p) PROVE DigestTypeOK'
  <2>1. p \in digest.todo
    BY <1>3 DEF NothingToSend, Facing
  <2>2. told' \in [Pairs -> [since : Int \cup {None}, days : SUBSET Int]]
    BY <1>3, <2>1, TypeOfTold DEF NothingToSend
  <2> QED
    BY <1>0, <1>3, <2>1, <2>2, TypeOfMarked DEF NothingToSend
<1>4. ASSUME NEW p \in People, NEW named \in SUBSET digest.loaded, SendLetter(p, named)
      PROVE  DigestTypeOK'
  <2>1. p \in digest.todo
    BY <1>4 DEF SendLetter, Facing
  <2>2. told' = [x \in Pairs |-> [told[x] EXCEPT !.days = Covered(p)[x]]]
    BY <1>4 DEF SendLetter
  <2>3. told' \in [Pairs -> [since : Int \cup {None}, days : SUBSET Int]]
    BY <1>0, <2>1, <2>2, TypeOfTold
  <2>4. mailed' = [x \in Pairs |->
                    IF \E s \in named : s.of = x /\ Same(s)
                    THEN mailed[x] \cup Period(RowOf(x), digest.date) ELSE mailed[x]]
    BY <1>4, Zenon DEF SendLetter
  <2>5. ASSUME NEW x \in Pairs, NEW s \in named, s.of = x, Same(s)
        PROVE  Period(RowOf(x), digest.date) \subseteq Int
    <3>1. named \subseteq {q \in RowsOf(p) : q.of \in reads}
      BY <1>4 DEF SendLetter
    <3>2. HasRow(x, p)
      BY <2>5, <3>1 DEF HasRow, RowsOf
    <3>3. RowOf(x) \in Rows /\ digest.date \in Int
      BY <2>1, <3>2, RowFound DEF IInv, RunHasADate
    <3> QED
      BY <3>3, PeriodStartIsADay
  <2>6. mailed' \in [Pairs -> SUBSET Int]
    BY <1>0, <2>4, <2>5
  <2>7. digest' = [digest EXCEPT !.sent = p] /\ UNCHANGED <<sub, again, rows>>
    BY <1>4 DEF SendLetter
  <2> QED
    BY <1>0, <2>3, <2>6, <2>7
<1>5. CASE RecordSent
  <2>1. digest.sent \in digest.todo
    BY <1>5 DEF RecordSent, IInv, RunHasADate
  <2>2. told' = [x \in Pairs |-> [told[x] EXCEPT !.since = Since(digest.sent)[x]]]
    BY <1>5 DEF RecordSent
  <2>3. told' \in [Pairs -> [since : Int \cup {None}, days : SUBSET Int]]
    BY <1>0, <2>1, <2>2, TypeOfTold
  <2> QED
    BY <1>0, <1>5, <2>1, <2>3, TypeOfMarked DEF RecordSent
<1>6. CASE KillDigest
  BY <1>0, <1>6 DEF KillDigest, Idle
<1>7. ASSUME NEW x \in Pairs, NEW freq \in {"DAILY", "WEEKLY"}, Subscribe(x, freq) PROVE DigestTypeOK'
  <2>1. CASE sub[x].row = 0
    <3>1. /\ rows' = rows + 1
          /\ sub' = [sub EXCEPT ![x] = [row |-> rows + 1, freq |-> freq, handled |-> None]]
          /\ told' = [told EXCEPT ![x] = [since |-> None, days |-> {}]]
          /\ mailed' = [mailed EXCEPT ![x] = {}]
          /\ UNCHANGED <<digest, again>>
      BY <1>7, <2>1 DEF Subscribe
    <3> QED
      BY <1>0, <3>1
  <2>2. CASE sub[x].row # 0
    <3>1. sub' = [sub EXCEPT ![x].freq = freq] /\ UNCHANGED <<told, mailed, rows, digest, again>>
      BY <1>7, <2>2 DEF Subscribe
    <3> QED
      BY <1>0, <3>1
  <2> QED
    BY <2>1, <2>2
<1>8. ASSUME NEW x \in Pairs, sub' = [sub EXCEPT ![x] = NoSub],
             UNCHANGED <<digest, told, mailed, again, rows>> PROVE DigestTypeOK'
  BY <1>0, <1>8 DEF NoSub
<1>9. CASE UNCHANGED digestVars
  BY <1>0, <1>9 DEF digestVars
<1> QED
  BY <1>1, <1>2, <1>3, <1>4, <1>5, <1>6, <1>7, <1>8, <1>9
     DEF Next, Unsubscribe, RemoveMember, Pairs, NextDay, SwitchAccount, SwitchAccess, Follow, BeginReminders,
         Remind, ListOverdue, EndReminders, KillReminders, CloseOrReopen, MoveDue, Assign, Edited

LEMMA ReminderTypes ==
    ASSUME IInv, Next
    PROVE  ReminderTypeOK'
<1> USE DEF ReminderTypeOK
<1>0. ReminderTypeOK /\ day \in Nat
  BY TypesInParts DEF IInv, TypeOK
<1>1. \A from, to : Listed(from, to) \subseteq Cards \X Nat
  BY <1>0 DEF Listed
<1>2. CASE BeginReminders
  <2>1. Horizon(day) \in Int
    BY <1>0 DEF Horizon
  <2> QED
    BY <1>0, <1>1, <1>2, <2>1 DEF BeginReminders
<1>3. CASE ListOverdue
  BY <1>0, <1>1, <1>3 DEF ListOverdue
<1>4. CASE EndReminders \/ KillReminders
  BY <1>0, <1>4 DEF EndReminders, KillReminders, NoRun
<1>5. CASE Remind
  <2>1. PICK x \in reminders.list :
           LET c == x[1]
               those == IF reminders.kind = "soon" THEN card[c].on ELSE Concerned(c)
           IN  /\ heard' = Notified(reminders.kind, c, x[2], Audience(c, those))
               /\ reminders' = [reminders EXCEPT !.list = @ \ {x}]
    BY <1>5 DEF Remind
  <2>2. x[1] \in Cards /\ x[2] \in Nat /\ reminders.kind \in {"soon", "overdue", None}
    BY <1>0
  <2> DEFINE those == IF reminders.kind = "soon" THEN card[x[1]].on ELSE Concerned(x[1])
  <2>3. Audience(x[1], those) \subseteq People
    BY DEF Audience, IInv, TypeOK
  <2>4. heard' = Notified(reminders.kind, x[1], x[2], Audience(x[1], those))
    BY <2>1
  <2>5. heard' \subseteq [kind : {"soon", "overdue", None}, key : {"soon", "overdue", None} \X Cards \X Nat,
                          due : Nat, to : People]
    BY <1>0, <2>2, <2>3, <2>4 DEF Notified, Key
  <2> QED
    BY <1>0, <1>5, <2>1, <2>5 DEF Remind
<1>6. ASSUME NEW c \in Cards, NEW due \in 0 .. MaxDay, MoveDue(c, due) PROVE ReminderTypeOK'
  BY <1>0, <1>6, MailAssumption DEF MoveDue, Edited
<1>7. ASSUME NEW c \in Cards, NEW those \in SUBSET People, Assign(c, those) PROVE ReminderTypeOK'
  BY <1>0, <1>7 DEF Assign, Edited
<1>8. ASSUME NEW c \in Cards, NEW p \in People, Follow(p, c) PROVE ReminderTypeOK'
  BY <1>0, <1>8 DEF Follow, Edited
<1>9. ASSUME NEW c \in Cards, CloseOrReopen(c) PROVE ReminderTypeOK'
  <2>1. card' = [card EXCEPT ![c] = [card[c] EXCEPT !.open = ~card[c].open]]
        /\ UNCHANGED <<reminders, heard>>
    BY <1>9 DEF CloseOrReopen, Edited
  <2> DEFINE shut == ~card[c].open
  <2>2. shut \in BOOLEAN
    OBVIOUS
  <2> HIDE DEF shut
  <2> QED
    BY <1>0, <2>1, <2>2 DEF shut
<1>10. ASSUME NEW p \in People, NEW b \in Boards, RemoveMember(p, b) PROVE ReminderTypeOK'
  BY <1>0, <1>10 DEF RemoveMember
<1>11. CASE UNCHANGED reminderVars
  BY <1>0, <1>11 DEF reminderVars
<1> QED
  BY <1>2, <1>3, <1>4, <1>5, <1>6, <1>7, <1>8, <1>9, <1>10, <1>11
     DEF Next, NextDay, BeginDigest, SkipPerson, NothingToSend, SendFails, SendLetter, SwitchAccount,
         SwitchAccess, RecordSent, KillDigest, Subscribe, Unsubscribe

DigestStep ==
    \/ \E date \in {day - 1, day} : BeginDigest(date)
    \/ \E p \in People :
          \/ SkipPerson(p) \/ NothingToSend(p)
          \/ \E taken \in BOOLEAN : SendFails(p, taken)
          \/ \E named \in SUBSET digest.loaded : SendLetter(p, named)
    \/ RecordSent \/ KillDigest
    \/ \E x \in Pairs : Unsubscribe(x) \/ \E freq \in {"DAILY", "WEEKLY"} : Subscribe(x, freq)

LEMMA OtherTypes ==
    ASSUME IInv, Next
    PROVE  OtherTypeOK'
<1> USE DEF OtherTypeOK
<1>0. OtherTypeOK
  BY TypesInParts DEF IInv
<1>1. ASSUME NEW p \in People, NEW b \in Boards, RemoveMember(p, b) \/ SwitchAccess(p, b)
      PROVE  OtherTypeOK'
  BY <1>0, <1>1 DEF RemoveMember, SwitchAccess, Changing, Pairs
<1>2. ASSUME NEW p \in People, SwitchAccount(p) PROVE OtherTypeOK'
  BY <1>0, <1>2 DEF SwitchAccount, Changing
<1>3. CASE NextDay
  BY <1>0, <1>3 DEF NextDay
<1>4. CASE DigestStep
  BY <1>0, <1>4 DEF DigestStep, BeginDigest, SkipPerson, NothingToSend, SendFails, SendLetter, RecordSent,
                    KillDigest, Subscribe, Unsubscribe, Changing, Troubled
<1>5. CASE BeginReminders \/ Remind \/ ListOverdue \/ EndReminders \/ KillReminders
  BY <1>0, <1>5 DEF BeginReminders, Remind, ListOverdue, EndReminders, KillReminders, Troubled
<1>6. ASSUME NEW c \in Cards,
             \/ CloseOrReopen(c) \/ (\E due \in 0 .. MaxDay : MoveDue(c, due))
             \/ (\E those \in SUBSET People : Assign(c, those)) \/ (\E p \in People : Follow(p, c))
      PROVE  OtherTypeOK'
  <2>1. Changing /\ UNCHANGED <<reads, active>>
    <3>1. CASE CloseOrReopen(c)
      BY <3>1 DEF CloseOrReopen, Edited
    <3>2. ASSUME NEW due \in 0 .. MaxDay, MoveDue(c, due) PROVE Changing /\ UNCHANGED <<reads, active>>
      BY <3>2 DEF MoveDue, Edited
    <3>3. ASSUME NEW those \in SUBSET People, Assign(c, those) PROVE Changing /\ UNCHANGED <<reads, active>>
      BY <3>3 DEF Assign, Edited
    <3>4. ASSUME NEW p \in People, Follow(p, c) PROVE Changing /\ UNCHANGED <<reads, active>>
      BY <3>4 DEF Follow, Edited
    <3> QED
      BY <1>6, <3>1, <3>2, <3>3, <3>4
  <2> QED
    BY <1>0, <2>1 DEF Changing
<1> QED
  BY <1>1, <1>2, <1>3, <1>4, <1>5, <1>6 DEF Next, DigestStep

-----------------------------------------------------------------------------
(* The invariant                                                            *)

LEMMA StepKeepsRest ==
    ASSUME IInv, Next
    PROVE  Rest'
<1>1. ASSUME NEW date \in {day - 1, day}, BeginDigest(date) PROVE Rest'
  BY <1>1, OfBeginDigest
<1>2. ASSUME NEW p \in People, SkipPerson(p) PROVE Rest'
  BY <1>2, OfLeaving DEF SkipPerson
<1>3. ASSUME NEW p \in People, NEW taken \in BOOLEAN, SendFails(p, taken) PROVE Rest'
  BY <1>3, OfLeaving DEF SendFails
<1>4. ASSUME NEW p \in People, NothingToSend(p) PROVE Rest'
  <2>1. /\ p \in digest.todo /\ digest.sent = None /\ sub' = Marked(p)
        /\ told' = [x \in Pairs |-> [since |-> Since(p)[x], days |-> Covered(p)[x]]]
        /\ digest' = [digest EXCEPT !.todo = @ \ {p}]
        /\ UNCHANGED <<day, mailed, again, rows>>
    BY <1>4 DEF NothingToSend, Facing
  <2>2. digest' = [digest EXCEPT !.todo = @ \ {p}, !.sent = None]
    BY <2>1 DEF IInv, TypeOK
  <2>3. told' \in [Pairs -> [since : Int \cup {None}, days : SUBSET Int]]
    BY <2>1, TypeOfTold
  <2>4. ASSUME NEW x \in Pairs
        PROVE  /\ told'[x].since = Since(p)[x]
               /\ told[x].days \subseteq told'[x].days
               /\ HasRow(x, p) => Period(RowOf(x), digest.date) \subseteq told'[x].days
    BY <2>1 DEF Covered
  <2> QED
    BY <2>1, <2>2, <2>3, <2>4, OfRecording
<1>5. ASSUME NEW p \in People, NEW named \in SUBSET digest.loaded, SendLetter(p, named) PROVE Rest'
  BY <1>5, OfSendLetter
<1>6. CASE RecordSent
  <2> DEFINE p == digest.sent
  <2>1. /\ p \in People /\ p \in digest.todo /\ sub' = Marked(p)
        /\ told' = [x \in Pairs |-> [told[x] EXCEPT !.since = Since(p)[x]]]
        /\ digest' = [digest EXCEPT !.todo = @ \ {p}, !.sent = None]
        /\ UNCHANGED <<day, mailed, again, rows>>
    BY <1>6 DEF RecordSent, IInv, TypeOK, RunHasADate
  <2>2. told' \in [Pairs -> [since : Int \cup {None}, days : SUBSET Int]]
    <3>1. told \in [Pairs -> [since : Int \cup {None}, days : SUBSET Int]]
      BY DEF IInv, TypeOK
    <3> HIDE DEF p
    <3> QED
      BY <2>1, <3>1, TypeOfTold
  <2>3. ASSUME NEW x \in Pairs
        PROVE  told'[x].since = Since(p)[x] /\ told'[x].days = told[x].days
    BY <2>1 DEF IInv, TypeOK
  <2>4. ASSUME NEW x \in Pairs, HasRow(x, p)
        PROVE  Period(RowOf(x), digest.date) \subseteq told'[x].days
    <3>1. RowOf(x) \in digest.loaded /\ RowOf(x).of = x /\ Same(RowOf(x)) /\ x[1] = p
      BY <2>4, RowFound DEF IInv
    <3>2. p # None
      BY <1>6 DEF RecordSent
    <3> QED
      BY <2>3, <3>1, <3>2 DEF IInv, SentIsCovered
  <2> QED
    BY <2>1, <2>2, <2>3, <2>4, OfRecording
<1>7. CASE KillDigest
  BY <1>7, OfKillDigest
<1>8. ASSUME NEW x \in Pairs, NEW freq \in {"DAILY", "WEEKLY"}, Subscribe(x, freq) PROVE Rest'
  BY <1>8, OfSubscribe
<1>9. ASSUME NEW x \in Pairs, Unsubscribe(x) PROVE Rest'
  BY <1>9, OfNoSub DEF Unsubscribe, Changing
<1>10. ASSUME NEW p \in People, NEW b \in Boards, RemoveMember(p, b) PROVE Rest'
  BY <1>10, OfNoSub DEF RemoveMember, Changing, Pairs
<1>11. CASE UNCHANGED digestVars /\ day' \in {day, day + 1}
  BY <1>11, Outside
<1>12. ASSUME NEW c \in Cards,
              \/ CloseOrReopen(c) \/ (\E due \in 0 .. MaxDay : MoveDue(c, due))
              \/ (\E those \in SUBSET People : Assign(c, those)) \/ (\E p \in People : Follow(p, c))
       PROVE  UNCHANGED digestVars /\ day' = day
  BY <1>12 DEF CloseOrReopen, MoveDue, Assign, Follow, Edited, Changing
<1>13. ASSUME \/ BeginReminders \/ Remind \/ ListOverdue \/ EndReminders \/ KillReminders \/ NextDay
              \/ \E p \in People : SwitchAccount(p) \/ \E b \in Boards : SwitchAccess(p, b)
       PROVE  UNCHANGED digestVars /\ day' \in {day, day + 1}
  BY <1>13 DEF BeginReminders, Remind, ListOverdue, EndReminders, KillReminders, NextDay,
               SwitchAccount, SwitchAccess, Changing
<1> QED
  BY <1>1, <1>2, <1>3, <1>4, <1>5, <1>6, <1>7, <1>8, <1>9, <1>10, <1>11, <1>12, <1>13 DEF Next

LEMMA Invariance == Spec => []IInv
<1>1. Init => IInv
  <2> SUFFICES ASSUME Init PROVE IInv
    OBVIOUS
  <2>1. DigestTypeOK
    BY DEF Init, DigestTypeOK, NoSub, Idle
  <2>2. ReminderTypeOK
    <3>1. card \in [Cards -> [open : BOOLEAN, due : Nat, by : People \cup {None},
                              on : SUBSET People, hears : SUBSET People]]
      <4>1. card \in [Cards -> [open : {TRUE}, due : {0}, by : People \cup {None}, on : {{}}, hears : {{}}]]
        BY DEF Init
      <4>2. {TRUE} \subseteq BOOLEAN /\ {0} \subseteq Nat /\ {{}} \subseteq SUBSET People
        OBVIOUS
      <4> QED
        BY <4>1, <4>2
    <3> QED
      BY <3>1 DEF Init, ReminderTypeOK, NoRun
  <2>3. OtherTypeOK
    BY DEF Init, OtherTypeOK
  <2>4. TypeOK
    BY <2>1, <2>2, <2>3 DEF TypeOK, DigestTypeOK, ReminderTypeOK, OtherTypeOK, Rows
  <2> QED
    BY <2>4 DEF Init, IInv, RunHasADate, RowsAreCounted, LoadedStands, NewRowsAreBlank, HandledByNow,
                SentIsCovered, MailedBehind, NoDayIsLost, NoSub, Idle
<1>2. IInv /\ [Next]_vars => IInv'
  <2> SUFFICES ASSUME IInv, [Next]_vars PROVE IInv'
    OBVIOUS
  <2>1. CASE Next
    <3>1. TypeOK'
      BY <2>1, DigestTypes, ReminderTypes, OtherTypes
         DEF TypeOK, DigestTypeOK, ReminderTypeOK, OtherTypeOK, Rows, Pairs
    <3> QED
      BY <2>1, <3>1, StepKeepsRest DEF IInv, Rest
  <2>2. CASE UNCHANGED vars
    <3>1. TypeOK'
      BY <2>2 DEF IInv, TypeOK, vars, digestVars, reminderVars
    <3>2. Rest'
      BY <2>2, Outside DEF vars
    <3> QED
      BY <3>1, <3>2 DEF IInv, Rest
  <2> QED
    BY <2>1, <2>2
<1> QED
  BY <1>1, <1>2, PTL DEF Spec

-----------------------------------------------------------------------------
(* Results                                                                  *)

\* Every state of the jobs, the subscriptions and the cards is well typed.
THEOREM TypeCorrect == Spec => []TypeOK
<1>1. IInv => TypeOK
  BY DEF IInv
<1> QED
  BY <1>1, Invariance, PTL

\* No day between the first digest recorded and the last is unaccounted for,
\* whatever days passed without a run and whatever was refused or killed.
THEOREM NoDayLost == Spec => []NoDayIsLost
<1>1. IInv => NoDayIsLost
  BY DEF IInv
<1> QED
  BY <1>1, Invariance, PTL

\* No day is in two letters of one subscription, however often the job runs.
THEOREM NothingMailedTwice == Spec => MailedOnce
<1>1. ASSUME IInv, NEW p \in People, NEW named \in SUBSET digest.loaded, SendLetter(p, named), p \notin again,
             NEW s \in named, Same(s)
      PROVE  Period(s, digest.date) \cap mailed[s.of] = {}
  <2>1. s \in digest.loaded /\ s.of[1] = p
    <3>1. named \subseteq {q \in RowsOf(p) : q.of \in reads}
      BY <1>1 DEF SendLetter
    <3> QED
      BY <3>1 DEF RowsOf
  <2>2. s.of \in Pairs /\ s \in Rows /\ s.row # 0
    BY <1>1, <2>1 DEF IInv, TypeOK, Rows, RowsAreCounted
  <2>3. p \in digest.todo /\ digest.sent = None /\ digest.date \in Int
    BY <1>1 DEF SendLetter, Facing, IInv, RunHasADate
  <2>4. sub[s.of].handled = s.handled /\ (s.handled # None => s.handled < digest.date)
    BY <1>1, <2>1, <2>3 DEF IInv, LoadedStands
  <2>5. sub[s.of].row # 0 /\ digest.sent # s.of[1]
    BY <1>1, <2>1, <2>2, <2>3, MailAssumption DEF Same
  <2>6. \A d \in mailed[s.of] : s.handled # None /\ d < s.handled
    BY <1>1, <2>1, <2>2, <2>4, <2>5 DEF IInv, MailedBehind
  <2>7. s.handled # None => Period(s, digest.date) = s.handled .. digest.date - 1
    BY <2>4 DEF Period, PeriodStart
  <2>8. s.handled \in Int \cup {None} /\ mailed[s.of] \subseteq Int
    BY <1>1, <2>2 DEF IInv, TypeOK, Rows
  <2> QED
    BY <2>3, <2>6, <2>7, <2>8
<1>2. IInv => [\A p \in People, named \in SUBSET digest.loaded :
                 SendLetter(p, named) /\ p \notin again =>
                    \A s \in named : Same(s) => Period(s, digest.date) \cap mailed[s.of] = {}]_vars
  BY <1>1
<1> QED
  BY <1>2, Invariance, PTL DEF MailedOnce
=============================================================================
