--------------------------- MODULE EmailDelivery ---------------------------
(***************************************************************************)
(* The email queue: rows of NotificationDelivery, and the runs of          *)
(* notifications/email_delivery.py that a timer starts every minute.       *)
(*                                                                         *)
(* A run holds no transaction across its steps: every query below is its   *)
(* own transaction, so runs overlap between any two of them, and a run may *)
(* be killed after any of them.  Time is abstracted to two facts about a   *)
(* row: whether its available_at has come, and whether its started_at is   *)
(* older than the processing timeout.                                      *)
(***************************************************************************)
EXTENDS Naturals, FiniteSets

CONSTANTS
    Deliveries,    \* primary keys of the deliveries
    Workers,       \* runs that may be in progress at once
    Limits,        \* EMAIL_NOTIFICATION_MAX_ATTEMPTS, as each run reads it
    MaxAttempts,   \* the largest of them
    BatchSize,     \* EMAIL_NOTIFICATION_BATCH_SIZE
    MaxCrashes,    \* bound on the runs that are killed
    None           \* no delivery in hand

ASSUME QueueAssumption ==
    /\ IsFiniteSet(Workers)
    /\ MaxAttempts \in Nat \ {0}
    /\ Limits \subseteq 1 .. MaxAttempts
    /\ BatchSize \in Nat \ {0}
    /\ MaxCrashes \in Nat
    /\ None \notin Deliveries

\* NotificationDelivery.Status; "absent" is a row not created yet.
Final    == {"SENT", "FAILED", "SKIPPED"}
Statuses == Final \cup {"absent", "PENDING", "PROCESSING"}

Row == [status : Statuses, attempts : 0 .. MaxAttempts, due : BOOLEAN, stale : BOOLEAN]

\* Where a run is.  In "claiming", "skipping" and "refusing" it has read the
\* row; from "claimed" on the delivery is its to send.
Holding == {"claimed", "sending", "accepted", "retryable", "permanent"}
InHand  == Holding \cup {"claiming", "skipping", "refusing"}
Phases  == InHand \cup {"idle", "recovered", "batch"}

VARIABLES
    row,       \* the table
    mails,     \* mails the SMTP server accepted for each delivery
    phase,     \* where each run is
    limit,     \* the limit of attempts it reads from its settings
    todo,      \* the keys of its batch it has not come to yet
    hand,      \* the delivery it is working on
    seen,      \* delivery.attempts of the row object it holds
    crashes,
    overran    \* deliveries with a live run that outlived the timeout

runVars == <<phase, limit, todo, hand, seen>>
vars == <<row, mails, runVars, crashes, overran>>

Senders(d) == {w \in Workers : hand[w] = d /\ phase[w] \in Holding}

-----------------------------------------------------------------------------
Init ==
    /\ row = [d \in Deliveries |->
                 [status |-> "absent", attempts |-> 0, due |-> TRUE, stale |-> FALSE]]
    /\ mails = [d \in Deliveries |-> 0]
    /\ phase = [w \in Workers |-> "idle"]
    /\ limit = [w \in Workers |-> MaxAttempts]
    /\ todo = [w \in Workers |-> {}]
    /\ hand = [w \in Workers |-> None]
    /\ seen = [w \in Workers |-> 0]
    /\ crashes = 0
    /\ overran = {}

\* _create_email_delivery, in the transaction of the business event: PENDING,
\* or SKIPPED when mail is switched off or the recipient has no address.
Create(d) ==
    /\ row[d].status = "absent"
    /\ \E status \in {"PENDING", "SKIPPED"} : row' = [row EXCEPT ![d].status = status]
    /\ UNCHANGED <<mails, runVars, crashes, overran>>

\* Time passes: available_at of a delivery put off comes ...
ComeDue(d) ==
    /\ row[d].status = "PENDING" /\ ~row[d].due
    /\ row' = [row EXCEPT ![d].due = TRUE]
    /\ UNCHANGED <<mails, runVars, crashes, overran>>

\* ... or the processing timeout of a claimed one runs out, because its run
\* was killed or, though the timeout should well exceed what a send may take,
\* because its run is still at it.
Overrun(d) ==
    /\ row[d].status = "PROCESSING" /\ ~row[d].stale
    /\ row' = [row EXCEPT ![d].stale = TRUE]
    /\ overran' = IF Senders(d) # {} THEN overran \cup {d} ELSE overran
    /\ UNCHANGED <<mails, runVars, crashes>>

-----------------------------------------------------------------------------
(* A run                                                                    *)

\* A row set to a status that is not PROCESSING: started_at is cleared.
Marked(r, status, due) ==
    [status |-> status, attempts |-> r.attempts, due |-> due, stale |-> FALSE]

\* Mutant: whatever is being processed is taken to be stale.
AnyProcessing(r) == r.status = "PROCESSING"

IsStale(r) == r.status = "PROCESSING" /\ r.stale

\* Mutant: a stale delivery without attempts left is not given up.
RecoveredIfAttemptsLeft(r, max) ==
    IF r.status = "PENDING" /\ r.attempts >= max THEN Marked(r, "FAILED", r.due)
    ELSE IF IsStale(r) /\ r.attempts < max THEN Marked(r, "PENDING", TRUE) ELSE r

\* _recover_stale_deliveries: three updates of disjoint sets of rows.
Recovered(r, max) ==
    IF r.status = "PENDING" /\ r.attempts >= max THEN Marked(r, "FAILED", r.due)
    ELSE IF ~IsStale(r) THEN r
    ELSE IF r.attempts < max THEN Marked(r, "PENDING", TRUE)
    ELSE Marked(r, "FAILED", r.due)

\* The timer starts a run, which reads its settings and recovers what others left.
Begin(w) ==
    /\ phase[w] = "idle"
    /\ \E max \in Limits :
          /\ limit' = [limit EXCEPT ![w] = max]
          /\ row' = [d \in Deliveries |-> Recovered(row[d], max)]
    /\ phase' = [phase EXCEPT ![w] = "recovered"]
    /\ UNCHANGED <<mails, todo, hand, seen, crashes, overran>>

Ready(w) ==
    {d \in Deliveries : row[d].status = "PENDING" /\ row[d].due /\ row[d].attempts < limit[w]}

\* The batch; what does not fit in it is left to a later run.
Select(w) ==
    /\ phase[w] = "recovered"
    /\ \E batch \in SUBSET Ready(w) :
          /\ Cardinality(batch) <= BatchSize
          /\ batch = Ready(w) \/ Cardinality(batch) = BatchSize
          /\ todo' = [todo EXCEPT ![w] = batch]
    /\ phase' = [phase EXCEPT ![w] = "batch"]
    /\ UNCHANGED <<row, mails, limit, hand, seen, crashes, overran>>

Finish(w) ==
    /\ phase[w] = "batch" /\ todo[w] = {}
    /\ phase' = [phase EXCEPT ![w] = "idle"]
    /\ UNCHANGED <<row, mails, limit, todo, hand, seen, crashes, overran>>

\* _process_delivery reads the row.  It is left alone unless still PENDING;
\* otherwise the run goes on to skip it (mail is switched off, or the recipient
\* has no address), to refuse it (no attempts left) or to claim it.
Read(w) ==
    /\ phase[w] = "batch"
    /\ \E d \in todo[w] :
          /\ todo' = [todo EXCEPT ![w] = @ \ {d}]
          /\ IF row[d].status # "PENDING" THEN UNCHANGED <<phase, hand, seen>>
             ELSE /\ hand' = [hand EXCEPT ![w] = d]
                  /\ seen' = [seen EXCEPT ![w] = row[d].attempts]
                  /\ \E next \in {"skipping",
                                  IF row[d].attempts >= limit[w] THEN "refusing" ELSE "claiming"} :
                        phase' = [phase EXCEPT ![w] = next]
    /\ UNCHANGED <<row, mails, limit, crashes, overran>>

\* The run is done with the delivery in hand.
PutDown(w) ==
    /\ phase' = [phase EXCEPT ![w] = "batch"]
    /\ hand' = [hand EXCEPT ![w] = None]
    /\ seen' = [seen EXCEPT ![w] = 0]
    /\ UNCHANGED <<limit, todo>>

\* An update of the row in hand, if the condition still holds of it.
UpdateIf(w, condition, status, due) ==
    row' = IF condition THEN [row EXCEPT ![hand[w]] = Marked(@, status, due)] ELSE row

Skip(w) ==
    /\ phase[w] = "skipping"
    /\ UpdateIf(w, row[hand[w]].status = "PENDING", "SKIPPED", row[hand[w]].due)
    /\ PutDown(w)
    /\ UNCHANGED <<mails, crashes, overran>>

Refuse(w) ==
    /\ phase[w] = "refusing"
    /\ UpdateIf(w, row[hand[w]].status = "PENDING", "FAILED", row[hand[w]].due)
    /\ PutDown(w)
    /\ UNCHANGED <<mails, crashes, overran>>

-----------------------------------------------------------------------------
(* Claiming, sending, recording                                             *)

\* Mutant: the claim writes the row as it was read.
ClaimableAsRead(w) == seen[w] < limit[w]

\* The condition of the claiming UPDATE.
Claimable(w) ==
    row[hand[w]].status = "PENDING" /\ row[hand[w]].attempts < limit[w]

\* Mutant: the attempts of the object read before, not of the row.
AttemptsOfObject(w) == seen[w] + 1

\* F('attempts') + 1
AttemptsOfRow(w) == row[hand[w]].attempts + 1

Claim(w) ==
    /\ phase[w] = "claiming"
    /\ Claimable(w)
    /\ row' = [row EXCEPT ![hand[w]] =
                  [status |-> "PROCESSING", attempts |-> AttemptsOfRow(w),
                   due |-> @.due, stale |-> FALSE]]
    /\ phase' = [phase EXCEPT ![w] = "claimed"]
    /\ UNCHANGED <<mails, limit, todo, hand, seen, crashes, overran>>

\* Another run was quicker.
LoseClaim(w) ==
    /\ phase[w] = "claiming"
    /\ ~Claimable(w)
    /\ PutDown(w)
    /\ UNCHANGED <<row, mails, crashes, overran>>

\* refresh_from_db(fields=['attempts']): a query of its own, after the claim.
Refresh(w) ==
    /\ phase[w] = "claimed"
    /\ seen' = [seen EXCEPT ![w] = row[hand[w]].attempts]
    /\ phase' = [phase EXCEPT ![w] = "sending"]
    /\ UNCHANGED <<row, mails, limit, todo, hand, crashes, overran>>

\* Mutant: the number of messages send() reports is not looked at.
ReturnIsSuccess(count) == "accepted"

\* A send that returns without having sent is a RuntimeError: not retryable.
AfterReturn(count) == IF count = 1 THEN "accepted" ELSE "permanent"

\* The SMTP conversation ends in a return, with one message sent or none.
SendReturns(w) ==
    /\ phase[w] = "sending"
    /\ \E count \in {0, 1} :
          /\ mails' = [mails EXCEPT ![hand[w]] = @ + count]
          /\ phase' = [phase EXCEPT ![w] = AfterReturn(count)]
    /\ UNCHANGED <<row, limit, todo, hand, seen, crashes, overran>>

\* ... or in an exception.  One that is worth a retry, such as a timeout, may
\* come after the server took the message.
SendRaises(w) ==
    /\ phase[w] = "sending"
    /\ \/ /\ phase' = [phase EXCEPT ![w] = "permanent"]
          /\ UNCHANGED mails
       \/ /\ phase' = [phase EXCEPT ![w] = "retryable"]
          /\ \E count \in {0, 1} : mails' = [mails EXCEPT ![hand[w]] = @ + count]
    /\ UNCHANGED <<row, limit, todo, hand, seen, crashes, overran>>

\* Mutant: whoever comes to record an outcome records it.
AnybodysAttempt(w) == TRUE

\* The condition of the updates that record an outcome.
OwnAttempt(w) ==
    row[hand[w]].status = "PROCESSING" /\ row[hand[w]].attempts = seen[w]

RecordSent(w) ==
    /\ phase[w] = "accepted"
    /\ UpdateIf(w, OwnAttempt(w), "SENT", row[hand[w]].due)
    /\ PutDown(w)
    /\ UNCHANGED <<mails, crashes, overran>>

\* _record_failure, for a failure worth a retry while attempts are left ...
RecordRetry(w) ==
    /\ phase[w] = "retryable" /\ seen[w] < limit[w]
    /\ UpdateIf(w, OwnAttempt(w), "PENDING", FALSE)
    /\ PutDown(w)
    /\ UNCHANGED <<mails, crashes, overran>>

\* ... and for any other.
RecordFailed(w) ==
    /\ phase[w] = "permanent" \/ (phase[w] = "retryable" /\ seen[w] >= limit[w])
    /\ UpdateIf(w, OwnAttempt(w), "FAILED", row[hand[w]].due)
    /\ PutDown(w)
    /\ UNCHANGED <<mails, crashes, overran>>

\* The process is killed; whatever it claimed stays PROCESSING.
Crash(w) ==
    /\ phase[w] # "idle" /\ crashes < MaxCrashes
    /\ crashes' = crashes + 1
    /\ phase' = [phase EXCEPT ![w] = "idle"]
    /\ hand' = [hand EXCEPT ![w] = None]
    /\ todo' = [todo EXCEPT ![w] = {}]
    /\ seen' = [seen EXCEPT ![w] = 0]
    /\ UNCHANGED <<row, mails, limit, overran>>

-----------------------------------------------------------------------------
Step(w) ==
    \/ Begin(w) \/ Select(w) \/ Read(w) \/ Finish(w)
    \/ Skip(w) \/ Refuse(w) \/ Claim(w) \/ LoseClaim(w) \/ Refresh(w)
    \/ SendReturns(w) \/ SendRaises(w)
    \/ RecordSent(w) \/ RecordRetry(w) \/ RecordFailed(w)

Passing(d) == ComeDue(d) \/ Overrun(d)

Next ==
    \/ \E d \in Deliveries : Create(d) \/ Passing(d)
    \/ \E w \in Workers : Step(w) \/ Crash(w)

\* The timer starts runs for ever, a run that is not killed goes on (the SMTP
\* client has a timeout), and time passes.
Fairness ==
    /\ \A w \in Workers : WF_vars(Step(w))
    /\ \A d \in Deliveries : WF_vars(Passing(d))

Spec == Init /\ [][Next]_vars /\ Fairness

-----------------------------------------------------------------------------
(* Properties                                                               *)

\* Every variable has its type; in particular no row is ever claimed beyond
\* the largest limit, whatever the limits of the runs that overlap.
TypeOK ==
    /\ row \in [Deliveries -> Row]
    /\ mails \in [Deliveries -> Nat]
    /\ phase \in [Workers -> Phases]
    /\ limit \in [Workers -> 1 .. MaxAttempts]
    /\ todo \in [Workers -> SUBSET Deliveries]
    /\ hand \in [Workers -> Deliveries \cup {None}]
    /\ \A w \in Workers : phase[w] \in InHand => hand[w] # None
    /\ seen \in [Workers -> 0 .. MaxAttempts]
    /\ crashes \in 0 .. MaxCrashes
    /\ overran \subseteq Deliveries

\* No mail goes out that no attempt was spent on, however runs overlap, are
\* killed or outlive the timeout: so a delivery gets at most as many mails as
\* the limit allows attempts.
MailsWithinAttempts == \A d \in Deliveries : mails[d] <= row[d].attempts

\* "Only one of overlapping processes gets the right to send" (the deployment
\* guide): unless a run outlived the timeout, a delivery is in the hands of one
\* run at most, whose attempt is the one the row counts.
OneSender ==
    \A d \in Deliveries \ overran :
        /\ Cardinality(Senders(d)) <= 1
        /\ \A w \in Senders(d) : row[d].status = "PROCESSING"
                                 /\ (phase[w] # "claimed" => seen[w] = row[d].attempts)

\* `sent`, `failed` and `skipped` are final, even when the run that records an
\* outcome comes back long after others have settled the delivery.
SettledIsFinal ==
    [][\A d \in Deliveries : row[d].status \in Final => row'[d].status = row[d].status]_vars

\* A delivery recorded as sent has been.
SentWasMailed == \A d \in Deliveries : row[d].status = "SENT" => mails[d] > 0

\* An attempt is one run's, and it is what a mail costs: nobody sends beside
\* the run that claimed, no mail is sent without an attempt, and what is
\* recorded as sent was.
AttemptIsOneRuns == MailsWithinAttempts /\ OneSender /\ SentWasMailed

\* The queue keeps its promise, the liveness of it included: every delivery
\* that is queued is settled, though runs crash, overlap and overrun.
ResultOf(status) ==
    CASE status = "absent" -> "none"
      [] status \in {"PENDING", "PROCESSING"} -> "waiting"
      [] status = "SENT"    -> "sent"
      [] status = "FAILED"  -> "failed"
      [] status = "SKIPPED" -> "skipped"

Result == [d \in Deliveries |-> ResultOf(row[d].status)]

Promise == INSTANCE MailPromise
           WITH result <- Result, mailed <- mails,
                late <- overran, MaxMails <- MaxAttempts
KeepsPromise == Promise!Spec

=============================================================================
