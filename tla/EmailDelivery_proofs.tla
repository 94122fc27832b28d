------------------------ MODULE EmailDelivery_proofs ------------------------
(***************************************************************************)
(* Proofs about EmailDelivery, for any number of deliveries, overlapping    *)
(* runs, attempt limits and crashes.                                        *)
(***************************************************************************)
EXTENDS EmailDelivery, FiniteSetTheorems, TLAPS

-----------------------------------------------------------------------------
(* What happens to a row                                                    *)

LEMMA MarkedRow ==
    \A r \in Row, status \in Statuses, due \in BOOLEAN :
        /\ Marked(r, status, due) \in Row
        /\ Marked(r, status, due).status = status
        /\ Marked(r, status, due).attempts = r.attempts
        /\ Marked(r, status, due).stale = FALSE
  BY DEF Marked, Row

\* Recovery settles or requeues what is queued or stale, and nothing else.
LEMMA RecoveredRow ==
    ASSUME NEW r \in Row, NEW max \in 1 .. MaxAttempts
    PROVE  /\ Recovered(r, max) \in Row
           /\ Recovered(r, max).attempts = r.attempts
           /\ \/ Recovered(r, max) = r
              \/ /\ r.status = "PENDING" \/ (r.status = "PROCESSING" /\ r.stale)
                 /\ Recovered(r, max).status \in {"PENDING", "FAILED"}
                 /\ Recovered(r, max).stale = FALSE
  <1>1. r.due \in BOOLEAN
    BY DEF Row
  <1>2. /\ Marked(r, "FAILED", r.due) \in Row
        /\ Marked(r, "FAILED", r.due).status = "FAILED"
        /\ Marked(r, "FAILED", r.due).attempts = r.attempts
        /\ Marked(r, "FAILED", r.due).stale = FALSE
    BY <1>1, MarkedRow DEF Statuses, Final
  <1>3. /\ Marked(r, "PENDING", TRUE) \in Row
        /\ Marked(r, "PENDING", TRUE).status = "PENDING"
        /\ Marked(r, "PENDING", TRUE).attempts = r.attempts
        /\ Marked(r, "PENDING", TRUE).stale = FALSE
    BY MarkedRow DEF Statuses, Final
  <1>4. \/ Recovered(r, max) = r
        \/ r.status = "PENDING" /\ Recovered(r, max) = Marked(r, "FAILED", r.due)
        \/ IsStale(r) /\ Recovered(r, max) = Marked(r, "PENDING", TRUE)
        \/ IsStale(r) /\ Recovered(r, max) = Marked(r, "FAILED", r.due)
    BY DEF Recovered
  <1> QED BY <1>2, <1>3, <1>4 DEF IsStale

LEMMA MarkedInHand ==
    ASSUME TypeOK, NEW w \in Workers, hand[w] \in Deliveries, NEW status \in Statuses,
           \E due \in BOOLEAN :
               row' = [row EXCEPT ![hand[w]] = Marked(row[hand[w]], status, due)]
    PROVE  /\ row' \in [Deliveries -> Row]
           /\ \A d \in Deliveries : row'[d].attempts = row[d].attempts
           /\ \A d \in Deliveries \ {hand[w]} : row'[d] = row[d]
           /\ row'[hand[w]].status = status /\ row'[hand[w]].stale = FALSE
  <1>1. row[hand[w]] \in Row /\ row \in [Deliveries -> Row]
    BY DEF TypeOK
  <1>2. PICK due \in BOOLEAN :
            row' = [row EXCEPT ![hand[w]] = Marked(row[hand[w]], status, due)]
    OBVIOUS
  <1>3. /\ Marked(row[hand[w]], status, due) \in Row
        /\ Marked(row[hand[w]], status, due).status = status
        /\ Marked(row[hand[w]], status, due).attempts = row[hand[w]].attempts
        /\ Marked(row[hand[w]], status, due).stale = FALSE
    BY <1>1, MarkedRow
  <1> QED BY <1>1, <1>2, <1>3

\* An update that ends a run's work on a delivery settles or requeues it, or
\* comes too late and changes nothing.
SettlesOrLate(w) ==
    \/ row' = row
    \/ /\ \/ row[hand[w]].status = "PENDING" /\ phase[w] \in {"skipping", "refusing"}
          \/ row[hand[w]].status = "PROCESSING" /\ phase[w] \in Holding
       /\ \A d \in Deliveries \ {hand[w]} : row'[d] = row[d]
       /\ row'[hand[w]].status \in Final \cup {"PENDING"}
       /\ row'[hand[w]].stale = FALSE
       /\ row'[hand[w]].status = "SENT" => phase[w] = "accepted"

LEMMA PutDownRow ==
    ASSUME TypeOK, NEW w \in Workers,
           Skip(w) \/ Refuse(w) \/ RecordSent(w) \/ RecordRetry(w) \/ RecordFailed(w)
    PROVE  /\ phase[w] \in InHand /\ hand[w] \in Deliveries
           /\ PutDown(w) /\ mails' = mails /\ crashes' = crashes /\ overran' = overran
           /\ row' \in [Deliveries -> Row]
           /\ \A d \in Deliveries : row'[d].attempts = row[d].attempts
           /\ SettlesOrLate(w)
  <1> USE DEF Holding, InHand, Statuses, Final, SettlesOrLate, UpdateIf
  <1>0. /\ phase[w] \in InHand /\ hand[w] \in Deliveries
        /\ PutDown(w) /\ mails' = mails /\ crashes' = crashes /\ overran' = overran
        /\ row \in [Deliveries -> Row] /\ row[hand[w]].due \in BOOLEAN
    BY DEF TypeOK, Row, Skip, Refuse, RecordSent, RecordRetry, RecordFailed
  <1>1. CASE row' = row
    BY <1>0, <1>1
  <1>2. CASE Skip(w) /\ row' # row
    <2>1. row' = [row EXCEPT ![hand[w]] = Marked(row[hand[w]], "SKIPPED", row[hand[w]].due)]
      BY <1>2 DEF Skip
    <2>2. row[hand[w]].status = "PENDING" /\ phase[w] = "skipping"
      BY <1>2 DEF Skip
    <2>3. /\ row' \in [Deliveries -> Row]
          /\ \A d \in Deliveries : row'[d].attempts = row[d].attempts
          /\ \A d \in Deliveries \ {hand[w]} : row'[d] = row[d]
          /\ row'[hand[w]].status = "SKIPPED" /\ row'[hand[w]].stale = FALSE
      BY <1>0, <2>1, MarkedInHand
    <2> QED BY <1>0, <2>2, <2>3
  <1>3. CASE Refuse(w) /\ row' # row
    <2>1. row' = [row EXCEPT ![hand[w]] = Marked(row[hand[w]], "FAILED", row[hand[w]].due)]
      BY <1>3 DEF Refuse
    <2>2. row[hand[w]].status = "PENDING" /\ phase[w] = "refusing"
      BY <1>3 DEF Refuse
    <2>3. /\ row' \in [Deliveries -> Row]
          /\ \A d \in Deliveries : row'[d].attempts = row[d].attempts
          /\ \A d \in Deliveries \ {hand[w]} : row'[d] = row[d]
          /\ row'[hand[w]].status = "FAILED" /\ row'[hand[w]].stale = FALSE
      BY <1>0, <2>1, MarkedInHand
    <2> QED BY <1>0, <2>2, <2>3
  <1>4. CASE RecordSent(w) /\ row' # row
    <2>1. row' = [row EXCEPT ![hand[w]] = Marked(row[hand[w]], "SENT", row[hand[w]].due)]
      BY <1>4 DEF RecordSent
    <2>2. row[hand[w]].status = "PROCESSING" /\ phase[w] = "accepted"
      BY <1>4 DEF RecordSent, OwnAttempt
    <2>3. /\ row' \in [Deliveries -> Row]
          /\ \A d \in Deliveries : row'[d].attempts = row[d].attempts
          /\ \A d \in Deliveries \ {hand[w]} : row'[d] = row[d]
          /\ row'[hand[w]].status = "SENT" /\ row'[hand[w]].stale = FALSE
      BY <1>0, <2>1, MarkedInHand
    <2> QED BY <1>0, <2>2, <2>3
  <1>5. CASE RecordRetry(w) /\ row' # row
    <2>1. row' = [row EXCEPT ![hand[w]] = Marked(row[hand[w]], "PENDING", FALSE)]
      BY <1>5 DEF RecordRetry
    <2>2. row[hand[w]].status = "PROCESSING" /\ phase[w] \in Holding
      BY <1>5 DEF RecordRetry, OwnAttempt
    <2>3. /\ row' \in [Deliveries -> Row]
          /\ \A d \in Deliveries : row'[d].attempts = row[d].attempts
          /\ \A d \in Deliveries \ {hand[w]} : row'[d] = row[d]
          /\ row'[hand[w]].status = "PENDING" /\ row'[hand[w]].stale = FALSE
      BY <1>0, <2>1, MarkedInHand
    <2> QED BY <1>0, <2>2, <2>3
  <1>6. CASE RecordFailed(w) /\ row' # row
    <2>1. row' = [row EXCEPT ![hand[w]] = Marked(row[hand[w]], "FAILED", row[hand[w]].due)]
      BY <1>6 DEF RecordFailed
    <2>2. row[hand[w]].status = "PROCESSING" /\ phase[w] \in Holding
      BY <1>6 DEF RecordFailed, OwnAttempt
    <2>3. /\ row' \in [Deliveries -> Row]
          /\ \A d \in Deliveries : row'[d].attempts = row[d].attempts
          /\ \A d \in Deliveries \ {hand[w]} : row'[d] = row[d]
          /\ row'[hand[w]].status = "FAILED" /\ row'[hand[w]].stale = FALSE
      BY <1>0, <2>1, MarkedInHand
    <2> QED BY <1>0, <2>2, <2>3
  <1> QED BY <1>1, <1>2, <1>3, <1>4, <1>5, <1>6

\* A claim: the row was queued, and one more attempt is spent on it.
LEMMA ClaimedRow ==
    ASSUME TypeOK, NEW w \in Workers, Claim(w)
    PROVE  /\ hand[w] \in Deliveries
           /\ row' \in [Deliveries -> Row]
           /\ row[hand[w]].status = "PENDING"
           /\ row'[hand[w]].status = "PROCESSING" /\ row'[hand[w]].stale = FALSE
           /\ row'[hand[w]].attempts = row[hand[w]].attempts + 1
           /\ \A d \in Deliveries \ {hand[w]} : row'[d] = row[d]
  <1>1. hand[w] \in Deliveries /\ row[hand[w]] \in Row
    BY DEF TypeOK, Claim, InHand
  <1>2. /\ row[hand[w]].attempts \in Nat /\ row[hand[w]].due \in BOOLEAN
        /\ limit[w] \in 1 .. MaxAttempts /\ row[hand[w]].attempts < limit[w]
    BY <1>1, QueueAssumption DEF Row, TypeOK, Claim, Claimable
  <1>3. row[hand[w]].attempts + 1 \in 0 .. MaxAttempts
    BY <1>2, QueueAssumption
  <1> DEFINE new == [status |-> "PROCESSING", attempts |-> AttemptsOfRow(w),
                     due |-> row[hand[w]].due, stale |-> FALSE]
  <1>4. /\ new \in Row /\ new.status = "PROCESSING" /\ new.stale = FALSE
        /\ new.attempts = row[hand[w]].attempts + 1
    BY <1>2, <1>3 DEF Row, Statuses, AttemptsOfRow
  <1>5. row' = [row EXCEPT ![hand[w]] = new]
    BY DEF Claim
  <1> HIDE DEF new
  <1>6. row' \in [Deliveries -> Row] /\ row'[hand[w]] = new
        /\ \A d \in Deliveries \ {hand[w]} : row'[d] = row[d]
    BY <1>1, <1>4, <1>5 DEF TypeOK
  <1>7. row[hand[w]].status = "PENDING"
    BY DEF Claim, Claimable
  <1> QED BY <1>1, <1>4, <1>6, <1>7

-----------------------------------------------------------------------------
(* Types                                                                    *)

LEMMA TypeInit == Init => TypeOK
  BY QueueAssumption DEF Init, TypeOK, Row, Statuses, Final, Phases, InHand, Holding

LEMMA TypePassing ==
    ASSUME TypeOK, NEW d \in Deliveries, Create(d) \/ Passing(d)
    PROVE  TypeOK'
  <1>1. row \in [Deliveries -> Row] /\ row[d] \in Row
    BY DEF TypeOK
  <1>2. CASE Create(d)
    <2>1. \A status \in {"PENDING", "SKIPPED"} : [row[d] EXCEPT !.status = status] \in Row
      BY <1>1 DEF Row, Statuses, Final
    <2>2. row' \in [Deliveries -> Row]
      BY <1>1, <1>2, <2>1 DEF Create
    <2> QED BY <1>2, <2>2 DEF Create, TypeOK, runVars
  <1>3. CASE ComeDue(d)
    <2>1. [row[d] EXCEPT !.due = TRUE] \in Row
      BY <1>1 DEF Row
    <2>2. row' \in [Deliveries -> Row]
      BY <1>1, <1>3, <2>1 DEF ComeDue
    <2> QED BY <1>3, <2>2 DEF ComeDue, TypeOK, runVars
  <1>4. CASE Overrun(d)
    <2>1. [row[d] EXCEPT !.stale = TRUE] \in Row
      BY <1>1 DEF Row
    <2>2. row' \in [Deliveries -> Row]
      BY <1>1, <1>4, <2>1 DEF Overrun
    <2> QED BY <1>4, <2>2 DEF Overrun, TypeOK, runVars
  <1> QED BY <1>2, <1>3, <1>4 DEF Passing

LEMMA BegunRows ==
    ASSUME TypeOK, NEW w \in Workers, Begin(w)
    PROVE  /\ row' \in [Deliveries -> Row]
           /\ \A d \in Deliveries : row'[d].attempts = row[d].attempts
           /\ \A d \in Deliveries :
                 \/ row'[d] = row[d]
                 \/ /\ \/ row[d].status = "PENDING"
                       \/ row[d].status = "PROCESSING" /\ row[d].stale
                    /\ row'[d].status \in {"PENDING", "FAILED"}
                    /\ row'[d].stale = FALSE
  <1>1. PICK max \in Limits : row' = [d \in Deliveries |-> Recovered(row[d], max)]
    BY DEF Begin
  <1>2. max \in 1 .. MaxAttempts
    BY QueueAssumption
  <1>3. \A d \in Deliveries : row[d] \in Row /\ row'[d] = Recovered(row[d], max)
    BY <1>1 DEF TypeOK
  <1> QED BY <1>1, <1>2, <1>3, RecoveredRow

LEMMA TypeStep ==
    ASSUME TypeOK, NEW w \in Workers, Step(w) \/ Crash(w)
    PROVE  TypeOK'
  <1> USE DEF Phases, InHand, Holding
  <1>1. CASE Begin(w)
    <2>1. limit' \in [Workers -> 1 .. MaxAttempts]
      BY <1>1, QueueAssumption DEF Begin, TypeOK
    <2> QED BY <1>1, <2>1, BegunRows DEF Begin, TypeOK
  <1>2. CASE Select(w)
    <2>1. todo' \in [Workers -> SUBSET Deliveries]
      BY <1>2 DEF Select, TypeOK, Ready
    <2> QED BY <1>2, <2>1 DEF Select, TypeOK
  <1>3. CASE Finish(w)
    BY <1>3 DEF Finish, TypeOK
  <1>4. CASE Read(w)
    <2>1. PICK d \in todo[w] :
             /\ todo' = [todo EXCEPT ![w] = @ \ {d}]
             /\ IF row[d].status # "PENDING" THEN UNCHANGED <<phase, hand, seen>>
                ELSE /\ hand' = [hand EXCEPT ![w] = d]
                     /\ seen' = [seen EXCEPT ![w] = row[d].attempts]
                     /\ \E next \in {"skipping", IF row[d].attempts >= limit[w]
                                                THEN "refusing" ELSE "claiming"} :
                           phase' = [phase EXCEPT ![w] = next]
      BY <1>4 DEF Read
    <2>2. d \in Deliveries /\ row[d].attempts \in 0 .. MaxAttempts /\ d # None
      BY QueueAssumption DEF TypeOK, Row
    <2>3. todo' \in [Workers -> SUBSET Deliveries]
      BY <2>1 DEF TypeOK
    <2>4. CASE row[d].status # "PENDING"
      BY <1>4, <2>1, <2>3, <2>4 DEF Read, TypeOK
    <2>5. CASE row[d].status = "PENDING"
      <3>1. PICK next \in {"skipping", "refusing", "claiming"} :
               phase' = [phase EXCEPT ![w] = next]
        BY <2>1, <2>5
      <3>2. phase' \in [Workers -> Phases] /\ seen' \in [Workers -> 0 .. MaxAttempts]
        BY <2>1, <2>2, <2>5, <3>1 DEF TypeOK
      <3>3. /\ hand' \in [Workers -> Deliveries \cup {None}]
            /\ \A v \in Workers : phase'[v] \in InHand => hand'[v] # None
        BY <2>1, <2>2, <2>5, <3>1 DEF TypeOK
      <3> QED BY <1>4, <2>3, <3>2, <3>3 DEF Read, TypeOK
    <2> QED BY <2>4, <2>5
  <1>5. CASE Skip(w) \/ Refuse(w) \/ RecordSent(w) \/ RecordRetry(w) \/ RecordFailed(w)
    <2>1. row' \in [Deliveries -> Row] /\ mails' = mails /\ crashes' = crashes
          /\ overran' = overran /\ PutDown(w)
      BY <1>5, PutDownRow
    <2>2. seen' \in [Workers -> 0 .. MaxAttempts]
      BY <2>1, QueueAssumption DEF PutDown, TypeOK
    <2> QED BY <2>1, <2>2 DEF PutDown, TypeOK
  <1>6. CASE Claim(w)
    BY <1>6, ClaimedRow DEF Claim, TypeOK
  <1>7. CASE LoseClaim(w)
    <2>1. seen' \in [Workers -> 0 .. MaxAttempts]
      BY <1>7, QueueAssumption DEF LoseClaim, PutDown, TypeOK
    <2> QED BY <1>7, <2>1 DEF LoseClaim, PutDown, TypeOK
  <1>8. CASE Refresh(w)
    <2>1. row[hand[w]].attempts \in 0 .. MaxAttempts
      BY <1>8 DEF Refresh, TypeOK, Row
    <2> QED BY <1>8, <2>1 DEF Refresh, TypeOK
  <1>9. CASE SendReturns(w)
    <2>1. hand[w] \in Deliveries /\ mails[hand[w]] \in Nat
      BY <1>9 DEF SendReturns, TypeOK
    <2>2. mails' \in [Deliveries -> Nat]
      BY <1>9, <2>1 DEF SendReturns, TypeOK
    <2> QED BY <1>9, <2>1, <2>2 DEF SendReturns, TypeOK, AfterReturn
  <1>10. CASE SendRaises(w)
    <2>1. hand[w] \in Deliveries /\ mails[hand[w]] \in Nat
      BY <1>10 DEF SendRaises, TypeOK
    <2>2. mails' \in [Deliveries -> Nat]
      BY <1>10, <2>1 DEF SendRaises, TypeOK
    <2> QED BY <1>10, <2>1, <2>2 DEF SendRaises, TypeOK
  <1>11. CASE Crash(w)
    <2>1. crashes' \in 0 .. MaxCrashes /\ seen' \in [Workers -> 0 .. MaxAttempts]
      BY <1>11, QueueAssumption DEF Crash, TypeOK
    <2> QED BY <1>11, <2>1 DEF Crash, TypeOK
  <1> QED BY <1>1, <1>2, <1>3, <1>4, <1>5, <1>6, <1>7, <1>8, <1>9, <1>10, <1>11 DEF Step

\* Every reachable state is well typed: no row is claimed beyond the largest
\* limit of attempts, whatever the limits of the runs that overlap.
THEOREM TypeCorrect == Spec => []TypeOK
  <1>1. ASSUME TypeOK, [Next]_vars
        PROVE  TypeOK'
    <2>1. CASE UNCHANGED vars
      BY <1>1, <2>1 DEF TypeOK, vars, runVars
    <2> QED BY <1>1, <2>1, TypePassing, TypeStep DEF Next
  <1> QED BY <1>1, TypeInit, PTL DEF Spec

-----------------------------------------------------------------------------
(* Mails and attempts                                                       *)

\* Runs that claimed the delivery and may still have a mail to send for it.
\* Their attempts are spent, their mails not out: the bound on mails is
\* inductive only together with them.
AboutToSend(d) == {w \in Workers : hand[w] = d /\ phase[w] \in {"claimed", "sending"}}

Budget == \A d \in Deliveries : mails[d] + Cardinality(AboutToSend(d)) <= row[d].attempts

LEMMA AboutToSendIsFinite ==
    ASSUME NEW d
    PROVE  /\ IsFiniteSet(AboutToSend(d)) /\ Cardinality(AboutToSend(d)) \in Nat
           /\ IsFiniteSet(AboutToSend(d)') /\ Cardinality(AboutToSend(d)') \in Nat
  <1>1. AboutToSend(d) \in SUBSET Workers /\ AboutToSend(d)' \in SUBSET Workers
    BY DEF AboutToSend
  <1>2. IsFiniteSet(AboutToSend(d)) /\ IsFiniteSet(AboutToSend(d)')
    BY <1>1, FS_Subset, QueueAssumption
  <1> QED BY <1>2, FS_CardinalityType

\* A step that lets nobody new near sending, sends nothing and takes no
\* attempt back keeps the budget.
LEMMA QuietStep ==
    ASSUME TypeOK, TypeOK', Budget, mails' = mails,
           \A d \in Deliveries : /\ AboutToSend(d)' \subseteq AboutToSend(d)
                                 /\ row'[d].attempts = row[d].attempts
    PROVE  Budget'
  <1> SUFFICES ASSUME NEW d \in Deliveries
               PROVE  mails'[d] + Cardinality(AboutToSend(d)') <= row'[d].attempts
    BY DEF Budget
  <1>1. Cardinality(AboutToSend(d)') <= Cardinality(AboutToSend(d))
    <2>1. AboutToSend(d)' \in SUBSET AboutToSend(d)
      OBVIOUS
    <2> QED BY <2>1, AboutToSendIsFinite, FS_Subset
  <1>2. mails[d] + Cardinality(AboutToSend(d)) <= row[d].attempts
    BY DEF Budget
  <1>3. mails[d] \in Nat /\ row[d].attempts \in Nat
    BY QueueAssumption DEF TypeOK, Row
  <1> QED BY <1>1, <1>2, <1>3, AboutToSendIsFinite

\* What the steps of a run other than the claim and the send do.
LEMMA QuietSteps ==
    ASSUME TypeOK, NEW w \in Workers,
           \/ Begin(w) \/ Select(w) \/ Finish(w) \/ Read(w) \/ LoseClaim(w) \/ Refresh(w)
           \/ Skip(w) \/ Refuse(w) \/ RecordSent(w) \/ RecordRetry(w) \/ RecordFailed(w)
           \/ Crash(w)
    PROVE  /\ mails' = mails
           /\ \A d \in Deliveries : /\ AboutToSend(d)' \subseteq AboutToSend(d)
                                    /\ row'[d].attempts = row[d].attempts
  <1> USE DEF AboutToSend
  <1>0. phase \in [Workers -> Phases] /\ hand \in [Workers -> Deliveries \cup {None}]
    BY DEF TypeOK
  <1>1. CASE Begin(w)
    BY <1>0, <1>1, BegunRows DEF Begin
  <1>2. CASE Select(w) \/ Finish(w)
    BY <1>0, <1>2 DEF Select, Finish
  <1>3. CASE Read(w)
    <2>1. PICK d \in todo[w] :
             IF row[d].status # "PENDING" THEN UNCHANGED <<phase, hand, seen>>
             ELSE /\ hand' = [hand EXCEPT ![w] = d]
                  /\ \E next \in {"skipping", IF row[d].attempts >= limit[w]
                                             THEN "refusing" ELSE "claiming"} :
                        phase' = [phase EXCEPT ![w] = next]
      BY <1>3 DEF Read
    <2>2. CASE row[d].status # "PENDING"
      BY <1>3, <2>1, <2>2 DEF Read
    <2>3. CASE row[d].status = "PENDING"
      <3>1. PICK next \in {"skipping", "refusing", "claiming"} :
               phase' = [phase EXCEPT ![w] = next]
        BY <2>1, <2>3
      <3> QED BY <1>0, <1>3, <2>1, <2>3, <3>1 DEF Read
    <2> QED BY <2>2, <2>3
  <1>4. CASE LoseClaim(w)
    BY <1>0, <1>4 DEF LoseClaim, PutDown
  <1>5. CASE Refresh(w)
    BY <1>0, <1>5 DEF Refresh
  <1>6. CASE Skip(w) \/ Refuse(w) \/ RecordSent(w) \/ RecordRetry(w) \/ RecordFailed(w)
    <2>1. /\ PutDown(w) /\ mails' = mails
          /\ \A d \in Deliveries : row'[d].attempts = row[d].attempts
      BY <1>6, PutDownRow
    <2> QED BY <1>0, <2>1 DEF PutDown
  <1>7. CASE Crash(w)
    BY <1>0, <1>7 DEF Crash
  <1> QED BY <1>1, <1>2, <1>3, <1>4, <1>5, <1>6, <1>7

LEMMA QuietPassing ==
    ASSUME TypeOK, NEW d \in Deliveries, Create(d) \/ Passing(d)
    PROVE  /\ mails' = mails /\ phase' = phase /\ hand' = hand /\ seen' = seen
           /\ \A e \in Deliveries : row'[e].attempts = row[e].attempts
           /\ \A e \in Deliveries : AboutToSend(e)' = AboutToSend(e)
  <1>1. row \in [Deliveries -> Row]
    BY DEF TypeOK
  <1>2. \E f \in {"status", "due", "stale"} : \E v :
           row' = [row EXCEPT ![d] = [row[d] EXCEPT ![f] = v]]
    BY <1>1 DEF Create, Passing, ComeDue, Overrun
  <1>3. \A e \in Deliveries : row'[e].attempts = row[e].attempts
    BY <1>1, <1>2 DEF Row
  <1>4. mails' = mails /\ phase' = phase /\ hand' = hand /\ seen' = seen
    BY DEF Create, Passing, ComeDue, Overrun, runVars
  <1> QED BY <1>3, <1>4 DEF AboutToSend

LEMMA BudgetOfClaim ==
    ASSUME TypeOK, TypeOK', Budget, NEW w \in Workers, Claim(w)
    PROVE  Budget'
  <1> SUFFICES ASSUME NEW d \in Deliveries
               PROVE  mails'[d] + Cardinality(AboutToSend(d)') <= row'[d].attempts
    BY DEF Budget
  <1>1. /\ mails[d] + Cardinality(AboutToSend(d)) <= row[d].attempts
        /\ mails' = mails /\ mails[d] \in Nat /\ row[d].attempts \in Nat
        /\ hand' = hand /\ hand[w] \in Deliveries
        /\ phase' = [phase EXCEPT ![w] = "claimed"] /\ phase[w] = "claiming"
        /\ phase \in [Workers -> Phases]
    BY QueueAssumption, ClaimedRow DEF Budget, Claim, TypeOK, Row
  <1>2. CASE d = hand[w]
    <2>1. AboutToSend(d)' = AboutToSend(d) \cup {w} /\ w \notin AboutToSend(d)
      BY <1>1, <1>2 DEF AboutToSend
    <2>2. Cardinality(AboutToSend(d)') = Cardinality(AboutToSend(d)) + 1
      BY <2>1, AboutToSendIsFinite, FS_AddElement
    <2>3. row'[d].attempts = row[d].attempts + 1
      BY <1>2, ClaimedRow
    <2> QED BY <1>1, <2>2, <2>3, AboutToSendIsFinite
  <1>3. CASE d # hand[w]
    <2>1. AboutToSend(d)' = AboutToSend(d)
      BY <1>1, <1>3 DEF AboutToSend
    <2>2. row'[d] = row[d]
      BY <1>3, ClaimedRow
    <2> QED BY <1>1, <2>1, <2>2
  <1> QED BY <1>2, <1>3

\* What a send does: it is over, and one mail went out or none.
LEMMA SendEffect ==
    ASSUME TypeOK, NEW w \in Workers, SendReturns(w) \/ SendRaises(w)
    PROVE  /\ hand[w] \in Deliveries /\ phase[w] = "sending"
           /\ hand' = hand /\ row' = row /\ seen' = seen /\ overran' = overran
           /\ phase' \in [Workers -> Phases]
           /\ phase'[w] \in {"accepted", "retryable", "permanent"}
           /\ \A v \in Workers \ {w} : phase'[v] = phase[v]
           /\ \A d \in Deliveries \ {hand[w]} : mails'[d] = mails[d]
           /\ mails'[hand[w]] \in {mails[hand[w]], mails[hand[w]] + 1}
           /\ phase'[w] = "accepted" => mails'[hand[w]] = mails[hand[w]] + 1
  <1>1. /\ hand[w] \in Deliveries /\ phase[w] = "sending" /\ mails[hand[w]] \in Nat
        /\ hand' = hand /\ row' = row /\ seen' = seen /\ overran' = overran
        /\ phase \in [Workers -> Phases] /\ mails \in [Deliveries -> Nat]
    BY DEF TypeOK, SendReturns, SendRaises, InHand, Holding
  <1>2. CASE SendReturns(w)
    BY <1>1, <1>2 DEF SendReturns, AfterReturn, Phases, InHand, Holding
  <1>3. CASE SendRaises(w)
    BY <1>1, <1>3 DEF SendRaises, Phases, InHand, Holding
  <1> QED BY <1>1, <1>2, <1>3

LEMMA BudgetOfSend ==
    ASSUME TypeOK, TypeOK', Budget, NEW w \in Workers, SendReturns(w) \/ SendRaises(w)
    PROVE  Budget'
  <1> SUFFICES ASSUME NEW d \in Deliveries
               PROVE  mails'[d] + Cardinality(AboutToSend(d)') <= row'[d].attempts
    BY DEF Budget
  <1>1. /\ mails[d] + Cardinality(AboutToSend(d)) <= row[d].attempts
        /\ mails[d] \in Nat /\ row[d].attempts \in Nat
    BY QueueAssumption DEF Budget, TypeOK, Row
  <1>2. CASE d = hand[w]
    <2>1. AboutToSend(d)' = AboutToSend(d) \ {w} /\ w \in AboutToSend(d)
      BY <1>2, SendEffect DEF AboutToSend
    <2>2. Cardinality(AboutToSend(d)') = Cardinality(AboutToSend(d)) - 1
      BY <2>1, AboutToSendIsFinite, FS_RemoveElement
    <2>3. row'[d] = row[d] /\ mails'[d] \in {mails[d], mails[d] + 1}
      BY <1>2, SendEffect
    <2> QED BY <1>1, <2>2, <2>3, AboutToSendIsFinite
  <1>3. CASE d # hand[w]
    <2>1. AboutToSend(d)' = AboutToSend(d)
      BY <1>3, SendEffect DEF AboutToSend
    <2>2. row'[d] = row[d] /\ mails'[d] = mails[d]
      BY <1>3, SendEffect
    <2> QED BY <1>1, <2>1, <2>2
  <1> QED BY <1>2, <1>3

LEMMA BudgetInit == Init => Budget
  <1> SUFFICES ASSUME Init, NEW d \in Deliveries
               PROVE  mails[d] + Cardinality(AboutToSend(d)) <= row[d].attempts
    BY DEF Budget
  <1>1. AboutToSend(d) = {}
    BY DEF Init, AboutToSend
  <1> QED BY <1>1, FS_EmptySet DEF Init

LEMMA BudgetNext ==
    ASSUME TypeOK, TypeOK', Budget, [Next]_vars
    PROVE  Budget'
  <1>1. CASE UNCHANGED vars
    BY <1>1, QuietStep DEF vars, runVars, AboutToSend
  <1>2. CASE \E d \in Deliveries : Create(d) \/ Passing(d)
    BY <1>2, QuietPassing, QuietStep
  <1>3. ASSUME NEW w \in Workers, Step(w) \/ Crash(w)
        PROVE  Budget'
    BY <1>3, QuietSteps, QuietStep, BudgetOfClaim, BudgetOfSend DEF Step
  <1> QED BY <1>1, <1>2, <1>3 DEF Next

\* However runs overlap, are killed or outlive the timeout, no more mails go
\* out for a delivery than attempts were spent on it.
THEOREM MailsAreBounded == Spec => []MailsWithinAttempts
  <1>1. TypeOK /\ Budget => MailsWithinAttempts
    <2> SUFFICES ASSUME TypeOK, Budget, NEW d \in Deliveries
                 PROVE  mails[d] <= row[d].attempts
      BY DEF MailsWithinAttempts
    <2>1. mails[d] \in Nat /\ row[d].attempts \in Nat
      BY QueueAssumption DEF TypeOK, Row
    <2> QED BY <2>1, AboutToSendIsFinite DEF Budget
  <1> QED BY <1>1, TypeCorrect, BudgetInit, BudgetNext, PTL DEF Spec

-----------------------------------------------------------------------------
(* One sender                                                               *)

\* OneSender strengthened: the row of a delivery somebody is at has not gone
\* stale, so that recovery cannot hand it to another run.
Custody ==
    \A d \in Deliveries \ overran :
        /\ \A w \in Senders(d) : /\ row[d].status = "PROCESSING" /\ ~row[d].stale
                                 /\ phase[w] # "claimed" => seen[w] = row[d].attempts
        /\ \A v, w \in Senders(d) : v = w

LEMMA CustodyOfPassing ==
    ASSUME TypeOK, Custody, NEW e \in Deliveries, Create(e) \/ Passing(e)
    PROVE  Custody'
  <1> SUFFICES ASSUME NEW d \in Deliveries \ overran'
               PROVE  /\ \A w \in Senders(d)' :
                            /\ row'[d].status = "PROCESSING" /\ ~row'[d].stale
                            /\ phase'[w] # "claimed" => seen'[w] = row'[d].attempts
                      /\ \A v, w \in Senders(d)' : v = w
    BY DEF Custody
  <1>1. phase' = phase /\ hand' = hand /\ seen' = seen
    BY QuietPassing
  <1>2. Senders(d)' = Senders(d)
    BY <1>1 DEF Senders
  <1>3. d \notin overran
    BY DEF Create, Passing, ComeDue, Overrun
  <1>4. Senders(d) # {} => row'[d] = row[d]
    <2>1. Senders(d) # {} => row[d].status = "PROCESSING"
      BY <1>3 DEF Custody
    <2>2. row \in [Deliveries -> Row]
      BY DEF TypeOK
    <2> QED BY <2>1, <2>2 DEF Create, Passing, ComeDue, Overrun
  <1> QED BY <1>1, <1>2, <1>3, <1>4 DEF Custody

LEMMA CustodyOfStep ==
    ASSUME TypeOK, TypeOK', Custody, NEW w \in Workers, Step(w) \/ Crash(w)
    PROVE  Custody'
  <1> SUFFICES ASSUME NEW d \in Deliveries, d \notin overran
               PROVE  /\ \A v \in Senders(d)' :
                            /\ row'[d].status = "PROCESSING" /\ ~row'[d].stale
                            /\ phase'[v] # "claimed" => seen'[v] = row'[d].attempts
                      /\ \A u, v \in Senders(d)' : u = v
    <2>1. overran' = overran
      BY PutDownRow DEF Step, Begin, Select, Finish, Read, Claim, LoseClaim, Refresh,
                        SendReturns, SendRaises, Crash
    <2> QED BY <2>1 DEF Custody
  <1> USE DEF Senders, Holding
  <1>0. /\ phase \in [Workers -> Phases] /\ hand \in [Workers -> Deliveries \cup {None}]
        /\ seen \in [Workers -> 0 .. MaxAttempts]
        /\ \A v \in Senders(d) : /\ row[d].status = "PROCESSING" /\ ~row[d].stale
                                 /\ phase[v] # "claimed" => seen[v] = row[d].attempts
        /\ \A u, v \in Senders(d) : u = v
    BY DEF TypeOK, Custody
  <1>1. CASE Begin(w)
    <2>1. Senders(d)' = Senders(d) /\ seen' = seen
      BY <1>0, <1>1 DEF Begin
    <2>2. Senders(d) # {} => row'[d] = row[d]
      BY <1>0, <1>1, BegunRows
    <2>3. \A v \in Senders(d) : phase'[v] = phase[v]
      BY <1>0, <1>1 DEF Begin
    <2> QED BY <1>0, <2>1, <2>2, <2>3
  <1>2. CASE Select(w) \/ Finish(w)
    BY <1>0, <1>2 DEF Select, Finish
  <1>3. CASE Read(w)
    <2>1. /\ Senders(d)' = Senders(d) /\ row' = row
          /\ \A v \in Workers \ {w} : phase'[v] = phase[v] /\ seen'[v] = seen[v]
      <3>1. PICK e \in todo[w] :
               IF row[e].status # "PENDING" THEN UNCHANGED <<phase, hand, seen>>
               ELSE /\ hand' = [hand EXCEPT ![w] = e]
                    /\ seen' = [seen EXCEPT ![w] = row[e].attempts]
                    /\ \E next \in {"skipping", IF row[e].attempts >= limit[w]
                                               THEN "refusing" ELSE "claiming"} :
                          phase' = [phase EXCEPT ![w] = next]
        BY <1>3 DEF Read
      <3>2. CASE row[e].status # "PENDING"
        BY <1>3, <3>1, <3>2 DEF Read
      <3>3. CASE row[e].status = "PENDING"
        <4>1. PICK next \in {"skipping", "refusing", "claiming"} :
                 phase' = [phase EXCEPT ![w] = next]
          BY <3>1, <3>3
        <4> QED BY <1>0, <1>3, <3>1, <3>3, <4>1 DEF Read
      <3> QED BY <3>2, <3>3
    <2>2. w \notin Senders(d)
      BY <1>3 DEF Read
    <2> QED BY <1>0, <2>1, <2>2
  <1>4. CASE LoseClaim(w)
    BY <1>0, <1>4 DEF LoseClaim, PutDown
  <1>5. CASE Refresh(w)
    BY <1>0, <1>5 DEF Refresh
  <1>6. CASE SendReturns(w) \/ SendRaises(w)
    BY <1>0, <1>6, SendEffect
  <1>7. CASE Skip(w) \/ Refuse(w) \/ RecordSent(w) \/ RecordRetry(w) \/ RecordFailed(w)
    <2>1. /\ hand[w] \in Deliveries /\ SettlesOrLate(w)
          /\ phase' = [phase EXCEPT ![w] = "batch"]
          /\ hand' = [hand EXCEPT ![w] = None]
          /\ seen' = [seen EXCEPT ![w] = 0]
      BY <1>7, PutDownRow DEF PutDown
    <2>2. Senders(d)' = Senders(d) \ {w}
      BY <1>0, <2>1
    <2>3. Senders(d)' # {} => row'[d] = row[d]
      <3>1. CASE row' = row
        BY <3>1
      <3>2. CASE d # hand[w]
        BY <2>1, <3>2 DEF SettlesOrLate
      <3>3. CASE d = hand[w] /\ row[d].status = "PENDING"
        BY <1>0, <2>2, <3>3
      <3>4. CASE d = hand[w] /\ phase[w] \in Holding
        BY <1>0, <2>2, <3>4
      <3> QED BY <2>1, <3>1, <3>2, <3>3, <3>4 DEF SettlesOrLate
    <2>4. \A v \in Senders(d)' : phase'[v] = phase[v] /\ seen'[v] = seen[v]
      BY <1>0, <2>1, <2>2
    <2> QED BY <1>0, <2>2, <2>3, <2>4
  <1>8. CASE Claim(w)
    <2>1. /\ hand' = hand /\ seen' = seen /\ phase' = [phase EXCEPT ![w] = "claimed"]
          /\ phase[w] = "claiming"
      BY <1>8 DEF Claim
    <2>2. CASE d = hand[w]
      <3>1. Senders(d) = {}
        BY <1>0, <1>8, <2>2, ClaimedRow
      <3>2. Senders(d)' = {w}
        BY <1>0, <2>1, <2>2, <3>1
      <3> QED BY <1>0, <1>8, <2>1, <2>2, <3>2, ClaimedRow
    <2>3. CASE d # hand[w]
      <3>1. Senders(d)' = Senders(d) /\ w \notin Senders(d)
        BY <1>0, <2>1, <2>3
      <3>2. row'[d] = row[d]
        BY <1>8, <2>3, ClaimedRow
      <3> QED BY <1>0, <2>1, <3>1, <3>2
    <2> QED BY <2>2, <2>3
  <1>9. CASE Crash(w)
    BY <1>0, <1>9 DEF Crash
  <1> QED BY <1>1, <1>2, <1>3, <1>4, <1>5, <1>6, <1>7, <1>8, <1>9 DEF Step

LEMMA CustodyInit == Init => Custody
  BY DEF Init, Custody, Senders, Holding

LEMMA CustodyNext ==
    ASSUME TypeOK, TypeOK', Custody, [Next]_vars
    PROVE  Custody'
  <1>1. CASE UNCHANGED vars
    BY <1>1 DEF vars, runVars, Custody, Senders
  <1> QED BY <1>1, CustodyOfPassing, CustodyOfStep DEF Next

\* Unless a run outlived the timeout, a delivery is in the hands of one run at
\* most, however many runs overlap and are killed.
THEOREM OneRunSends == Spec => []OneSender
  <1>1. Custody => OneSender
    <2> SUFFICES ASSUME Custody, NEW d \in Deliveries \ overran
                 PROVE  /\ Cardinality(Senders(d)) <= 1
                        /\ \A w \in Senders(d) :
                              /\ row[d].status = "PROCESSING"
                              /\ phase[w] # "claimed" => seen[w] = row[d].attempts
      BY DEF OneSender
    <2>1. CASE Senders(d) = {}
      BY <2>1, FS_EmptySet
    <2>2. CASE Senders(d) # {}
      <3>1. PICK w \in Senders(d) : Senders(d) = {w}
        BY <2>2 DEF Custody
      <3>2. Cardinality(Senders(d)) = 1
        BY <3>1, FS_Singleton
      <3> QED BY <3>2 DEF Custody
    <2> QED BY <2>1, <2>2
  <1> QED BY <1>1, TypeCorrect, CustodyInit, CustodyNext, PTL DEF Spec

-----------------------------------------------------------------------------
(* What is settled                                                          *)

LEMMA SameRows ==
    ASSUME NEW w \in Workers,
           \/ Select(w) \/ Finish(w) \/ Read(w) \/ LoseClaim(w) \/ Refresh(w)
           \/ SendReturns(w) \/ SendRaises(w) \/ Crash(w)
    PROVE  row' = row /\ overran' = overran
  BY DEF Select, Finish, Read, LoseClaim, Refresh, SendReturns, SendRaises, Crash

\* The only changes of status.
StatusStep(d) ==
    \/ row'[d].status = row[d].status
    \/ row[d].status = "absent" /\ row'[d].status \in {"PENDING", "SKIPPED"}
    \/ row[d].status = "PENDING" /\ row'[d].status \in {"PROCESSING", "FAILED", "SKIPPED"}
    \/ row[d].status = "PROCESSING" /\ row'[d].status \in {"PENDING", "FAILED"}
    \/ /\ row[d].status = "PROCESSING" /\ row'[d].status = "SENT"
       /\ \E w \in Workers : hand[w] = d /\ phase[w] = "accepted"

LEMMA StatusNext ==
    ASSUME TypeOK, [Next]_vars, NEW d \in Deliveries
    PROVE  StatusStep(d)
  <1> USE DEF StatusStep
  <1>0. row \in [Deliveries -> Row]
    BY DEF TypeOK
  <1>1. CASE UNCHANGED vars
    BY <1>1 DEF vars
  <1>2. ASSUME NEW e \in Deliveries, Create(e) \/ Passing(e)
        PROVE  StatusStep(d)
    BY <1>0, <1>2 DEF Create, Passing, ComeDue, Overrun, Row
  <1>3. ASSUME NEW w \in Workers, Step(w) \/ Crash(w)
        PROVE  StatusStep(d)
    <2>1. CASE row' = row
      BY <2>1
    <2>2. CASE Begin(w)
      BY <2>2, BegunRows
    <2>3. CASE Claim(w)
      BY <2>3, ClaimedRow
    <2>4. CASE Skip(w) \/ Refuse(w)
      <3>1. phase[w] \in {"skipping", "refusing"}
        BY <2>4 DEF Skip, Refuse
      <3>2. \/ row'[d] = row[d]
            \/ row[d].status = "PENDING" /\ row'[d].status \in {"SKIPPED", "FAILED"}
        BY <1>0, <2>4 DEF Skip, Refuse, UpdateIf, Marked
      <3> QED BY <3>2
    <2>5. CASE RecordSent(w) \/ RecordRetry(w) \/ RecordFailed(w)
      <3>1. /\ hand[w] \in Deliveries /\ SettlesOrLate(w)
            /\ phase[w] \in {"accepted", "retryable", "permanent"}
        BY <2>5, PutDownRow DEF RecordSent, RecordRetry, RecordFailed
      <3>2. row' # row => row'[hand[w]].status \in {"SENT", "PENDING", "FAILED"}
        BY <1>0, <2>5, <3>1 DEF RecordSent, RecordRetry, RecordFailed, UpdateIf, Marked
      <3> QED BY <3>1, <3>2 DEF SettlesOrLate
    <2> QED BY <1>3, <2>1, <2>2, <2>3, <2>4, <2>5, SameRows DEF Step
  <1> QED BY <1>1, <1>2, <1>3 DEF Next

\* A settled delivery stays as it was settled, even when the run that records
\* an outcome comes back after others have settled it.
THEOREM SettlementIsFinal == Spec => SettledIsFinal
  <1>1. TypeOK /\ [Next]_vars
          => [\A d \in Deliveries :
                  row[d].status \in Final => row'[d].status = row[d].status]_vars
    BY StatusNext DEF StatusStep, Final
  <1> QED BY <1>1, TypeCorrect, PTL DEF Spec, SettledIsFinal

\* A run that is to record success has sent a mail for what it has in hand.
Posted ==
    /\ SentWasMailed
    /\ \A w \in Workers : phase[w] = "accepted" => mails[hand[w]] > 0

LEMMA PostedNext ==
    ASSUME TypeOK, TypeOK', Posted, [Next]_vars
    PROVE  Posted'
  <1>0. /\ phase \in [Workers -> Phases] /\ hand \in [Workers -> Deliveries \cup {None}]
        /\ mails \in [Deliveries -> Nat] /\ mails' \in [Deliveries -> Nat]
        /\ \A w \in Workers : phase[w] = "accepted" => hand[w] \in Deliveries
    BY DEF TypeOK, InHand, Holding
  <1>1. \A d \in Deliveries : mails'[d] >= mails[d]
    <2>1. CASE mails' = mails
      BY <1>0, <2>1
    <2>2. ASSUME NEW w \in Workers, SendReturns(w) \/ SendRaises(w)
          PROVE  \A d \in Deliveries : mails'[d] >= mails[d]
      BY <1>0, <2>2, SendEffect
    <2>3. ASSUME NEW w \in Workers, Step(w) \/ Crash(w)
          PROVE  \A d \in Deliveries : mails'[d] >= mails[d]
      <3>1. CASE Claim(w)
        BY <1>0, <3>1 DEF Claim
      <3> QED BY <1>0, <2>2, <2>3, <3>1, QuietSteps DEF Step
    <2> QED BY <2>1, <2>3, QuietPassing DEF Next, vars
  <1>2. SentWasMailed'
    <2> SUFFICES ASSUME NEW d \in Deliveries, row'[d].status = "SENT"
                 PROVE  mails'[d] > 0
      BY DEF SentWasMailed
    <2>1. mails[d] > 0
      BY StatusNext DEF StatusStep, Posted, SentWasMailed
    <2> QED BY <1>0, <1>1, <2>1
  <1>3. ASSUME NEW v \in Workers, phase'[v] = "accepted"
        PROVE  mails'[hand'[v]] > 0
    <2>1. CASE phase[v] = "accepted" /\ hand'[v] = hand[v]
      BY <1>0, <1>1, <2>1 DEF Posted
    <2>2. CASE phase' = phase /\ hand' = hand
      BY <1>3, <2>1, <2>2
    <2>3. ASSUME NEW w \in Workers, SendReturns(w) \/ SendRaises(w)
          PROVE  mails'[hand'[v]] > 0
      <3>1. CASE v = w
        <4>1. /\ mails'[hand[w]] = mails[hand[w]] + 1 /\ hand'[v] = hand[w]
              /\ hand[w] \in Deliveries
          BY <1>3, <2>3, <3>1, SendEffect
        <4> QED BY <1>0, <4>1
      <3>2. CASE v # w
        BY <1>3, <2>1, <2>3, <3>2, SendEffect
      <3> QED BY <3>1, <3>2
    <2>4. ASSUME NEW w \in Workers, Step(w) \/ Crash(w), ~(SendReturns(w) \/ SendRaises(w))
          PROVE  phase[v] = "accepted" /\ hand'[v] = hand[v]
      <3>1. CASE Skip(w) \/ Refuse(w) \/ RecordSent(w) \/ RecordRetry(w) \/ RecordFailed(w)
        <4>1. PutDown(w)
          BY <3>1, PutDownRow
        <4> QED BY <1>0, <1>3, <4>1 DEF PutDown
      <3>2. CASE Read(w)
        <4>1. PICK d \in todo[w] :
                 IF row[d].status # "PENDING" THEN UNCHANGED <<phase, hand, seen>>
                 ELSE /\ hand' = [hand EXCEPT ![w] = d]
                      /\ \E next \in {"skipping", IF row[d].attempts >= limit[w]
                                                 THEN "refusing" ELSE "claiming"} :
                            phase' = [phase EXCEPT ![w] = next]
          BY <3>2 DEF Read
        <4>2. CASE row[d].status # "PENDING"
          BY <1>3, <4>1, <4>2
        <4>3. CASE row[d].status = "PENDING"
          <5>1. PICK next \in {"skipping", "refusing", "claiming"} :
                   phase' = [phase EXCEPT ![w] = next]
            BY <4>1, <4>3
          <5> QED BY <1>0, <1>3, <4>1, <4>3, <5>1
        <4> QED BY <4>2, <4>3
      <3>3. CASE Begin(w) \/ Select(w) \/ Finish(w) \/ Claim(w) \/ Refresh(w)
        BY <1>0, <1>3, <3>3 DEF Begin, Select, Finish, Claim, Refresh
      <3>4. CASE LoseClaim(w)
        BY <1>0, <1>3, <3>4 DEF LoseClaim, PutDown
      <3>5. CASE Crash(w)
        BY <1>0, <1>3, <3>5 DEF Crash
      <3> QED BY <2>4, <3>1, <3>2, <3>3, <3>4, <3>5 DEF Step
    <2> QED BY <2>1, <2>2, <2>3, <2>4, QuietPassing DEF Next, vars, runVars
  <1> QED BY <1>2, <1>3 DEF Posted

LEMMA PostedInit == Init => Posted
  BY DEF Init, Posted, SentWasMailed

\* A delivery recorded as sent has been.
THEOREM SentWereMailed == Spec => []SentWasMailed
  <1>1. Posted => SentWasMailed
    BY DEF Posted
  <1> QED BY <1>1, TypeCorrect, PostedInit, PostedNext, PTL DEF Spec

-----------------------------------------------------------------------------
(* The queue keeps its promise                                              *)

\* What is in the hands of a run has been asked for.
Asked == \A w \in Workers : phase[w] \in InHand => row[hand[w]].status # "absent"

LEMMA AskedNext ==
    ASSUME TypeOK, TypeOK', Asked, [Next]_vars
    PROVE  Asked'
  <1> SUFFICES ASSUME NEW v \in Workers, phase'[v] \in InHand
               PROVE  row'[hand'[v]].status # "absent"
    BY DEF Asked
  <1>0. /\ phase \in [Workers -> Phases] /\ hand \in [Workers -> Deliveries \cup {None}]
        /\ \A w \in Workers : phase[w] \in InHand => hand[w] \in Deliveries
        /\ hand'[v] \in Deliveries
    BY DEF TypeOK
  <1>1. \A d \in Deliveries : row[d].status # "absent" => row'[d].status # "absent"
    BY StatusNext DEF StatusStep
  <1>2. CASE phase[v] \in InHand /\ hand'[v] = hand[v]
    BY <1>0, <1>1, <1>2 DEF Asked
  <1>3. CASE phase' = phase /\ hand' = hand
    BY <1>2, <1>3
  <1>4. ASSUME NEW w \in Workers, Read(w)
        PROVE  row'[hand'[v]].status # "absent"
    <2>1. PICK d \in todo[w] :
             IF row[d].status # "PENDING" THEN UNCHANGED <<phase, hand, seen>>
             ELSE /\ hand' = [hand EXCEPT ![w] = d]
                  /\ \E next \in {"skipping", IF row[d].attempts >= limit[w]
                                             THEN "refusing" ELSE "claiming"} :
                        phase' = [phase EXCEPT ![w] = next]
      BY <1>4 DEF Read
    <2>2. CASE row[d].status # "PENDING"
      BY <1>3, <2>1, <2>2
    <2>3. CASE row[d].status = "PENDING"
      <3>1. CASE v = w
        BY <1>0, <1>4, <2>1, <2>3, <3>1 DEF Read
      <3>2. CASE v # w
        BY <1>0, <1>2, <2>1, <2>3, <3>2
      <3> QED BY <3>1, <3>2
    <2> QED BY <2>2, <2>3
  <1>5. ASSUME NEW w \in Workers, Step(w) \/ Crash(w), ~Read(w)
        PROVE  phase[v] \in InHand /\ hand'[v] = hand[v]
    <2> USE DEF InHand, Holding
    <2>1. CASE Skip(w) \/ Refuse(w) \/ RecordSent(w) \/ RecordRetry(w) \/ RecordFailed(w)
      <3>1. PutDown(w)
        BY <2>1, PutDownRow
      <3> QED BY <1>0, <3>1 DEF PutDown
    <2>2. CASE Begin(w) \/ Select(w) \/ Finish(w) \/ Claim(w) \/ Refresh(w)
      BY <1>0, <2>2 DEF Begin, Select, Finish, Claim, Refresh
    <2>3. CASE LoseClaim(w)
      BY <1>0, <2>3 DEF LoseClaim, PutDown
    <2>4. CASE Crash(w)
      BY <1>0, <2>4 DEF Crash
    <2>5. CASE SendReturns(w) \/ SendRaises(w)
      BY <1>0, <2>5, SendEffect
    <2> QED BY <1>5, <2>1, <2>2, <2>3, <2>4, <2>5 DEF Step
  <1> QED BY <1>2, <1>3, <1>4, <1>5, QuietPassing DEF Next, vars, runVars

LEMMA ResultOfStatus ==
    \A status \in Statuses :
        /\ status = "absent" <=> ResultOf(status) = "none"
        /\ status \in {"PENDING", "PROCESSING"} <=> ResultOf(status) = "waiting"
        /\ status = "SENT" <=> ResultOf(status) = "sent"
        /\ status = "FAILED" <=> ResultOf(status) = "failed"
        /\ status = "SKIPPED" <=> ResultOf(status) = "skipped"
        /\ status \in {"absent", "PENDING", "PROCESSING", "SENT", "FAILED", "SKIPPED"}
  BY DEF ResultOf, Statuses, Final

LEMMA ResultOfRow ==
    ASSUME TypeOK, NEW d \in Deliveries
    PROVE  /\ row[d].status \in Statuses
           /\ Result[d] = ResultOf(row[d].status)
  BY DEF TypeOK, Row, Result

\* A step that changes no mail maps to settling or to nothing.
LEMMA StepsWithoutMail ==
    ASSUME TypeOK, TypeOK', Posted', [Next]_vars, mails' = mails, overran' = overran,
           \A d \in Deliveries : row[d].status = "absent" => row'[d].status = "absent"
    PROVE  Promise!Settle \/ UNCHANGED <<Result, mails, overran>>
  <1> DEFINE ds == {d \in Deliveries : Result[d] = "waiting" /\ Result'[d] \in Promise!Settled}
  <1>1. ASSUME NEW d \in Deliveries
        PROVE  \/ Result'[d] = Result[d]
               \/ Result[d] = "waiting" /\ Result'[d] \in Promise!Settled
    <2>1. row'[d].status \in Statuses /\ Result'[d] = ResultOf(row'[d].status)
      BY DEF TypeOK, Row, Result
    <2>2. row[d].status = "absent" => row'[d].status = "absent"
      OBVIOUS
    <2>3. StatusStep(d)
      BY StatusNext
    <2> QED BY <2>1, <2>2, <2>3, ResultOfRow, ResultOfStatus DEF StatusStep, Promise!Settled
  <1>2. /\ Result = [d \in Deliveries |-> Result[d]]
        /\ Result' = [d \in Deliveries |-> Result'[d]]
    <2>1. \A d \in Deliveries : Result[d] = ResultOf(row[d].status)
      BY DEF Result
    <2>2. \A d \in Deliveries : Result'[d] = ResultOf(row'[d].status)
      BY DEF Result
    <2> QED BY <2>1, <2>2 DEF Result
  <1>3. CASE ds = {}
    <2>1. \A d \in Deliveries : Result'[d] = Result[d]
      BY <1>1, <1>3
    <2> QED BY <1>2, <2>1
  <1>4. CASE ds # {}
    <2> DEFINE how == [d \in Deliveries |-> IF d \in ds THEN Result'[d] ELSE "failed"]
    <2>1. how \in [Deliveries -> Promise!Settled]
      BY DEF Promise!Settled
    <2>2. \A d \in ds : Result[d] = "waiting" /\ (how[d] = "sent" => mails[d] > 0)
      <3> SUFFICES ASSUME NEW d \in ds, how[d] = "sent"
                   PROVE  mails[d] > 0
        OBVIOUS
      <3>1. Result'[d] = "sent"
        OBVIOUS
      <3>2. row'[d].status = "SENT"
        <4>1. row'[d].status \in Statuses /\ Result'[d] = ResultOf(row'[d].status)
          BY DEF TypeOK, Row, Result
        <4> QED BY <3>1, <4>1, ResultOfStatus
      <3> QED BY <3>2 DEF Posted, SentWasMailed
    <2>3. \A d \in Deliveries : Result'[d] = IF d \in ds THEN how[d] ELSE Result[d]
      BY <1>1
    <2> HIDE DEF how, ds
    <2>4. Result' = [d \in Deliveries |-> IF d \in ds THEN how[d] ELSE Result[d]]
      BY <1>2, <2>3
    <2>5. ds \in (SUBSET Deliveries) \ {{}}
      BY <1>4 DEF ds
    <2> QED BY <2>1, <2>2, <2>4, <2>5 DEF Promise!Settle
  <1> QED BY <1>3, <1>4

LEMMA PassingRefines ==
    ASSUME TypeOK, TypeOK', NEW d \in Deliveries, Create(d) \/ Passing(d)
    PROVE  \/ Promise!Ask(d) \/ Promise!Decline(d) \/ Promise!BeLate(d)
           \/ UNCHANGED <<Result, mails, overran>>
  <1>0. row \in [Deliveries -> Row] /\ mails' = mails
    BY QuietPassing DEF TypeOK
  <1>1. CASE Create(d)
    <2>1. PICK status \in {"PENDING", "SKIPPED"} : row' = [row EXCEPT ![d].status = status]
      BY <1>1 DEF Create
    <2>2. \A e \in Deliveries : row'[e].status = IF e = d THEN status ELSE row[e].status
      BY <1>0, <2>1 DEF Row
    <2>3. Result' = [Result EXCEPT ![d] = IF status = "PENDING" THEN "waiting" ELSE "skipped"]
      <3>1. ResultOf(status) = IF status = "PENDING" THEN "waiting" ELSE "skipped"
        BY DEF ResultOf
      <3>2. \A e \in Deliveries :
               ResultOf(row'[e].status) = IF e = d THEN ResultOf(status) ELSE ResultOf(row[e].status)
        BY <2>2
      <3> HIDE DEF ResultOf
      <3> QED BY <3>1, <3>2 DEF Result
    <2>4. Result[d] = "none" /\ overran' = overran
      BY <1>1, ResultOfRow, ResultOfStatus DEF Create
    <2> QED BY <1>0, <2>3, <2>4 DEF Promise!Ask, Promise!Decline
  <1>2. CASE Passing(d)
    <2>1. \A e \in Deliveries : row'[e].status = row[e].status
      BY <1>0, <1>2 DEF Passing, ComeDue, Overrun, Row
    <2>2. Result' = Result
      BY <2>1 DEF Result
    <2>3. overran' = overran \/ (overran' = overran \cup {d} /\ Result[d] = "waiting")
      BY <1>2, ResultOfRow, ResultOfStatus DEF Passing, ComeDue, Overrun
    <2> QED BY <1>0, <2>2, <2>3 DEF Promise!BeLate
  <1> QED BY <1>1, <1>2

LEMMA SendRefines ==
    ASSUME TypeOK, TypeOK', Budget, Custody, Asked,
           NEW w \in Workers, SendReturns(w) \/ SendRaises(w)
    PROVE  Promise!Mail(hand[w]) \/ UNCHANGED <<Result, mails, overran>>
  <1> DEFINE d == hand[w]
  <1>0. /\ d \in Deliveries /\ phase[w] = "sending" /\ row' = row /\ overran' = overran
        /\ mails \in [Deliveries -> Nat] /\ mails' \in [Deliveries -> Nat]
        /\ \A e \in Deliveries \ {d} : mails'[e] = mails[e]
        /\ mails'[d] \in {mails[d], mails[d] + 1}
    BY SendEffect DEF TypeOK
  <1>1. Result' = Result
    BY <1>0 DEF Result
  <1>2. CASE mails'[d] = mails[d]
    BY <1>0, <1>1, <1>2
  <1>3. CASE mails'[d] = mails[d] + 1
    <2>1. Result[d] # "none"
      BY <1>0, ResultOfRow, ResultOfStatus DEF Asked, InHand, Holding
    <2>2. d \in overran \/ Result[d] = "waiting"
      BY <1>0, ResultOfRow, ResultOfStatus DEF Custody, Senders, Holding
    <2>3. mails[d] < MaxAttempts
      <3>1. AboutToSend(d) # {}
        BY <1>0 DEF AboutToSend
      <3>2. Cardinality(AboutToSend(d)) \in Nat /\ Cardinality(AboutToSend(d)) # 0
        BY <3>1, AboutToSendIsFinite, FS_EmptySet
      <3>3. /\ mails[d] + Cardinality(AboutToSend(d)) <= row[d].attempts
            /\ row[d].attempts \in 0 .. MaxAttempts /\ mails[d] \in Nat
        BY <1>0 DEF Budget, TypeOK, Row
      <3> QED BY <3>2, <3>3, QueueAssumption
    <2>4. mails' = [mails EXCEPT ![d] = @ + 1]
      BY <1>0, <1>3
    <2> QED BY <1>0, <1>1, <2>1, <2>2, <2>3, <2>4 DEF Promise!Mail
  <1> QED BY <1>0, <1>2, <1>3

LEMMA NextRefines ==
    ASSUME TypeOK, TypeOK', Budget, Custody, Asked, Posted', [Next]_vars
    PROVE  [Promise!Next]_(Promise!promiseVars)
  <1> USE DEF Promise!promiseVars
  <1>1. CASE UNCHANGED vars
    BY <1>1 DEF vars, Result
  <1>2. ASSUME NEW d \in Deliveries, Create(d) \/ Passing(d)
        PROVE  [Promise!Next]_(Promise!promiseVars)
    BY <1>2, PassingRefines DEF Promise!Next
  <1>3. ASSUME NEW w \in Workers, SendReturns(w) \/ SendRaises(w)
        PROVE  [Promise!Next]_(Promise!promiseVars)
    BY <1>3, SendRefines, SendEffect DEF Promise!Next
  <1>4. ASSUME NEW w \in Workers, Step(w) \/ Crash(w), ~(SendReturns(w) \/ SendRaises(w))
        PROVE  [Promise!Next]_(Promise!promiseVars)
    <2>1. mails' = mails
      BY <1>4, QuietSteps DEF Step, Claim
    <2>2. overran' = overran
      BY <1>4, PutDownRow, SameRows DEF Step, Begin, Claim
    <2>3. ASSUME NEW d \in Deliveries, row[d].status = "absent"
          PROVE  row'[d].status = "absent"
      BY <1>4, <2>3, BegunRows, ClaimedRow, PutDownRow, SameRows DEF Step, SettlesOrLate
    <2> QED BY <2>1, <2>2, <2>3, StepsWithoutMail DEF Promise!Next
  <1> QED BY <1>1, <1>2, <1>3, <1>4 DEF Next

\* The queue keeps the safety of its promise: each delivery is settled once,
\* as sent only after a mail, with at most MaxAttempts mails, and none after
\* it was settled unless a run outlived the timeout.
THEOREM QueueKeepsPromise == Spec => Promise!Safety
  <1>1. Init => Promise!Init
    BY DEF Init, Promise!Init, Result, ResultOf
  <1>2. Init => Asked
    BY DEF Init, Asked, InHand, Holding
  <1> QED BY <1>1, <1>2, TypeCorrect, BudgetInit, BudgetNext, CustodyInit, CustodyNext,
             AskedNext, PostedInit, PostedNext, NextRefines, PTL DEF Spec, Promise!Safety

\* The attempts, the right to send and the records of all deliveries, together
\* (send_pending_email_deliveries).
THEOREM AttemptsAreOneRuns == Spec => []AttemptIsOneRuns
<1>1. Spec => []MailsWithinAttempts
  BY MailsAreBounded
<1>2. Spec => []OneSender
  BY OneRunSends
<1>3. Spec => []SentWasMailed
  BY SentWereMailed
<1>. QED
  BY <1>1, <1>2, <1>3, PTL DEF AttemptIsOneRuns

=============================================================================
