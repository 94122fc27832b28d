---------------------------- MODULE MailPromise ----------------------------
(***************************************************************************)
(* What the email queue promises about each delivery, without workers:     *)
(* it is settled once and for good, as sent only after a mail went out,    *)
(* a bounded number of mails goes out for it, and none after it was        *)
(* settled unless a send was late, that is, outlived the timeout after     *)
(* which others take it for dead.  Whatever is queued is settled in the    *)
(* end.                                                                    *)
(***************************************************************************)
EXTENDS Naturals

CONSTANTS
    Deliveries,    \* deliveries a notification may ask for
    MaxMails       \* most mails that may go out for one delivery

VARIABLES
    result,    \* "none", "waiting", or how the delivery was settled
    mailed,    \* number of mails that went out
    late       \* deliveries with a send that outlived the timeout

promiseVars == <<result, mailed, late>>

Settled == {"sent", "failed", "skipped"}

Init ==
    /\ result = [d \in Deliveries |-> "none"]
    /\ mailed = [d \in Deliveries |-> 0]
    /\ late = {}

Ask(d) ==
    /\ result[d] = "none"
    /\ result' = [result EXCEPT ![d] = "waiting"]
    /\ UNCHANGED <<mailed, late>>

\* The delivery needs no mail, as it is known when it is asked for.
Decline(d) ==
    /\ result[d] = "none"
    /\ result' = [result EXCEPT ![d] = "skipped"]
    /\ UNCHANGED <<mailed, late>>

Mail(d) ==
    /\ result[d] # "none"
    /\ d \in late \/ result[d] = "waiting"
    /\ mailed[d] < MaxMails
    /\ mailed' = [mailed EXCEPT ![d] = @ + 1]
    /\ UNCHANGED <<result, late>>

BeLate(d) ==
    /\ result[d] = "waiting"
    /\ late' = late \cup {d}
    /\ UNCHANGED <<result, mailed>>

\* Several deliveries may be settled at once.
Settle ==
    /\ \E how \in [Deliveries -> Settled], ds \in (SUBSET Deliveries) \ {{}} :
          /\ \A d \in ds : result[d] = "waiting" /\ (how[d] = "sent" => mailed[d] > 0)
          /\ result' = [d \in Deliveries |-> IF d \in ds THEN how[d] ELSE result[d]]
    /\ UNCHANGED <<mailed, late>>

Next == Settle \/ \E d \in Deliveries : Ask(d) \/ Decline(d) \/ Mail(d) \/ BeLate(d)

Safety == Init /\ [][Next]_promiseVars

Liveness == \A d \in Deliveries : (result[d] = "waiting") ~> (result[d] \in Settled)

Spec == Safety /\ Liveness

=============================================================================
