----------------------------- MODULE Revisions -----------------------------
(***************************************************************************)
(* What the library promises of a controlled document: the revision people *)
(* read was put out without a round, or everybody asked has signed it; a   *)
(* refused revision never comes into force; an earlier one may come back   *)
(* only if it was in force before.                                         *)
(***************************************************************************)
EXTENDS Naturals

CONSTANTS Users, Numbers

VARIABLES
    verdict,   \* of each revision
    needed,    \* whose signatures it needs
    signed,    \* who has signed it
    inForce    \* the revision people read, 0 once the document is gone

vars == <<verdict, needed, signed, inForce>>

Verdicts == {"absent", "waiting", "agreed", "refused"}

Init ==
    /\ verdict = [v \in Numbers |-> IF v = 1 THEN "agreed" ELSE "absent"]
    /\ needed = [v \in Numbers |-> {}]
    /\ signed = [v \in Numbers |-> {}]
    /\ inForce = 1

Waiting == {v \in Numbers : verdict[v] = "waiting"}

\* A revision nobody has to sign is in force at once.
Publish(v) ==
    /\ inForce # 0 /\ verdict[v] = "absent" /\ Waiting = {}
    /\ verdict' = [verdict EXCEPT ![v] = "agreed"]
    /\ inForce' = v
    /\ UNCHANGED <<needed, signed>>

\* One revision at a time waits for its signatures.
Propose(v, signers) ==
    /\ inForce # 0 /\ verdict[v] = "absent" /\ Waiting = {}
    /\ signers # {}
    /\ verdict' = [verdict EXCEPT ![v] = "waiting"]
    /\ needed' = [needed EXCEPT ![v] = signers]
    /\ UNCHANGED <<signed, inForce>>

\* The last signature puts it in force.
Sign(v, u) ==
    /\ inForce # 0 /\ verdict[v] = "waiting"
    /\ u \in needed[v] \ signed[v]
    /\ signed' = [signed EXCEPT ![v] = @ \cup {u}]
    /\ IF signed'[v] = needed[v]
         THEN /\ verdict' = [verdict EXCEPT ![v] = "agreed"]
              /\ inForce' = v
         ELSE UNCHANGED <<verdict, inForce>>
    /\ UNCHANGED needed

Refuse(v) ==
    /\ verdict[v] = "waiting"
    /\ verdict' = [verdict EXCEPT ![v] = "refused"]
    /\ UNCHANGED <<needed, signed, inForce>>

\* An earlier revision is read again.
Revert(v) ==
    /\ inForce # 0 /\ verdict[v] = "agreed"
    /\ inForce' = v
    /\ UNCHANGED <<verdict, needed, signed>>

Remove ==
    /\ inForce' = 0
    /\ UNCHANGED <<verdict, needed, signed>>

Next ==
    \/ \E v \in Numbers : Publish(v) \/ Refuse(v) \/ Revert(v)
    \/ \E v \in Numbers, signers \in SUBSET Users : Propose(v, signers)
    \/ \E v \in Numbers, u \in Users : Sign(v, u)
    \/ Remove

Spec == Init /\ [][Next]_vars

=============================================================================
