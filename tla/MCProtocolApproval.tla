------------------------- MODULE MCProtocolApproval -------------------------
(* A small meeting for TLC: an author, two approvers and what they may decide. *)
EXTENDS ProtocolApproval

CONSTANTS au, pa, pb, d1, d2

ThePeople == {au, pa, pb}
TheDecisions == {d1, d2}

Assigned(x, y) == [d \in TheDecisions |-> IF d = d1 THEN x ELSE y]

\* Nobody to ask; one approver, and work for the author alone that is marked
\* as split; and two approvers, one of them because of a split decision.
SmallMeetings ==
    {[signers |-> {}, assignees |-> Assigned({}, {}), split |-> {}],
     [signers |-> {pa}, assignees |-> Assigned({au}, {}), split |-> {d1}],
     [signers |-> {pa}, assignees |-> Assigned({au, pb}, {pa, pb}), split |-> {d1}]}

=============================================================================
