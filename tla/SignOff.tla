------------------------------ MODULE SignOff ------------------------------
(***************************************************************************)
(* What it means that a document is signed off, without revisions, rows or *)
(* queues: while its signatures are collected its text does not change, it *)
(* is finished exactly when all who must sign this text have, a return     *)
(* throws the signatures away, and the work the text decides is handed out *)
(* with the last signature, as one step and for good.                      *)
(***************************************************************************)
CONSTANTS
    Texts,          \* texts the document may have
    People,
    Required(_),    \* those who must sign a text
    Decided(_)      \* the work a text hands out

VARIABLES
    stage,         \* "open", "signing", "done" or "gone"
    text,
    signatures,    \* those who have signed the text
    work           \* what was handed out

signOffVars == <<stage, text, signatures, work>>

Init ==
    /\ stage = "open"
    /\ text \in Texts
    /\ signatures = {}
    /\ work = {}

Write ==
    /\ stage = "open"
    /\ text' \in Texts
    /\ UNCHANGED <<stage, signatures, work>>

Discard ==
    /\ stage = "open"
    /\ stage' = "gone"
    /\ text' \in Texts
    /\ UNCHANGED <<signatures, work>>

\* With the signatures there are, the document is finished or waits for more.
Collected(signed) ==
    /\ signatures' = signed
    /\ IF signed = Required(text)
         THEN stage' = "done" /\ work' = Decided(text)
         ELSE stage' = "signing" /\ UNCHANGED work
    /\ UNCHANGED text

Circulate ==
    /\ stage = "open"
    /\ Collected({})

Sign(u) ==
    /\ stage = "signing"
    /\ u \in Required(text) \ signatures
    /\ Collected(signatures \cup {u})

SendBack ==
    /\ stage = "signing"
    /\ stage' = "open"
    /\ signatures' = {}
    /\ UNCHANGED <<text, work>>

Next == Write \/ Discard \/ Circulate \/ SendBack \/ \E u \in People : Sign(u)

Spec == Init /\ [][Next]_signOffVars

=============================================================================
