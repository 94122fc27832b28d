------------------------------ MODULE ActRoute ------------------------------
(***************************************************************************)
(* What the route of one nonconformity act promises, without saying how.   *)
(*                                                                         *)
(* An act is drafted, every one of its defects is decided in a round of    *)
(* decisions, the decided act is analysed and reviewed, and it is archived *)
(* for good.  A round starts with nothing decided and may be thrown away   *)
(* by sending the act back; the act is analysed or reviewed only while all *)
(* its defects are decided in the round that is running.                   *)
(***************************************************************************)
CONSTANT Defects

VARIABLES
    stage,    \* where the act is
    live,     \* the defects it has
    settled   \* the defects decided in the running round

routeVars == <<stage, live, settled>>

Stages == {"drafting", "deciding", "analysing", "reviewing", "archived"}

Init ==
    /\ stage = "drafting"
    /\ live \in (SUBSET Defects) \ {{}}
    /\ settled = {}

\* The draft is corrected: defects come and go.
Edit ==
    /\ stage = "drafting"
    /\ live' \in (SUBSET Defects) \ {{}}
    /\ UNCHANGED <<stage, settled>>

\* A round of decisions is opened, from the draft or by sending the act back.
OpenRound ==
    /\ stage \in {"drafting", "analysing", "reviewing"}
    /\ stage' = "deciding"
    /\ settled' = {}
    /\ UNCHANGED live

\* Somebody settles their share, and others still owe theirs.
Settle ==
    /\ stage = "deciding"
    /\ settled' \in SUBSET live
    /\ settled \subseteq settled'
    /\ settled' # live
    /\ UNCHANGED <<stage, live>>

\* The last share: only now does the act leave the stage of decisions.
SettleLast ==
    /\ stage = "deciding"
    /\ settled' = live
    /\ stage' \in {"analysing", "reviewing"}
    /\ UNCHANGED live

Withdraw ==
    /\ stage = "deciding"
    /\ stage' = "drafting"
    /\ settled' = {}
    /\ UNCHANGED live

Analyse ==
    /\ stage = "analysing"
    /\ stage' = "reviewing"
    /\ UNCHANGED <<live, settled>>

Reanalyse ==
    /\ stage = "reviewing"
    /\ stage' = "analysing"
    /\ UNCHANGED <<live, settled>>

Archive ==
    /\ stage = "reviewing"
    /\ stage' = "archived"
    /\ UNCHANGED <<live, settled>>

Next ==
    \/ Edit \/ OpenRound \/ Settle \/ SettleLast \/ Withdraw
    \/ Analyse \/ Reanalyse \/ Archive

Spec == Init /\ [][Next]_routeVars

=============================================================================
