---------------------------- MODULE MCActWorkflow ----------------------------
(* Small plants for TLC: who works there, and what an act may look like.     *)
EXTENDS ActWorkflow

CONSTANTS o1, o2, km, kp, tm, adm, e1, e2

ThePlant == {o1, o2, km, kp, tm, adm}
TheProfiles ==
    [u \in ThePlant |-> CASE u = o1 -> "otk" [] u = o2 -> "otk" [] u = km -> "ko_mp"
                           [] u = kp -> "ko_pir" [] u = tm -> "to_mp" [] u = adm -> "admin"]
NoLoans == {}
TechnologistAsDesigner == {<<tm, "ko_mp">>}

\* An act of one workshop, one that mixes two as old ones do, and one of the
\* workshop with the combined route.
Rows == {1, 2}
OneShopOrMixed ==
    {[d \in Rows |-> IF d = 1 THEN "MP_SHOP" ELSE s] : s \in {"MP_SHOP", "PIR_SHOP", Absent}}
Mixed == {[d \in Rows |-> IF d = 1 THEN "MP_SHOP" ELSE "PIR_SHOP"]}
MixedOrCombined == Mixed \cup {[d \in Rows |-> IF d = 1 THEN "RL_SHOP" ELSE Absent]}

SharedAndSplit ==
    {{[name |-> "retrain", assignees |-> {km, tm}, split |-> TRUE],
      [name |-> "repair",  assignees |-> {km, tm}, split |-> FALSE]}}

=============================================================================
