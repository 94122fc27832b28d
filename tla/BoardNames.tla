----------------------------- MODULE BoardNames -----------------------------
(***************************************************************************)
(* What the specifications of several boards call by the same name.        *)
(***************************************************************************)

CONSTANTS
    Cards,
    None      \* no card, no value, no board

=============================================================================
