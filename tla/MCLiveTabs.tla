----------------------------- MODULE MCLiveTabs -----------------------------
(* Two pages of one session. *)
EXTENDS LiveTabs

CONSTANTS first, second
Pages == {first, second}
=============================================================================
