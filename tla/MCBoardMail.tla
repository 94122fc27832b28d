----------------------------- MODULE MCBoardMail -----------------------------
(* A head who reads one board, and a card of it, from a Friday on.         *)
EXTENDS BoardMail

CONSTANTS head, b1, c1

TheHome == [c \in {c1} |-> b1]

=============================================================================
