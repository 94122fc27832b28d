------------------------- MODULE MCDocumentControl -------------------------
(* A small library for TLC: who keeps it and who reads it. *)
EXTENDS DocumentControl

CONSTANTS m, a, b, y1

TheStaff == {m, a, b}

NobodyOrReaders == {{}, {a, m}}

=============================================================================
