--------------------------- MODULE MCClientCheck ---------------------------
(* The C program with two logs and a Python program with one, and          *)
(* validators A, B, C.                                                     *)
EXTENDS ClientCheck

CONSTANTS A, B, C, NODE, EQUIPMENT

MCValidatorIds == <<A, B, C>>
MCTwo          == {A, B}
MCNone         == {}
MCClients      == {NODE, EQUIPMENT}
MCPatient      == {EQUIPMENT}
MCCount        == [c \in CLIENTS |-> IF c \in PATIENT THEN 2 ELSE 1]
MCLogs         == ClientLogs

=============================================================================
