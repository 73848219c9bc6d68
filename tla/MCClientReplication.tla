------------------------ MODULE MCClientReplication ------------------------
(* Two clients, a Python program and the C program, and validators A, B, C. *)
EXTENDS ClientReplication

CONSTANTS A, B, C, NODE, EQUIPMENT

MCValidatorIds == <<A, B, C>>
MCTwo          == {A, B}
MCOne          == {A}
MCNone         == {}
MCClients      == {NODE, EQUIPMENT}
MCPatient      == {EQUIPMENT}
MCCount        == [c \in CLIENTS |-> IF c \in PATIENT THEN 1 ELSE 2]
MCLogs         == ClientLogs

=============================================================================
