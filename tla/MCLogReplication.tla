-------------------------- MODULE MCLogReplication --------------------------
(* Values of the constants for TLC: validators A, B and C as in config.py. *)
EXTENDS LogReplication

CONSTANTS A, B, C, logX, logY

MCValidatorIds == <<A, B, C>>
MCAll          == {A, B, C}
MCTwo          == {A, B}
MCNone         == {}
MCLogs         == {logX}
MCAllLogs      == {logX, logY}
MCEdgeLogs     == {logY}

=============================================================================
