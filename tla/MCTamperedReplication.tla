----------------------- MODULE MCTamperedReplication -----------------------
(* Validators A, B and C; the file of one of them is tampered with.        *)
EXTENDS TamperedReplication

CONSTANTS A, B, C, logX

MCValidatorIds == <<A, B, C>>
MCAll          == {A, B, C}
MCNone         == {}
MCTwo          == {A, B}
MCLogs         == {logX}

=============================================================================
