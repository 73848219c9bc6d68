---------------------------- MODULE ReplicaAudit ----------------------------
(***************************************************************************)
(* The audit of the stored chains: check_validators.py and, line by line   *)
(* the same, load_validator_state of run_experiment.py.  It may run at any *)
(* time.  It reads one file after the other, while the validators keep     *)
(* writing them.                                                           *)
(***************************************************************************)
EXTENDS LogReplication

VARIABLE audit  \* the chains the running audit has read, as in VALIDATOR_IDS

\* load_chain for the next validator.
LoadNextFile ==
    /\ Len(audit) < Len(VALIDATOR_IDS)
    /\ audit' = Append(audit, chain_file[VALIDATOR_IDS[Len(audit) + 1]])
    /\ UNCHANGED vars

\* The verdict is printed; the next audit starts afresh.
PrintVerdict ==
    /\ Len(audit) = Len(VALIDATOR_IDS)
    /\ audit' = <<>>
    /\ UNCHANGED vars

ProofsValid(chain) == \A n \in DOMAIN chain : ValidateCommitProof(chain[n])

\* Faulty variant: only the latest states are compared, as an earlier
\* version of the program did.
SameLatestState(chains) ==
    \A m, n \in DOMAIN chains :
        /\ Len(chains[m]) = Len(chains[n])
        /\ GetLatestHash(chains[m]) = GetLatestHash(chains[n])

\* Faulty variant: each chain is verified, nothing is compared.
EachChainValid(chains) ==
    \A n \in DOMAIN chains : VerifyChain(chains[n]) /\ ProofsValid(chains[n])

Synchronized(chains) ==
    /\ \A n \in DOMAIN chains : VerifyChain(chains[n]) /\ ProofsValid(chains[n])
    /\ \A m, n \in DOMAIN chains :
          /\ Len(chains[m]) = Len(chains[n])
          /\ GetLatestHash(chains[m]) = GetLatestHash(chains[n])

SaysSynchronized == Len(audit) = Len(VALIDATOR_IDS) /\ Synchronized(audit)

=============================================================================
