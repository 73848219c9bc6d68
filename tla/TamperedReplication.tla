------------------------- MODULE TamperedReplication -------------------------
(***************************************************************************)
(* The replicated log when chain files are tampered with, and the audit    *)
(* that is to notice it.  The operator stops a validator, tampers with its *)
(* file and starts it again; the producer and the others go on meanwhile,  *)
(* and so may the audit.                                                   *)
(***************************************************************************)
EXTENDS ReplicaAudit, Tamper

CONSTANT MAX_TAMPERED  \* bound on the validators whose files are tampered with

\* "... [TAMPERED]" is another message than the one it was made of.
ASSUME TamperAssumption ==
    /\ MAX_TAMPERED \in Nat
    /\ \A log \in LOGS : [tampered |-> log] # log

VARIABLES
    tampered,    \* the validators whose files were tampered with
    audit_start  \* how many blocks were committed when the running audit began

tamperVars == <<vars, tampered, audit, audit_start>>

TamperInit ==
    /\ Init
    /\ tampered = {}
    /\ audit = <<>>
    /\ audit_start = 0

\* The operator stops v, unless it is down already, and edits a block that
\* its stored chain has, one edit per validator.
TamperFile(v) ==
    /\ v \notin tampered
    /\ Cardinality(tampered) < MAX_TAMPERED
    /\ tampered' = tampered \cup {v}
    /\ \E block_index \in 0..GetLatestIndex(chain_file[v]), tamper_type \in TamperTypes :
          \E position \in FindBlockPosition(chain_file[v], block_index) :
             chain_file' = [chain_file EXCEPT ![v] = ApplyTamper(@, position, tamper_type)]
    /\ DropSockets(v)
    /\ sync' = [sync EXCEPT ![v] = NoSync]
    /\ UNCHANGED <<producerVars, faults, audit, audit_start>>

AuditNextFile ==
    /\ LoadNextFile
    /\ audit_start' = IF audit = <<>> THEN Len(producer_chain) ELSE audit_start
    /\ UNCHANGED tampered

EndAudit ==
    /\ PrintVerdict
    /\ audit_start' = 0
    /\ UNCHANGED tampered

TamperNext ==
    \/ Next /\ UNCHANGED <<tampered, audit, audit_start>>
    \/ \E v \in Validators : TamperFile(v)
    \/ AuditNextFile
    \/ EndAudit

TamperSpec == TamperInit /\ [][TamperNext]_tamperVars

-----------------------------------------------------------------------------

\* A file that verifies holds nothing but what the producer committed, and
\* the file of a validator nobody tampered with verifies: what was done to
\* one file never reaches another one, neither by an ACK of a validator that
\* runs on its edited chain nor by the blocks it returns to a starting peer.
VerifiedChainsFollowProducer ==
    \A v \in Validators :
        /\ VerifyChain(chain_file[v]) => IsPrefix(chain_file[v], producer_chain)
        /\ v \notin tampered => VerifyChain(chain_file[v])

\* The evidence stays: a file that does not verify is not mended by anything
\* the validator goes on to store or to learn from its peers.
EvidenceStays ==
    [][\A v \in Validators :
          ~VerifyChain(chain_file[v]) => ~VerifyChain(chain_file[v]')]_tamperVars

\* Each block but the last is intact at a quorum, less those tampered with,
\* although they go on to accept the proposals that continue their tip.
DurabilityLosesOnlyTampered ==
    \A n \in 1..(Len(producer_chain) - 1) :
        Cardinality(Holders(n) \ tampered) >= QUORUM - Cardinality(tampered)

\* When the audit says that the validators are synchronized, the chains it
\* read are the same, intact, and still what every untampered file begins
\* with, though it did not read them at one moment.
AuditTellsTheTruth ==
    SaysSynchronized =>
        \A n \in DOMAIN audit :
            /\ audit[n] = audit[1]
            /\ IsPrefix(audit[n], producer_chain)
            /\ \A v \in Validators \ tampered : IsPrefix(audit[n], chain_file[v])

\* It also misses nothing: while fewer than a quorum are tampered with, all
\* that was committed when it began, but the last block, is in the chains it
\* read.
SynchronizedMeansComplete ==
    (SaysSynchronized /\ Cardinality(tampered) < QUORUM) =>
        \A n \in DOMAIN audit : Len(audit[n]) >= audit_start - 1

-----------------------------------------------------------------------------
(* The inductive invariant behind all of them.                             *)

TamperTypeOK ==
    /\ tampered \subseteq Validators
    /\ IsSeq(audit)
    /\ Len(audit) <= Len(VALIDATOR_IDS)
    /\ \A k \in DOMAIN audit : IsChain(audit[k])
    /\ audit_start \in Nat

\* The producer's blocks, and its candidate, carry what clients sent.
LoggedInv ==
    /\ \A n \in DOMAIN producer_chain : producer_chain[n].log_data \in LOGS
    /\ step # "accept" => candidate.log_data \in LOGS

\* The validators that are tampered with, or will show the running audit all
\* but the last of the blocks that were committed when it began.
Witnesses ==
    {v \in Validators :
        \/ v \in tampered
        \/ /\ Len(chain_file[v]) >= audit_start - 1
           /\ \A k \in DOMAIN audit :
                 VALIDATOR_IDS[k] = v => Len(audit[k]) >= audit_start - 1}

\* A chain that was read and verifies is the producer's; the file it was read
\* from has only grown since, unless it was tampered with.
AuditInv ==
    /\ \A k \in DOMAIN audit :
          /\ VerifyChain(audit[k]) => IsPrefix(audit[k], producer_chain)
          /\ VALIDATOR_IDS[k] \notin tampered =>
                IsPrefix(audit[k], chain_file[VALIDATOR_IDS[k]])
    /\ audit # <<>> /\ audit_start > 1 => Cardinality(Witnesses) >= QUORUM

\* Edited blocks never leave the file they were edited in, and every quorum
\* that ever was still is one, counting those tampered with.
TamperInv ==
    /\ TamperTypeOK
    /\ CandidateInv
    /\ LoggedInv
    /\ InFlightAmong(Range(producer_chain))
    /\ FilesAmong(Range(producer_chain), Validators \ tampered)
    /\ SyncInv
    /\ AcksFrom(WholeChainHolders \cup tampered)
    /\ \A n \in 1..(Len(producer_chain) - 1) : Cardinality(Holders(n) \cup tampered) >= QUORUM
    /\ AuditInv

=============================================================================
