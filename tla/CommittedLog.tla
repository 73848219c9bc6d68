---------------------------- MODULE CommittedLog ----------------------------
(***************************************************************************)
(* What the replication protocol promises, without messages, processes or  *)
(* hashes: one log that only grows, replicas that only ever hold prefixes  *)
(* of it, and a new entry only once a quorum of replicas holds all the     *)
(* entries before it.                                                      *)
(***************************************************************************)
EXTENDS Integers, SequencesExt

CONSTANTS
    Replicas,
    Quorums   \* the sets of replicas of which one must be up to date

VARIABLES
    log,      \* the committed entries
    replica   \* replica[r]: what r has stored

Init ==
    /\ log = <<>>
    /\ replica = [r \in Replicas |-> <<>>]

Commit ==
    /\ \E Q \in Quorums : \A r \in Q : replica[r] = log
    /\ Len(log') = Len(log) + 1
    /\ IsPrefix(log, log')
    /\ UNCHANGED replica

\* r stores more of the log, one entry or many.
Store(r) ==
    /\ IsPrefix(replica[r], replica'[r])
    /\ IsPrefix(replica'[r], log)
    /\ replica' = [replica EXCEPT ![r] = replica'[r]]
    /\ UNCHANGED log

Next == Commit \/ \E r \in Replicas : Store(r)

Spec == Init /\ [][Next]_<<log, replica>>

=============================================================================
