---------------------------- MODULE ClientCheck ----------------------------
(***************************************************************************)
(* The clients and the audit together: c-client-check, and the audit with  *)
(* which the normal experiment ends, set against what the clients had been *)
(* told when it began.  Clients, producer and validators go on meanwhile.  *)
(***************************************************************************)
EXTENDS ClientReplication, ReplicaAudit

VARIABLE answered_before  \* the logs answered with OK when the running audit began

checkVars == <<clientReplicationVars, audit, answered_before>>

\* The logs that were answered with OK so far.
AnsweredLogs == UNION {[node_id : {c}, message : OkAnswers(c)] : c \in CLIENTS}

CheckInit ==
    /\ ClientInit
    /\ audit = <<>>
    /\ answered_before = {}

CheckNextFile ==
    /\ LoadNextFile
    /\ answered_before' = IF audit = <<>> THEN AnsweredLogs ELSE answered_before
    /\ UNCHANGED clientVars

EndCheck ==
    /\ PrintVerdict
    /\ answered_before' = {}
    /\ UNCHANGED clientVars

CheckNext ==
    \/ ClientNext /\ UNCHANGED <<audit, answered_before>>
    \/ CheckNextFile
    \/ EndCheck

CheckSpec == CheckInit /\ [][CheckNext]_checkVars

-----------------------------------------------------------------------------

\* What run_c_client_check counts, of all clients.
LogsIn(chain) == {chain[n].log_data : n \in DOMAIN chain}

\* When the audit says that the validators are synchronized, each chain it
\* read holds the very logs that had been answered with OK before it began,
\* all but at most one, which is the last that its client had got an OK for.
\* Logs whose clients gave up, or got their answer later, do not stand in
\* for a missing one.
CheckFindsAnsweredLogs ==
    SaysSynchronized =>
        \A k \in DOMAIN audit :
            LET missing == answered_before \ LogsIn(audit[k])
            IN  /\ Cardinality(missing) <= 1
                /\ \A log \in missing : \A other \in answered_before \ {log} :
                      Precedes(other, log)

\* The first "start" blocks hold the logs that were answered before the audit
\* began; v will show it, or has shown it, all of them but the last.
Shows(v, start) ==
    /\ answered_before \subseteq {producer_chain[n].log_data : n \in 1..start}
    /\ Len(chain_file[v]) >= start - 1
    /\ \A k \in DOMAIN audit : VALIDATOR_IDS[k] = v => Len(audit[k]) >= start - 1

\* Together with ReplicationInv and ClientInv, this holds in every reachable
\* state: what was read is the producer's, and somebody shows the answered
\* logs.
CheckInv ==
    /\ IsSeq(audit)
    /\ Len(audit) <= Len(VALIDATOR_IDS)
    /\ \A k \in DOMAIN audit : IsSeq(audit[k]) /\ IsPrefix(audit[k], producer_chain)
    /\ audit # <<>> =>
          \E v \in Validators : \E start \in 0..Len(producer_chain) : Shows(v, start)

=============================================================================
