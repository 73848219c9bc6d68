-------------------------- MODULE ClientReplication --------------------------
(***************************************************************************)
(* The replicated log together with the clients that fill it: what a       *)
(* client is told, compared with what is committed and stored.             *)
(***************************************************************************)
EXTENDS LogReplication, LogClient

\* What the clients send, in a block.
ClientLogs == UNION {[node_id : {c}, message : 1..COUNT[c]] : c \in CLIENTS}

ASSUME LogsAssumption == LOGS = ClientLogs

clientReplicationVars == <<vars, clientVars>>

ClientInit == Init /\ LogClientInit

\* One turn of the producer's accept loop, from accept() to the answer.
ServeLog ==
    \/ AcceptOldestLog /\ AcceptLog(LogData(log_request'))
    \/ step = "accept" /\ RejectExpiredLog /\ UNCHANGED vars
    \/ HandleLog /\ step' # "accept" /\ UNCHANGED clientVars
    \/ AbortCommit /\ AnswerLog("ERROR") /\ UNCHANGED validatorVars
    \/ FinishCommit /\ AnswerLog("OK") /\ UNCHANGED validatorVars

RunClient(c) == (SendLog(c) \/ GiveUpLog(c)) /\ UNCHANGED vars

ClientNext ==
    \/ ServeLog
    \/ \E c \in CLIENTS : RunClient(c)
    \/ /\ \/ \E v \in Validators : Serve(v) \/ Synchronise(v) \/ Environment(v)
          \/ \E r \in Callers : CallEnds(r)
       /\ UNCHANGED clientVars

\* As in LogReplication; clients promise nothing.
ClientFairness ==
    /\ WF_clientReplicationVars(ServeLog)
    /\ \A v \in Validators :
          WF_clientReplicationVars((Serve(v) \/ Synchronise(v)) /\ UNCHANGED clientVars)
    /\ \A r \in Callers : WF_clientReplicationVars(CallEnds(r) /\ UNCHANGED clientVars)

ClientSteps == ClientInit /\ [][ClientNext]_clientReplicationVars

ClientSpec == ClientSteps /\ ClientFairness

-----------------------------------------------------------------------------

ClientTypeOK ==
    /\ IsSeq(log_inbox)
    /\ Len(log_inbox) <= SOCKET_BACKLOG
    /\ \A request \in Range(log_inbox) : LogData(request) \in LOGS
    /\ log_request # NoRequest => LogData(log_request) \in LOGS
    /\ (log_request = NoRequest) <=> (step = "accept")
    /\ \A c \in CLIENTS : answer[c] \in BoundedSeq({"OK", "ERROR", "FAILED"}, COUNT[c])

\* The positions of this log of client c in a chain.
Positions(chain, c, n) ==
    {m \in DOMAIN chain : chain[m].log_data = [node_id |-> c, message |-> n]}

\* OK is said of a log only when it is committed, and ERROR only when it is
\* not and never will be: neither in the producer's chain nor in any file.
\* FAILED says nothing: the log may be dropped, waiting, or committed.
AnswersAreTrue ==
    \A c \in CLIENTS : \A n \in DOMAIN answer[c] :
        /\ answer[c][n] = "OK" => Positions(producer_chain, c, n) # {}
        /\ answer[c][n] = "ERROR" =>
              /\ Positions(producer_chain, c, n) = {}
              /\ \A v \in Validators : Positions(chain_file[v], c, n) = {}

\* The logs of a client stand in the chain in the order they were sent, none
\* twice, although a log whose sender gave up is handled after the sender
\* has gone on to its next one.
LogsKeepClientOrder ==
    \A m, n \in DOMAIN producer_chain :
        LET first == producer_chain[m].log_data
            second == producer_chain[n].log_data
        IN  (m < n /\ first.node_id = second.node_id) => first.message < second.message

\* Every log is answered or given up, those without a timeout included.
EveryLogIsAnswered ==
    \A c \in CLIENTS : AwaitsAnswer(c) ~> ~AwaitsAnswer(c)

-----------------------------------------------------------------------------
(* The inductive invariant behind the safety properties above.             *)

\* A client still waits for its newest log only.  Each other log of it that
\* is queued or being handled it has given up.
IsOpen(request) ==
    /\ DOMAIN request = DOMAIN NoRequest
    /\ request.live \in BOOLEAN
    /\ IF request.live
       THEN request.message = Len(answer[request.from]) + 1
       ELSE /\ request.message \in DOMAIN answer[request.from]
            /\ answer[request.from][request.message] = "FAILED"

OpenLogsInv ==
    /\ answer \in [CLIENTS -> Seq({"OK", "ERROR", "FAILED"})]
    /\ \A n \in DOMAIN log_inbox : IsOpen(log_inbox[n])
    /\ log_request # NoRequest => IsOpen(log_request)
    /\ step # "accept" => candidate.log_data = LogData(log_request)

\* What is in the chain was sent by a client, and was answered or given up
\* unless it is being handled.
CommittedLogsInv ==
    \A n \in DOMAIN producer_chain :
        LET log == producer_chain[n].log_data
        IN  /\ log \in LOGS
            /\ log = LogData(log_request) \/ log.message \in DOMAIN answer[log.node_id]

Precedes(log, other) == log.node_id = other.node_id => log.message < other.message

\* First the logs in the chain, then the one being handled, then the queue.
QueueOrderInv ==
    /\ \A m, n \in DOMAIN log_inbox :
          m < n => Precedes(LogData(log_inbox[m]), LogData(log_inbox[n]))
    /\ \A n \in DOMAIN log_inbox :
          /\ Precedes(LogData(log_request), LogData(log_inbox[n]))
          /\ \A m \in DOMAIN producer_chain :
                Precedes(producer_chain[m].log_data, LogData(log_inbox[n]))
    /\ step = "propose" =>
          \A m \in DOMAIN producer_chain :
             Precedes(producer_chain[m].log_data, LogData(log_request))

\* AnswersAreTrue as far as the producer knows.
AnsweredByChain ==
    \A c \in CLIENTS : \A n \in DOMAIN answer[c] :
        /\ answer[c][n] = "OK" => Positions(producer_chain, c, n) # {}
        /\ answer[c][n] = "ERROR" => Positions(producer_chain, c, n) = {}

\* Together with ReplicationInv, this holds in every reachable state.
ClientInv ==
    /\ ClientTypeOK
    /\ OpenLogsInv
    /\ CommittedLogsInv
    /\ QueueOrderInv
    /\ AnsweredByChain
    /\ LogsKeepClientOrder

-----------------------------------------------------------------------------
(* What the normal experiment reports.                                     *)

\* Those that the normal experiment counts as committed.
OkAnswers(c) == {n \in DOMAIN answer[c] : answer[c][n] = "OK"}

\* Where the logs of a node stand in a chain.
FoundLogs(chain, node_id) ==
    {n \in DOMAIN chain : chain[n].log_data.node_id = node_id}

\* No log of client c is left anywhere on its way.
Finished(c) ==
    /\ Len(answer[c]) = COUNT[c]
    /\ step = "accept"
    /\ log_inbox = <<>>

\* "committed={successful_logs}/{args.count}": the number of OK answers is
\* the number of committed logs.
ReportedCountIsCommitted ==
    \A c \in CLIENTS :
        Finished(c) => Cardinality(FoundLogs(producer_chain, c)) = Cardinality(OkAnswers(c))

=============================================================================
