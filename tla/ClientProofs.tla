---------------------------- MODULE ClientProofs ----------------------------
(***************************************************************************)
(* Proofs about ClientReplication and ClientCheck: the clients change      *)
(* nothing of what is proved about LogReplication, what they are told is   *)
(* true, and an audit that succeeds finds the logs they got an OK for.     *)
(***************************************************************************)
EXTENDS ClientCheck, ReplicationSafetyProofs

Results == {"OK", "ERROR", "FAILED"}

-----------------------------------------------------------------------------
(* Logs, requests and answers.                                             *)

\* A log in LOGS is one that some client sends.
LEMMA LogFacts ==
    ASSUME NEW log \in LOGS
    PROVE  /\ log.node_id \in CLIENTS
           /\ COUNT[log.node_id] \in Nat
           /\ log.message \in 1..COUNT[log.node_id]
<1>1. PICK c \in CLIENTS : log \in [node_id : {c}, message : 1..COUNT[c]]
    BY LogsAssumption DEF ClientLogs
<1> QED
    BY <1>1, ClientAssumption

\* The next log of a client that has not sent them all.
LEMMA NextLogIsLog ==
    ASSUME NEW c \in CLIENTS, NEW n \in 1..COUNT[c]
    PROVE  [node_id |-> c, message |-> n] \in LOGS
BY LogsAssumption DEF ClientLogs

\* A request for a log says who sent it and which of its logs it is.
LEMMA RequestFacts ==
    ASSUME NEW request, LogData(request) \in LOGS
    PROVE  /\ request.from \in CLIENTS
           /\ request.message \in 1..COUNT[request.from]
           /\ COUNT[request.from] \in Nat
           /\ request.message \in Nat \ {0}
           /\ request # NoRequest
           /\ LogData(request) # LogData(NoRequest)
<1>1. LogData(request).node_id = request.from /\ LogData(request).message = request.message
    BY DEF LogData
<1>2. /\ request.from \in CLIENTS
      /\ request.message \in 1..COUNT[request.from]
      /\ COUNT[request.from] \in Nat
    BY <1>1, LogFacts
<1>3. request.message # 0
    BY <1>2
<1>4. NoRequest.message = 0 /\ LogData(NoRequest).message = 0
    BY DEF NoRequest, LogData
<1> QED
    BY <1>1, <1>2, <1>3, <1>4

\* The library's bounded sequences are the sequences within the bound.
LEMMA BoundedFacts ==
    ASSUME NEW S, NEW n \in Nat, NEW s
    PROVE  s \in BoundedSeq(S, n) <=> s \in Seq(S) /\ Len(s) <= n
BY DEF BoundedSeq, SeqOf

\* What a result adds to the answers of one client.
LEMMA ConcludeFacts ==
    ASSUME answer \in [CLIENTS -> Seq(Results)],
           NEW c \in CLIENTS, NEW result \in Results, Conclude(c, result)
    PROVE  /\ answer' \in [CLIENTS -> Seq(Results)]
           /\ \A d \in CLIENTS \ {c} : answer'[d] = answer[d]
           /\ Len(answer[c]) \in Nat
           /\ Len(answer'[c]) = Len(answer[c]) + 1
           /\ DOMAIN answer[c] = 1..Len(answer[c])
           /\ DOMAIN answer'[c] = 1..(Len(answer[c]) + 1)
           /\ \A n \in 1..Len(answer[c]) : answer'[c][n] = answer[c][n]
           /\ answer'[c][Len(answer[c]) + 1] = result
<1>1. answer' = [answer EXCEPT ![c] = Append(answer[c], result)]
    BY DEF Conclude
<1> DEFINE longer == Append(answer[c], result)
<1>2. answer'[c] = longer /\ \A d \in CLIENTS \ {c} : answer'[d] = answer[d]
    BY <1>1
<1>3. answer[c] \in Seq(Results)
    OBVIOUS
<1>4. /\ longer \in Seq(Results)
      /\ Len(longer) = Len(answer[c]) + 1
      /\ \A n \in 1..Len(answer[c]) : longer[n] = answer[c][n]
      /\ longer[Len(answer[c]) + 1] = result
    BY <1>3
<1>5. Len(answer[c]) \in Nat /\ DOMAIN answer[c] = 1..Len(answer[c])
    BY <1>3
<1>6. DOMAIN longer = 1..(Len(answer[c]) + 1)
    BY <1>4
<1>7. answer' \in [CLIENTS -> Seq(Results)]
    BY <1>1, <1>4
<1> HIDE DEF longer
<1> QED
    BY <1>2, <1>4, <1>5, <1>6, <1>7

\* A client that gives up leaves its requests where they are.
LEMMA AbandonLogs ==
    ASSUME NEW q, IsSeq(q), NEW c,
           \A n \in DOMAIN q : DOMAIN q[n] = DOMAIN NoRequest /\ q[n].live \in BOOLEAN
    PROVE  /\ IsSeq(Abandon(q, c))
           /\ Len(Abandon(q, c)) = Len(q)
           /\ DOMAIN Abandon(q, c) = DOMAIN q
           /\ \A n \in DOMAIN q : /\ DOMAIN Abandon(q, c)[n] = DOMAIN NoRequest
                                  /\ Abandon(q, c)[n].from = q[n].from
                                  /\ Abandon(q, c)[n].message = q[n].message
                                  /\ Abandon(q, c)[n].live \in BOOLEAN
                                  /\ Abandon(q, c)[n].live <=> q[n].live /\ q[n].from # c
<1> DEFINE a == Abandon(q, c)
<1>1. Len(q) \in Nat /\ DOMAIN q = 1..Len(q)
    BY SeqFacts
<1>2. a = [n \in 1..Len(q) |-> a[n]]
    BY <1>1 DEF Abandon
<1>3. ASSUME NEW n \in DOMAIN q
      PROVE  /\ DOMAIN a[n] = DOMAIN NoRequest
             /\ a[n].from = q[n].from
             /\ a[n].message = q[n].message
             /\ a[n].live \in BOOLEAN
             /\ a[n].live <=> q[n].live /\ q[n].from # c
    <2>1. a[n] = IF q[n].from = c THEN [q[n] EXCEPT !.live = FALSE] ELSE q[n]
        BY <1>3 DEF Abandon
    <2>2. DOMAIN q[n] = {"from", "message", "live"} /\ q[n].live \in BOOLEAN
        BY <1>3 DEF NoRequest
    <2> HIDE DEF a
    <2> QED
        BY <2>1, <2>2 DEF NoRequest
<1>4. IsSeq(a) /\ Len(a) = Len(q)
    <2> HIDE DEF a
    <2> QED
        BY <1>1, <1>2, FunctionIsSeq
<1>5. DOMAIN a = DOMAIN q
    BY DEF Abandon
<1> QED
    BY <1>3, <1>4, <1>5

-----------------------------------------------------------------------------
(* The inductive invariant, one lemma per step that a client notices.      *)

\* What the invariant says of queue, request and answers, ready for use.
LEMMA ClientFacts ==
    ASSUME ClientInv
    PROVE  /\ IsSeq(log_inbox)
           /\ Len(log_inbox) \in Nat
           /\ Len(log_inbox) <= SOCKET_BACKLOG
           /\ DOMAIN log_inbox = 1..Len(log_inbox)
           /\ \A n \in DOMAIN log_inbox :
                 /\ LogData(log_inbox[n]) \in LOGS
                 /\ log_inbox[n].from \in CLIENTS
                 /\ log_inbox[n].message \in Nat \ {0}
           /\ step # "accept" =>
                 /\ log_request # NoRequest
                 /\ LogData(log_request) \in LOGS
                 /\ log_request.from \in CLIENTS
                 /\ log_request.message \in Nat \ {0}
           /\ step = "accept" => log_request = NoRequest
           /\ answer \in [CLIENTS -> Seq(Results)]
           /\ \A c \in CLIENTS : /\ Len(answer[c]) \in Nat
                                 /\ Len(answer[c]) <= COUNT[c]
                                 /\ DOMAIN answer[c] = 1..Len(answer[c])
<1>1. ClientTypeOK /\ OpenLogsInv
    BY DEF ClientInv
<1>2. /\ IsSeq(log_inbox)
      /\ Len(log_inbox) \in Nat
      /\ Len(log_inbox) <= SOCKET_BACKLOG
      /\ DOMAIN log_inbox = 1..Len(log_inbox)
    BY <1>1, SeqFacts DEF ClientTypeOK
<1>3. ASSUME NEW n \in DOMAIN log_inbox
      PROVE  /\ LogData(log_inbox[n]) \in LOGS
             /\ log_inbox[n].from \in CLIENTS
             /\ log_inbox[n].message \in Nat \ {0}
    <2>1. LogData(log_inbox[n]) \in LOGS
        BY <1>1, <1>3 DEF ClientTypeOK, Range
    <2> QED
        BY <2>1, RequestFacts
<1>4. step # "accept" => log_request # NoRequest /\ LogData(log_request) \in LOGS
    BY <1>1 DEF ClientTypeOK
<1>5. step # "accept" => log_request.from \in CLIENTS /\ log_request.message \in Nat \ {0}
    BY <1>4, RequestFacts
<1>6. answer \in [CLIENTS -> Seq(Results)]
    BY <1>1 DEF OpenLogsInv, Results
<1>7. ASSUME NEW c \in CLIENTS
      PROVE  Len(answer[c]) \in Nat /\ Len(answer[c]) <= COUNT[c] /\ DOMAIN answer[c] = 1..Len(answer[c])
    <2>1. answer[c] \in Seq(Results)
        BY <1>6
    <2>2. COUNT[c] \in Nat
        BY ClientAssumption
    <2>3. Len(answer[c]) <= COUNT[c]
        BY <1>1, <2>2, BoundedFacts DEF ClientTypeOK
    <2> QED
        BY <2>1, <2>3
<1> QED
    BY <1>1, <1>2, <1>3, <1>4, <1>5, <1>6, <1>7 DEF ClientTypeOK

\* The log being handled joins the chain, after all other logs of its client.
LEMMA AppendCandidateClients ==
    ASSUME TypeOK, ClientInv, AppendCandidate, UNCHANGED clientVars
    PROVE  ClientInv'
<1>1. /\ step = "propose" /\ step' = "commit"
      /\ candidate' = AddCommitProof(candidate, acks)
      /\ producer_chain' = Append(producer_chain, candidate')
      /\ UNCHANGED <<log_inbox, log_request, answer>>
    BY DEF AppendCandidate, clientVars
<1>2. /\ log_request # NoRequest
      /\ LogData(log_request) \in LOGS
      /\ candidate.log_data = LogData(log_request)
      /\ IsOpen(log_request)
    BY <1>1, ClientFacts DEF ClientInv, OpenLogsInv
<1>3. candidate'.log_data = LogData(log_request)
    <2>1. IsBlock(candidate)
        BY DEF TypeOK, ProducerTypeOK
    <2> QED
        BY <1>1, <1>2, <2>1 DEF AddCommitProof, IsBlock, BlockFields
<1>4. IsSeq(producer_chain) /\ Len(producer_chain) \in Nat
      /\ DOMAIN producer_chain = 1..Len(producer_chain)
    BY SeqFacts DEF TypeOK, ProducerTypeOK, IsChain
<1>5. /\ DOMAIN producer_chain' = 1..(Len(producer_chain) + 1)
      /\ \A n \in DOMAIN producer_chain : producer_chain'[n] = producer_chain[n]
      /\ producer_chain'[Len(producer_chain) + 1].log_data = LogData(log_request)
    BY <1>1, <1>3, <1>4, AppendFacts
<1>6. \A n \in DOMAIN producer_chain' :
         n \in DOMAIN producer_chain \/ n = Len(producer_chain) + 1
    BY <1>4, <1>5
<1>7. ClientTypeOK'
    BY <1>1, <1>2 DEF ClientInv, ClientTypeOK
<1>8. OpenLogsInv'
    BY <1>1, <1>3 DEF ClientInv, OpenLogsInv, IsOpen
<1>9. CommittedLogsInv'
    BY <1>1, <1>2, <1>5, <1>6 DEF ClientInv, CommittedLogsInv
<1>10. QueueOrderInv'
    BY <1>1, <1>5, <1>6 DEF ClientInv, QueueOrderInv
<1>11. AnsweredByChain'
    <2> SUFFICES ASSUME NEW c \in CLIENTS, NEW n \in DOMAIN answer[c]
                 PROVE  /\ answer[c][n] = "OK" => Positions(producer_chain', c, n) # {}
                        /\ answer[c][n] = "ERROR" => Positions(producer_chain', c, n) = {}
        BY <1>1 DEF AnsweredByChain
    <2>1. answer[c][n] = "OK" => Positions(producer_chain', c, n) # {}
        BY <1>4, <1>5 DEF ClientInv, AnsweredByChain, Positions
    <2>2. ASSUME answer[c][n] = "ERROR"
          PROVE  LogData(log_request) # [node_id |-> c, message |-> n]
        <3>1. SUFFICES ASSUME log_request.from = c, log_request.message = n
                       PROVE  FALSE
            BY DEF LogData
        <3>2. DOMAIN answer[c] = 1..Len(answer[c]) /\ Len(answer[c]) \in Nat
            BY ClientFacts
        <3> QED
            BY <1>2, <2>2, <3>1, <3>2 DEF IsOpen
    <2>3. answer[c][n] = "ERROR" => Positions(producer_chain', c, n) = {}
        BY <1>5, <1>6, <2>2 DEF ClientInv, AnsweredByChain, Positions
    <2> QED
        BY <2>1, <2>3
<1>12. LogsKeepClientOrder'
    <2> SUFFICES ASSUME NEW m \in DOMAIN producer_chain', NEW n \in DOMAIN producer_chain', m < n
                 PROVE  Precedes(producer_chain'[m].log_data, producer_chain'[n].log_data)
        BY DEF LogsKeepClientOrder, Precedes
    <2>1. m \in DOMAIN producer_chain
        BY <1>4, <1>5
    <2>2. CASE n \in DOMAIN producer_chain
        BY <1>5, <2>1, <2>2 DEF ClientInv, LogsKeepClientOrder, Precedes
    <2>3. CASE n = Len(producer_chain) + 1
        BY <1>1, <1>5, <2>1, <2>3 DEF ClientInv, QueueOrderInv
    <2> QED
        BY <1>6, <2>2, <2>3
<1> QED
    BY <1>7, <1>8, <1>9, <1>10, <1>11, <1>12 DEF ClientInv

\* No block contains the log of no request.
LEMMA NoLog ==
    ASSUME NEW log \in LOGS
    PROVE  log # LogData(NoRequest)
<1>1. log.message # 0
    BY LogFacts
<1> QED
    BY <1>1 DEF LogData, NoRequest

\* What an answer to an open log leaves of the invariant: it is recorded, and
\* the other open logs stay open.
LEMMA ConcludeInv ==
    ASSUME ClientInv, NEW request, IsOpen(request), request.live, LogData(request) \in LOGS,
           NEW result \in Results, Conclude(request.from, result),
           result = "OK" => Positions(producer_chain, request.from, request.message) # {},
           result = "ERROR" => Positions(producer_chain, request.from, request.message) = {}
    PROVE  /\ answer' \in [CLIENTS -> Seq(Results)]
           /\ \A c \in CLIENTS : answer'[c] \in BoundedSeq(Results, COUNT[c])
           /\ \A c \in CLIENTS : \A n \in DOMAIN answer[c] :
                 n \in DOMAIN answer'[c] /\ answer'[c][n] = answer[c][n]
           /\ request.message \in DOMAIN answer'[request.from]
           /\ answer'[request.from][request.message] = result
           /\ \A c \in CLIENTS \ {request.from} : answer'[c] = answer[c]
           /\ \A c \in CLIENTS : \A n \in DOMAIN answer'[c] :
                 /\ answer'[c][n] = "OK" => Positions(producer_chain, c, n) # {}
                 /\ answer'[c][n] = "ERROR" => Positions(producer_chain, c, n) = {}
<1> DEFINE r == request.from
<1>1. /\ r \in CLIENTS
      /\ request.message \in 1..COUNT[r]
      /\ COUNT[r] \in Nat
    BY RequestFacts
<1>2. request.message = Len(answer[r]) + 1
    BY DEF IsOpen
<1>3. /\ answer \in [CLIENTS -> Seq(Results)]
      /\ \A c \in CLIENTS : /\ Len(answer[c]) \in Nat
                            /\ Len(answer[c]) <= COUNT[c]
                            /\ DOMAIN answer[c] = 1..Len(answer[c])
    BY ClientFacts
<1>4. /\ answer' \in [CLIENTS -> Seq(Results)]
      /\ \A c \in CLIENTS \ {r} : answer'[c] = answer[c]
      /\ Len(answer'[r]) = Len(answer[r]) + 1
      /\ DOMAIN answer'[r] = 1..(Len(answer[r]) + 1)
      /\ \A n \in 1..Len(answer[r]) : answer'[r][n] = answer[r][n]
      /\ answer'[r][Len(answer[r]) + 1] = result
    BY <1>1, <1>3, ConcludeFacts
<1> HIDE DEF r
<1>5. ASSUME NEW c \in CLIENTS
      PROVE  answer'[c] \in BoundedSeq(Results, COUNT[c])
    <2>1. COUNT[c] \in Nat /\ answer'[c] \in Seq(Results)
        BY <1>4, ClientAssumption
    <2>2. Len(answer'[c]) <= COUNT[c]
        <3>1. CASE c = r
            BY <1>1, <1>2, <1>4, <3>1
        <3>2. CASE c # r
            BY <1>3, <1>4, <3>2
        <3> QED
            BY <3>1, <3>2
    <2> QED
        BY <2>1, <2>2, BoundedFacts
<1>6. ASSUME NEW c \in CLIENTS, NEW n \in DOMAIN answer[c]
      PROVE  n \in DOMAIN answer'[c] /\ answer'[c][n] = answer[c][n]
    <2>1. CASE c = r
        BY <1>3, <1>4, <2>1
    <2>2. CASE c # r
        BY <1>4, <2>2
    <2> QED
        BY <2>1, <2>2
<1>7. request.message \in DOMAIN answer'[r] /\ answer'[r][request.message] = result
    BY <1>1, <1>2, <1>3, <1>4
<1>8. ASSUME NEW c \in CLIENTS, NEW n \in DOMAIN answer'[c]
      PROVE  /\ answer'[c][n] = "OK" => Positions(producer_chain, c, n) # {}
             /\ answer'[c][n] = "ERROR" => Positions(producer_chain, c, n) = {}
    <2>1. CASE n \in DOMAIN answer[c]
        BY <1>6, <2>1 DEF ClientInv, AnsweredByChain
    <2>2. CASE n \notin DOMAIN answer[c]
        <3>1. c = r /\ n = request.message
            BY <1>1, <1>2, <1>3, <1>4, <1>8, <2>2
        <3> QED
            BY <1>7, <3>1 DEF r
    <2> QED
        BY <2>1, <2>2
<1> QED
    BY <1>4, <1>5, <1>6, <1>7, <1>8 DEF r

\* A request that nobody answers stays open.
LEMMA StaysOpen ==
    ASSUME NEW request, IsOpen(request), LogData(request) \in LOGS,
           UNCHANGED answer
           \/ /\ ~request.live
              /\ \A c \in CLIENTS : \A n \in DOMAIN answer[c] :
                    n \in DOMAIN answer'[c] /\ answer'[c][n] = answer[c][n]
           \/ answer'[request.from] = answer[request.from]
    PROVE  IsOpen(request)'
<1>1. request.from \in CLIENTS
    BY RequestFacts
<1> QED
    BY <1>1 DEF IsOpen

\* The oldest request leaves the queue.
LEMMA QueueShifts ==
    ASSUME ClientInv, log_inbox # <<>>, log_inbox' = Tail(log_inbox)
    PROVE  /\ IsSeq(log_inbox') /\ Len(log_inbox') <= SOCKET_BACKLOG
           /\ Head(log_inbox) = log_inbox[1]
           /\ 1 \in DOMAIN log_inbox
           /\ \A n \in DOMAIN log_inbox' :
                 /\ n + 1 \in DOMAIN log_inbox
                 /\ log_inbox'[n] = log_inbox[n + 1]
                 /\ n \in Nat
                 /\ 1 < n + 1
<1>1. /\ IsSeq(log_inbox)
      /\ Len(log_inbox) \in Nat
      /\ Len(log_inbox) <= SOCKET_BACKLOG
      /\ DOMAIN log_inbox = 1..Len(log_inbox)
    BY ClientFacts
<1>2. /\ IsSeq(log_inbox')
      /\ Len(log_inbox') = Len(log_inbox) - 1
      /\ DOMAIN log_inbox' = 1..(Len(log_inbox) - 1)
      /\ \A n \in 1..(Len(log_inbox) - 1) : log_inbox'[n] = log_inbox[n + 1]
      /\ Head(log_inbox) = log_inbox[1]
      /\ 1 \in DOMAIN log_inbox
    BY <1>1, TailFacts
<1>3. Len(log_inbox') <= SOCKET_BACKLOG
    BY <1>1, <1>2, NetworkAssumption
<1> QED
    BY <1>1, <1>2, <1>3

\* The producer takes the oldest request from the queue and builds its block.
LEMMA AcceptClients ==
    ASSUME ClientInv, AcceptOldestLog, AcceptLog(LogData(log_request'))
    PROVE  ClientInv'
<1>1. /\ log_inbox # <<>>
      /\ log_request' = Head(log_inbox)
      /\ log_inbox' = Tail(log_inbox)
      /\ UNCHANGED <<answer, producer_chain>>
      /\ step = "accept" /\ step' = "propose"
      /\ candidate'.log_data = LogData(log_request')
    BY DEF AcceptOldestLog, AcceptLog, ReceiveLog, CreateBlock
<1>2. /\ IsSeq(log_inbox') /\ Len(log_inbox') <= SOCKET_BACKLOG
      /\ log_request' = log_inbox[1]
      /\ 1 \in DOMAIN log_inbox
      /\ \A n \in DOMAIN log_inbox' :
            /\ n + 1 \in DOMAIN log_inbox
            /\ log_inbox'[n] = log_inbox[n + 1]
            /\ n \in Nat
            /\ 1 < n + 1
    BY <1>1, QueueShifts
<1>3. /\ \A n \in DOMAIN log_inbox : LogData(log_inbox[n]) \in LOGS
      /\ log_request = NoRequest
    BY <1>1, ClientFacts
<1>4. LogData(log_request') \in LOGS /\ log_request' # NoRequest
    BY <1>2, <1>3, RequestFacts
<1>5. ClientTypeOK'
    <2>1. \A request \in Range(log_inbox') : LogData(request) \in LOGS
        BY <1>2, <1>3 DEF Range
    <2> QED
        BY <1>1, <1>2, <1>4, <2>1 DEF ClientInv, ClientTypeOK
<1>6. OpenLogsInv'
    <2>1. /\ answer \in [CLIENTS -> Seq({"OK", "ERROR", "FAILED"})]
          /\ \A n \in DOMAIN log_inbox : IsOpen(log_inbox[n])
        BY DEF ClientInv, OpenLogsInv
    <2> QED
        BY <1>1, <1>2, <2>1 DEF OpenLogsInv, IsOpen
<1>7. CommittedLogsInv'
    BY <1>1, <1>3, NoLog DEF ClientInv, CommittedLogsInv
<1>8. QueueOrderInv'
    <2>1. /\ \A m, n \in DOMAIN log_inbox :
                m < n => Precedes(LogData(log_inbox[m]), LogData(log_inbox[n]))
          /\ \A n \in DOMAIN log_inbox : \A m \in DOMAIN producer_chain :
                Precedes(producer_chain[m].log_data, LogData(log_inbox[n]))
        BY DEF ClientInv, QueueOrderInv
    <2>2. ASSUME NEW m \in DOMAIN log_inbox', NEW n \in DOMAIN log_inbox', m < n
          PROVE  Precedes(LogData(log_inbox'[m]), LogData(log_inbox'[n]))
        <3>1. m + 1 < n + 1
            BY <1>2, <2>2
        <3> QED
            BY <1>2, <2>1, <3>1
    <2>3. ASSUME NEW n \in DOMAIN log_inbox'
          PROVE  /\ Precedes(LogData(log_request'), LogData(log_inbox'[n]))
                 /\ \A m \in DOMAIN producer_chain :
                       Precedes(producer_chain[m].log_data, LogData(log_inbox'[n]))
        BY <1>2, <2>1
    <2>4. \A m \in DOMAIN producer_chain :
             Precedes(producer_chain[m].log_data, LogData(log_request'))
        BY <1>2, <2>1
    <2> QED
        BY <1>1, <2>2, <2>3, <2>4 DEF QueueOrderInv
<1>9. AnsweredByChain' /\ LogsKeepClientOrder'
    BY <1>1 DEF ClientInv, AnsweredByChain, LogsKeepClientOrder
<1> QED
    BY <1>5, <1>6, <1>7, <1>8, <1>9 DEF ClientInv

\* An old request is refused and leaves the queue.
LEMMA RejectClients ==
    ASSUME ClientInv, step = "accept", RejectExpiredLog, UNCHANGED vars
    PROVE  ClientInv'
<1>1. /\ log_inbox # <<>>
      /\ log_inbox' = Tail(log_inbox)
      /\ UNCHANGED <<log_request, producer_chain, step>>
    BY DEF RejectExpiredLog, vars, producerVars
<1>2. PICK r : r = log_inbox[1]
    OBVIOUS
<1>3. /\ IsSeq(log_inbox') /\ Len(log_inbox') <= SOCKET_BACKLOG
      /\ Head(log_inbox) = r
      /\ 1 \in DOMAIN log_inbox
      /\ \A n \in DOMAIN log_inbox' :
            /\ n + 1 \in DOMAIN log_inbox
            /\ log_inbox'[n] = log_inbox[n + 1]
            /\ n \in Nat
            /\ 1 < n + 1
    BY <1>1, <1>2, QueueShifts
<1>4. IF r.live THEN Conclude(r.from, "ERROR") ELSE UNCHANGED answer
    BY <1>3 DEF RejectExpiredLog
<1>5. /\ \A n \in DOMAIN log_inbox : LogData(log_inbox[n]) \in LOGS /\ IsOpen(log_inbox[n])
      /\ log_request = NoRequest
      /\ answer \in [CLIENTS -> Seq(Results)]
    BY ClientFacts DEF ClientInv, OpenLogsInv
<1>6. LogData(r) \in LOGS /\ IsOpen(r)
    BY <1>2, <1>3, <1>5
<1>7. /\ \A m, n \in DOMAIN log_inbox :
            m < n => Precedes(LogData(log_inbox[m]), LogData(log_inbox[n]))
      /\ \A n \in DOMAIN log_inbox : \A m \in DOMAIN producer_chain :
            Precedes(producer_chain[m].log_data, LogData(log_inbox[n]))
    BY DEF ClientInv, QueueOrderInv
<1>8. Positions(producer_chain, r.from, r.message) = {}
    <2> SUFFICES ASSUME NEW m \in DOMAIN producer_chain,
                        producer_chain[m].log_data = [node_id |-> r.from, message |-> r.message]
                 PROVE  FALSE
        BY DEF Positions
    <2>1. Precedes(LogData(r), LogData(r))
        BY <1>2, <1>3, <1>7 DEF LogData
    <2>2. r.message \in Nat
        BY <1>6, RequestFacts
    <2> QED
        BY <2>1, <2>2 DEF Precedes, LogData
<1>9. /\ answer' \in [CLIENTS -> Seq(Results)]
      /\ \A c \in CLIENTS : answer'[c] \in BoundedSeq(Results, COUNT[c])
      /\ \A c \in CLIENTS : \A n \in DOMAIN answer[c] :
            n \in DOMAIN answer'[c] /\ answer'[c][n] = answer[c][n]
      /\ \A c \in CLIENTS \ {r.from} : answer'[c] = answer[c]
      /\ \A c \in CLIENTS : \A n \in DOMAIN answer'[c] :
            /\ answer'[c][n] = "OK" => Positions(producer_chain, c, n) # {}
            /\ answer'[c][n] = "ERROR" => Positions(producer_chain, c, n) = {}
    <2>1. CASE r.live
        BY <1>4, <1>6, <1>8, <2>1, ConcludeInv DEF Results
    <2>2. CASE ~r.live
        BY <1>4, <1>5, <2>2 DEF ClientInv, ClientTypeOK, AnsweredByChain, Results
    <2> QED
        BY <1>6, <2>1, <2>2 DEF IsOpen
<1>10. ASSUME NEW n \in DOMAIN log_inbox', NEW other, other = log_inbox'[n]
       PROVE  IsOpen(other)'
    <2>1. other = log_inbox[n + 1] /\ n + 1 \in DOMAIN log_inbox
        BY <1>3, <1>10
    <2>2. LogData(other) \in LOGS /\ IsOpen(other)
        BY <1>5, <2>1
    <2>3. ASSUME r.live, other.from = r.from
          PROVE  ~other.live
        <3>1. r.message < other.message
            BY <1>2, <1>3, <1>7, <2>1, <2>3 DEF Precedes, LogData
        <3>2. r.message \in Nat /\ other.message \in Nat
            BY <1>6, <2>2, RequestFacts
        <3> QED
            BY <1>6, <2>2, <2>3, <3>1, <3>2 DEF IsOpen
    <2>4. other.from \in CLIENTS
        BY <2>2, RequestFacts
    <2>5. CASE ~r.live
        BY <1>4, <2>2, <2>5, StaysOpen
    <2>6. CASE r.live /\ other.from = r.from
        BY <1>9, <2>2, <2>3, <2>6, StaysOpen
    <2>7. CASE other.from # r.from
        BY <1>9, <2>2, <2>4, <2>7, StaysOpen
    <2> QED
        BY <1>6, <2>5, <2>6, <2>7 DEF IsOpen
<1>11. ClientTypeOK'
    <2>1. \A request \in Range(log_inbox') : LogData(request) \in LOGS
        BY <1>3, <1>5 DEF Range
    <2> QED
        BY <1>1, <1>3, <1>9, <2>1 DEF ClientInv, ClientTypeOK, Results
<1>12. OpenLogsInv'
    <2>1. \A n \in DOMAIN log_inbox' : IsOpen(log_inbox[n])'
        BY <1>10 DEF IsOpen
    <2> QED
        BY <1>1, <1>5, <1>9, <2>1 DEF ClientInv, ClientTypeOK, OpenLogsInv, Results
<1>13. CommittedLogsInv'
    <2>1. ASSUME NEW n \in DOMAIN producer_chain
          PROVE  /\ producer_chain[n].log_data \in LOGS
                 /\ producer_chain[n].log_data.message \in
                       DOMAIN answer'[producer_chain[n].log_data.node_id]
        <3>1. PICK log : log = producer_chain[n].log_data
            OBVIOUS
        <3>2. log \in LOGS /\ log.message \in DOMAIN answer[log.node_id]
            BY <1>5, <3>1, NoLog DEF ClientInv, CommittedLogsInv
        <3>3. log.node_id \in CLIENTS
            BY <3>2, LogFacts
        <3> QED
            BY <1>9, <3>1, <3>2, <3>3
    <2> QED
        BY <1>1, <2>1 DEF CommittedLogsInv
<1>14. QueueOrderInv'
    <2>1. ASSUME NEW m \in DOMAIN log_inbox', NEW n \in DOMAIN log_inbox', m < n
          PROVE  Precedes(LogData(log_inbox'[m]), LogData(log_inbox'[n]))
        <3>1. m + 1 < n + 1
            BY <1>3, <2>1
        <3> QED
            BY <1>3, <1>7, <3>1
    <2>2. ASSUME NEW n \in DOMAIN log_inbox'
          PROVE  /\ Precedes(LogData(log_request), LogData(log_inbox'[n]))
                 /\ \A m \in DOMAIN producer_chain :
                       Precedes(producer_chain[m].log_data, LogData(log_inbox'[n]))
        BY <1>3, <1>7 DEF ClientInv, QueueOrderInv
    <2> QED
        BY <1>1, <2>1, <2>2 DEF QueueOrderInv
<1>15. AnsweredByChain' /\ LogsKeepClientOrder'
    BY <1>1, <1>9 DEF ClientInv, AnsweredByChain, LogsKeepClientOrder
<1> QED
    BY <1>11, <1>12, <1>13, <1>14, <1>15 DEF ClientInv

\* The producer answers the log it has handled.
LEMMA AnswerClients ==
    ASSUME ClientInv, step # "accept", step' = "accept", UNCHANGED producer_chain,
           NEW status \in Results, AnswerLog(status),
           status = "OK" => Positions(producer_chain, log_request.from, log_request.message) # {},
           status = "ERROR" => Positions(producer_chain, log_request.from, log_request.message) = {}
    PROVE  ClientInv'
<1>1. PICK r : r = log_request
    OBVIOUS
<1>2. /\ UNCHANGED <<log_inbox, producer_chain>>
      /\ log_request' = NoRequest
      /\ IF r.live THEN Conclude(r.from, status) ELSE UNCHANGED answer
    BY <1>1 DEF AnswerLog
<1>3. /\ \A n \in DOMAIN log_inbox : /\ LogData(log_inbox[n]) \in LOGS
                                     /\ log_inbox[n].message \in Nat \ {0}
                                     /\ IsOpen(log_inbox[n])
      /\ LogData(r) \in LOGS /\ IsOpen(r)
      /\ answer \in [CLIENTS -> Seq(Results)]
    BY <1>1, ClientFacts DEF ClientInv, OpenLogsInv
<1>4. /\ \A m, n \in DOMAIN log_inbox :
            m < n => Precedes(LogData(log_inbox[m]), LogData(log_inbox[n]))
      /\ \A n \in DOMAIN log_inbox :
            /\ Precedes(LogData(r), LogData(log_inbox[n]))
            /\ \A m \in DOMAIN producer_chain :
                  Precedes(producer_chain[m].log_data, LogData(log_inbox[n]))
    BY <1>1 DEF ClientInv, QueueOrderInv
<1>5. /\ answer' \in [CLIENTS -> Seq(Results)]
      /\ \A c \in CLIENTS : answer'[c] \in BoundedSeq(Results, COUNT[c])
      /\ \A c \in CLIENTS : \A n \in DOMAIN answer[c] :
            n \in DOMAIN answer'[c] /\ answer'[c][n] = answer[c][n]
      /\ r.message \in DOMAIN answer'[r.from]
      /\ \A c \in CLIENTS \ {r.from} : answer'[c] = answer[c]
      /\ \A c \in CLIENTS : \A n \in DOMAIN answer'[c] :
            /\ answer'[c][n] = "OK" => Positions(producer_chain, c, n) # {}
            /\ answer'[c][n] = "ERROR" => Positions(producer_chain, c, n) = {}
    <2>1. CASE r.live
        BY <1>1, <1>2, <1>3, <2>1, ConcludeInv
    <2>2. CASE ~r.live
        BY <1>2, <1>3, <2>2 DEF ClientInv, ClientTypeOK, AnsweredByChain, Results, IsOpen
    <2> QED
        BY <1>3, <2>1, <2>2 DEF IsOpen
<1>6. ASSUME NEW n \in DOMAIN log_inbox, NEW other, other = log_inbox[n]
      PROVE  IsOpen(other)'
    <2>1. LogData(other) \in LOGS /\ IsOpen(other)
        BY <1>3, <1>6
    <2>2. ASSUME r.live, other.from = r.from
          PROVE  ~other.live
        <3>1. r.message < other.message
            BY <1>4, <1>6, <2>2 DEF Precedes, LogData
        <3>2. r.message \in Nat /\ other.message \in Nat
            BY <1>3, <2>1, RequestFacts
        <3> QED
            BY <1>3, <2>1, <2>2, <3>1, <3>2 DEF IsOpen
    <2>3. other.from \in CLIENTS
        BY <2>1, RequestFacts
    <2>4. CASE ~r.live
        BY <1>2, <2>1, <2>4, StaysOpen
    <2>5. CASE r.live /\ other.from = r.from
        BY <1>5, <2>1, <2>2, <2>5, StaysOpen
    <2>6. CASE other.from # r.from
        BY <1>5, <2>1, <2>3, <2>6, StaysOpen
    <2> QED
        BY <1>3, <2>4, <2>5, <2>6 DEF IsOpen
<1>7. ClientTypeOK'
    BY <1>2, <1>5 DEF ClientInv, ClientTypeOK, Results
<1>8. OpenLogsInv'
    <2>1. \A n \in DOMAIN log_inbox' : IsOpen(log_inbox[n])'
        BY <1>2, <1>6 DEF IsOpen
    <2> QED
        BY <1>2, <1>5, <2>1 DEF OpenLogsInv, Results
<1>9. CommittedLogsInv'
    <2>1. ASSUME NEW n \in DOMAIN producer_chain
          PROVE  /\ producer_chain[n].log_data \in LOGS
                 /\ producer_chain[n].log_data.message \in
                       DOMAIN answer'[producer_chain[n].log_data.node_id]
        <3>1. PICK log : log = producer_chain[n].log_data
            OBVIOUS
        <3>2. log \in LOGS /\ (log = LogData(r) \/ log.message \in DOMAIN answer[log.node_id])
            BY <1>1, <3>1 DEF ClientInv, CommittedLogsInv
        <3>3. log.node_id \in CLIENTS
            BY <3>2, LogFacts
        <3>4. log = LogData(r) => log.node_id = r.from /\ log.message = r.message
            BY DEF LogData
        <3> QED
            BY <1>5, <3>1, <3>2, <3>3, <3>4
    <2> QED
        BY <1>2, <2>1 DEF CommittedLogsInv
<1>10. QueueOrderInv'
    <2>1. ASSUME NEW n \in DOMAIN log_inbox
          PROVE  Precedes(LogData(NoRequest), LogData(log_inbox[n]))
        <3>1. LogData(NoRequest).message = 0
            BY DEF LogData, NoRequest
        <3>2. log_inbox[n].message \in Nat \ {0}
            BY <1>3
        <3>3. LogData(log_inbox[n]).message > 0
            BY <3>2 DEF LogData
        <3> QED
            BY <3>1, <3>3 DEF Precedes
    <2> QED
        BY <1>2, <1>4, <2>1 DEF QueueOrderInv
<1>11. AnsweredByChain' /\ LogsKeepClientOrder'
    BY <1>2, <1>5 DEF ClientInv, AnsweredByChain, LogsKeepClientOrder
<1> QED
    BY <1>7, <1>8, <1>9, <1>10, <1>11 DEF ClientInv

\* ERROR is true: the log is in no block of the chain.
LEMMA AbortClients ==
    ASSUME ClientInv, AbortCommit, AnswerLog("ERROR")
    PROVE  ClientInv'
<1>1. step = "propose" /\ step' = "accept" /\ UNCHANGED producer_chain
    BY DEF AbortCommit, AcceptNext
<1>2. Positions(producer_chain, log_request.from, log_request.message) = {}
    <2> SUFFICES ASSUME NEW m \in DOMAIN producer_chain,
                        producer_chain[m].log_data =
                            [node_id |-> log_request.from, message |-> log_request.message]
                 PROVE  FALSE
        BY DEF Positions
    <2>1. Precedes(LogData(log_request), LogData(log_request))
        BY <1>1 DEF ClientInv, QueueOrderInv, LogData
    <2>2. log_request.message \in Nat
        BY <1>1, ClientFacts
    <2> QED
        BY <2>1, <2>2 DEF Precedes, LogData
<1> QED
    BY <1>1, <1>2, AnswerClients DEF Results

\* OK is true: the candidate with the log is in the chain.
LEMMA FinishClients ==
    ASSUME TypeOK, ReplicationInv, ClientInv, FinishCommit, AnswerLog("OK")
    PROVE  ClientInv'
<1>1. step = "commit" /\ step' = "accept" /\ UNCHANGED producer_chain
    BY DEF FinishCommit, AcceptNext
<1>2. PICK n \in DOMAIN producer_chain : producer_chain[n] = candidate
    BY <1>1 DEF ReplicationInv, CandidateInv, Range
<1>3. producer_chain[n].log_data = LogData(log_request)
    BY <1>1, <1>2 DEF ClientInv, OpenLogsInv
<1>4. n \in Positions(producer_chain, log_request.from, log_request.message)
    BY <1>3 DEF Positions, LogData
<1> QED
    BY <1>1, <1>4, AnswerClients DEF Results

\* Of a client that waits for no answer, every log that is queued, handled or
\* committed was given up or answered.
LEMMA OlderLogs ==
    ASSUME ClientInv, NEW c \in CLIENTS, ~AwaitsAnswer(c), NEW request, request.from = c,
           request.message = Len(answer[c]) + 1
    PROVE  /\ \A n \in DOMAIN log_inbox : log_inbox[n].from = c => ~log_inbox[n].live
           /\ \A n \in DOMAIN log_inbox : Precedes(LogData(log_inbox[n]), LogData(request))
           /\ Precedes(LogData(log_request), LogData(request))
           /\ \A m \in DOMAIN producer_chain :
                 Precedes(producer_chain[m].log_data, LogData(request))
<1>1. Len(answer[c]) \in Nat /\ DOMAIN answer[c] = 1..Len(answer[c])
    BY ClientFacts
<1>2. ASSUME NEW other, IsOpen(other), ~other.live, other.from = c
      PROVE  other.message \in DOMAIN answer[c]
    BY <1>2 DEF IsOpen
<1>3. ASSUME NEW log, log.node_id = c => log.message \in DOMAIN answer[c]
      PROVE  Precedes(log, LogData(request))
    BY <1>1, <1>3 DEF Precedes, LogData
<1>4. ASSUME NEW n \in DOMAIN log_inbox
      PROVE  /\ log_inbox[n].from = c => ~log_inbox[n].live
             /\ Precedes(LogData(log_inbox[n]), LogData(request))
    <2>1. log_inbox[n].from = c => ~log_inbox[n].live
        BY <1>4 DEF AwaitsAnswer
    <2>2. IsOpen(log_inbox[n])
        BY <1>4 DEF ClientInv, OpenLogsInv
    <2>3. LogData(log_inbox[n]).node_id = c => LogData(log_inbox[n]).message \in DOMAIN answer[c]
        BY <1>2, <2>1, <2>2 DEF LogData
    <2> QED
        BY <1>3, <2>1, <2>3
<1>5. CASE log_request # NoRequest
    <2>1. IsOpen(log_request) /\ (log_request.from = c => ~log_request.live)
        BY <1>5 DEF ClientInv, OpenLogsInv, AwaitsAnswer
    <2>2. LogData(log_request).node_id = c => LogData(log_request).message \in DOMAIN answer[c]
        BY <1>2, <2>1 DEF LogData
    <2>3. ASSUME NEW m \in DOMAIN producer_chain
          PROVE  Precedes(producer_chain[m].log_data, LogData(request))
        BY <1>3, <2>2 DEF ClientInv, CommittedLogsInv
    <2> QED
        BY <1>3, <1>4, <2>2, <2>3
<1>6. CASE log_request = NoRequest
    <2>1. Precedes(LogData(log_request), LogData(request))
        <3>1. LogData(log_request).message = 0
            BY <1>6 DEF LogData, NoRequest
        <3>2. LogData(request).message > 0
            BY <1>1 DEF LogData
        <3> QED
            BY <3>1, <3>2 DEF Precedes
    <2>2. ASSUME NEW m \in DOMAIN producer_chain
          PROVE  Precedes(producer_chain[m].log_data, LogData(request))
        BY <1>3, <1>6, NoLog DEF ClientInv, CommittedLogsInv
    <2> QED
        BY <1>4, <2>1, <2>2
<1> QED
    BY <1>5, <1>6

\* A client sends its next log, or finds the queue full.
LEMMA SendLogClients ==
    ASSUME ClientInv, NEW c \in CLIENTS, SendLog(c), UNCHANGED vars
    PROVE  ClientInv'
<1>1. PICK r : r = [from |-> c, message |-> Len(answer[c]) + 1, live |-> TRUE]
    OBVIOUS
<1>2. /\ UNCHANGED <<log_request, producer_chain, step, candidate>>
      /\ Len(answer[c]) < COUNT[c]
      /\ ~AwaitsAnswer(c)
      /\ IF Len(log_inbox) < SOCKET_BACKLOG
         THEN log_inbox' = Append(log_inbox, r) /\ UNCHANGED answer
         ELSE Conclude(c, "FAILED") /\ UNCHANGED log_inbox
    BY <1>1 DEF SendLog, vars, producerVars
<1>3. /\ IsSeq(log_inbox)
      /\ Len(log_inbox) \in Nat
      /\ DOMAIN log_inbox = 1..Len(log_inbox)
      /\ \A n \in DOMAIN log_inbox : LogData(log_inbox[n]) \in LOGS /\ IsOpen(log_inbox[n])
      /\ answer \in [CLIENTS -> Seq(Results)]
      /\ Len(answer[c]) \in Nat
    BY ClientFacts DEF ClientInv, OpenLogsInv
<1>4. /\ r.from = c /\ r.message = Len(answer[c]) + 1 /\ r.live = TRUE
      /\ DOMAIN r = DOMAIN NoRequest
    BY <1>1 DEF NoRequest
<1>5. LogData(r) \in LOGS /\ IsOpen(r)
    <2>1. Len(answer[c]) + 1 \in 1..COUNT[c]
        BY <1>2, <1>3, ClientAssumption
    <2> QED
        BY <1>4, <2>1, NextLogIsLog DEF LogData, IsOpen
<1>6. /\ \A n \in DOMAIN log_inbox : log_inbox[n].from = c => ~log_inbox[n].live
      /\ \A n \in DOMAIN log_inbox : Precedes(LogData(log_inbox[n]), LogData(r))
      /\ Precedes(LogData(log_request), LogData(r))
      /\ \A m \in DOMAIN producer_chain : Precedes(producer_chain[m].log_data, LogData(r))
    BY <1>2, <1>4, OlderLogs
<1>7. CASE Len(log_inbox) < SOCKET_BACKLOG
    <2>1. /\ IsSeq(log_inbox')
          /\ Len(log_inbox') = Len(log_inbox) + 1
          /\ DOMAIN log_inbox' = 1..(Len(log_inbox) + 1)
          /\ \A n \in 1..Len(log_inbox) : log_inbox'[n] = log_inbox[n]
          /\ log_inbox'[Len(log_inbox) + 1] = r
          /\ UNCHANGED answer
        <3>1. log_inbox' = Append(log_inbox, r) /\ UNCHANGED answer
            BY <1>2, <1>7
        <3>2. IsSeq(log_inbox)
            BY <1>3
        <3> QED
            BY <3>1, <3>2, AppendFacts
    <2>2. Len(log_inbox') <= SOCKET_BACKLOG
        BY <1>3, <1>7, <2>1, NetworkAssumption
    <2>3. \A n \in DOMAIN log_inbox' :
             \/ n \in DOMAIN log_inbox /\ log_inbox'[n] = log_inbox[n]
             \/ n = Len(log_inbox) + 1 /\ log_inbox'[n] = r
        BY <1>3, <2>1
    <2>4. ClientTypeOK'
        <3>1. \A request \in Range(log_inbox') : LogData(request) \in LOGS
            BY <1>3, <1>5, <2>3 DEF Range
        <3> QED
            BY <1>2, <2>1, <2>2, <3>1 DEF ClientInv, ClientTypeOK
    <2>5. OpenLogsInv'
        <3>1. \A n \in DOMAIN log_inbox' : IsOpen(log_inbox[n])'
            BY <1>3, <1>5, <2>1, <2>3 DEF IsOpen
        <3> QED
            BY <1>2, <2>1, <3>1 DEF ClientInv, OpenLogsInv, IsOpen
    <2>6. CommittedLogsInv' /\ AnsweredByChain' /\ LogsKeepClientOrder'
        BY <1>2, <2>1 DEF ClientInv, CommittedLogsInv, AnsweredByChain, LogsKeepClientOrder
    <2>7. QueueOrderInv'
        <3>1. /\ \A m, n \in DOMAIN log_inbox :
                    m < n => Precedes(LogData(log_inbox[m]), LogData(log_inbox[n]))
              /\ \A n \in DOMAIN log_inbox :
                    /\ Precedes(LogData(log_request), LogData(log_inbox[n]))
                    /\ \A m \in DOMAIN producer_chain :
                          Precedes(producer_chain[m].log_data, LogData(log_inbox[n]))
            BY DEF ClientInv, QueueOrderInv
        <3>2. ASSUME NEW m \in DOMAIN log_inbox', NEW n \in DOMAIN log_inbox', m < n
              PROVE  Precedes(LogData(log_inbox'[m]), LogData(log_inbox'[n]))
            <4>1. m \in DOMAIN log_inbox /\ log_inbox'[m] = log_inbox[m]
                BY <1>3, <2>1, <3>2
            <4> QED
                BY <1>6, <2>3, <3>1, <3>2, <4>1
        <3>3. ASSUME NEW n \in DOMAIN log_inbox'
              PROVE  /\ Precedes(LogData(log_request), LogData(log_inbox'[n]))
                     /\ \A m \in DOMAIN producer_chain :
                           Precedes(producer_chain[m].log_data, LogData(log_inbox'[n]))
            BY <1>6, <2>3, <3>1
        <3>4. step = "propose" => \A m \in DOMAIN producer_chain :
                 Precedes(producer_chain[m].log_data, LogData(log_request))
            BY DEF ClientInv, QueueOrderInv
        <3> QED
            BY <1>2, <3>2, <3>3, <3>4 DEF QueueOrderInv
    <2> QED
        BY <2>4, <2>5, <2>6, <2>7 DEF ClientInv
<1>8. CASE ~(Len(log_inbox) < SOCKET_BACKLOG)
    <2>1. Conclude(r.from, "FAILED") /\ UNCHANGED log_inbox
        BY <1>2, <1>4, <1>8
    <2>2. /\ answer' \in [CLIENTS -> Seq(Results)]
          /\ \A d \in CLIENTS : answer'[d] \in BoundedSeq(Results, COUNT[d])
          /\ \A d \in CLIENTS : \A n \in DOMAIN answer[d] :
                n \in DOMAIN answer'[d] /\ answer'[d][n] = answer[d][n]
          /\ \A d \in CLIENTS \ {c} : answer'[d] = answer[d]
          /\ \A d \in CLIENTS : \A n \in DOMAIN answer'[d] :
                /\ answer'[d][n] = "OK" => Positions(producer_chain, d, n) # {}
                /\ answer'[d][n] = "ERROR" => Positions(producer_chain, d, n) = {}
        BY <1>4, <1>5, <2>1, ConcludeInv DEF Results
    <2>3. ASSUME NEW other, IsOpen(other), LogData(other) \in LOGS, other.from = c => ~other.live
          PROVE  IsOpen(other)'
        <3>1. other.from \in CLIENTS
            BY <2>3, RequestFacts
        <3>2. CASE other.from = c
            BY <2>2, <2>3, <3>2, StaysOpen
        <3>3. CASE other.from # c
            BY <2>2, <2>3, <3>1, <3>3, StaysOpen
        <3> QED
            BY <3>2, <3>3
    <2>4. ClientTypeOK'
        BY <1>2, <2>1, <2>2 DEF ClientInv, ClientTypeOK, Results
    <2>5. OpenLogsInv'
        <3>1. ASSUME NEW n \in DOMAIN log_inbox, NEW other, other = log_inbox[n]
              PROVE  IsOpen(other)'
            BY <1>3, <1>6, <2>3, <3>1
        <3>2. ASSUME log_request # NoRequest, NEW other, other = log_request
              PROVE  IsOpen(other)'
            BY <1>2, <2>3, <3>2 DEF ClientInv, ClientTypeOK, OpenLogsInv, AwaitsAnswer
        <3>3. \A n \in DOMAIN log_inbox' : IsOpen(log_inbox[n])'
            BY <2>1, <3>1 DEF IsOpen
        <3>4. log_request' # NoRequest => IsOpen(log_request)'
            BY <1>2, <3>2 DEF IsOpen
        <3> QED
            BY <1>2, <2>2, <3>3, <3>4 DEF ClientInv, OpenLogsInv, Results
    <2>6. CommittedLogsInv'
        <3>1. ASSUME NEW n \in DOMAIN producer_chain, NEW log, log = producer_chain[n].log_data
              PROVE  /\ log \in LOGS
                     /\ log = LogData(log_request) \/ log.message \in DOMAIN answer'[log.node_id]
            <4>1. /\ log \in LOGS
                  /\ log = LogData(log_request) \/ log.message \in DOMAIN answer[log.node_id]
                BY <3>1 DEF ClientInv, CommittedLogsInv
            <4> QED
                BY <2>2, <4>1, LogFacts
        <3> QED
            BY <1>2, <3>1 DEF CommittedLogsInv
    <2>7. QueueOrderInv' /\ LogsKeepClientOrder' /\ AnsweredByChain'
        BY <1>2, <2>1, <2>2
           DEF ClientInv, QueueOrderInv, LogsKeepClientOrder, AnsweredByChain
    <2> QED
        BY <2>4, <2>5, <2>6, <2>7 DEF ClientInv
<1> QED
    BY <1>7, <1>8

\* A client gives up, and takes its log for failed.
LEMMA GiveUpLogClients ==
    ASSUME ClientInv, NEW c \in CLIENTS, GiveUpLog(c), UNCHANGED vars
    PROVE  ClientInv'
<1>1. /\ UNCHANGED <<producer_chain, step, candidate>>
      /\ AwaitsAnswer(c)
      /\ log_inbox' = Abandon(log_inbox, c)
      /\ log_request' = IF log_request.from = c
                        THEN [log_request EXCEPT !.live = FALSE] ELSE log_request
      /\ Conclude(c, "FAILED")
    BY DEF GiveUpLog, vars, producerVars
<1>2. /\ IsSeq(log_inbox)
      /\ Len(log_inbox) <= SOCKET_BACKLOG
      /\ \A n \in DOMAIN log_inbox : LogData(log_inbox[n]) \in LOGS /\ IsOpen(log_inbox[n])
      /\ log_request # NoRequest => LogData(log_request) \in LOGS /\ IsOpen(log_request)
      /\ answer \in [CLIENTS -> Seq(Results)]
    BY ClientFacts DEF ClientInv, ClientTypeOK, OpenLogsInv
<1>3. PICK r : r.from = c /\ r.live /\ LogData(r) \in LOGS /\ IsOpen(r)
    <2>1. NoRequest.live = FALSE
        BY DEF NoRequest
    <2> QED
        BY <1>1, <1>2, <2>1 DEF AwaitsAnswer
<1>4. /\ answer' \in [CLIENTS -> Seq(Results)]
      /\ \A d \in CLIENTS : answer'[d] \in BoundedSeq(Results, COUNT[d])
      /\ \A d \in CLIENTS : \A n \in DOMAIN answer[d] :
            n \in DOMAIN answer'[d] /\ answer'[d][n] = answer[d][n]
      /\ r.message \in DOMAIN answer'[c]
      /\ answer'[c][r.message] = "FAILED"
      /\ \A d \in CLIENTS \ {c} : answer'[d] = answer[d]
      /\ \A d \in CLIENTS : \A n \in DOMAIN answer'[d] :
            /\ answer'[d][n] = "OK" => Positions(producer_chain, d, n) # {}
            /\ answer'[d][n] = "ERROR" => Positions(producer_chain, d, n) = {}
    BY <1>1, <1>3, ConcludeInv DEF Results
<1>5. /\ IsSeq(log_inbox')
      /\ Len(log_inbox') = Len(log_inbox)
      /\ DOMAIN log_inbox' = DOMAIN log_inbox
      /\ \A n \in DOMAIN log_inbox :
            /\ DOMAIN log_inbox'[n] = DOMAIN NoRequest
            /\ log_inbox'[n].from = log_inbox[n].from
            /\ log_inbox'[n].message = log_inbox[n].message
            /\ log_inbox'[n].live \in BOOLEAN
            /\ log_inbox'[n].live <=> log_inbox[n].live /\ log_inbox[n].from # c
    <2>1. \A n \in DOMAIN log_inbox :
             DOMAIN log_inbox[n] = DOMAIN NoRequest /\ log_inbox[n].live \in BOOLEAN
        BY <1>2 DEF IsOpen
    <2> QED
        BY <1>1, <1>2, <2>1, AbandonLogs
<1>6. \A n \in DOMAIN log_inbox : LogData(log_inbox'[n]) = LogData(log_inbox[n])
    BY <1>5 DEF LogData
<1>7. /\ log_request # NoRequest =>
            /\ log_request' # NoRequest
            /\ DOMAIN log_request' = DOMAIN NoRequest
            /\ log_request'.live \in BOOLEAN
            /\ log_request'.live <=> log_request.live /\ log_request.from # c
      /\ log_request'.from = log_request.from
      /\ log_request'.message = log_request.message
      /\ log_request = NoRequest => log_request' = NoRequest
    <2>1. DOMAIN log_request = {"from", "message", "live"}
        BY <1>2 DEF IsOpen, NoRequest
    <2>2. /\ log_request'.from = log_request.from
          /\ log_request'.message = log_request.message
        BY <1>1, <2>1
    <2>3. ASSUME log_request # NoRequest
          PROVE  /\ log_request' # NoRequest
                 /\ DOMAIN log_request' = DOMAIN NoRequest
                 /\ log_request'.live \in BOOLEAN
                 /\ log_request'.live <=> log_request.live /\ log_request.from # c
        <3>1. log_request.live \in BOOLEAN
            BY <1>2, <2>3 DEF IsOpen
        <3>2. log_request.message # 0
            BY <1>2, <2>3, RequestFacts
        <3>3. NoRequest.message = 0 /\ DOMAIN NoRequest = {"from", "message", "live"}
            BY DEF NoRequest
        <3> QED
            BY <1>1, <2>1, <2>2, <3>1, <3>2, <3>3
    <2>4. ASSUME log_request = NoRequest
          PROVE  log_request' = NoRequest
        <3>1. [NoRequest EXCEPT !.live = NoRequest.live] = NoRequest
            BY DEF NoRequest
        <3>2. NoRequest.live = FALSE
            BY DEF NoRequest
        <3> QED
            BY <1>1, <2>4, <3>1, <3>2
    <2> QED
        BY <2>2, <2>3, <2>4
<1>8. LogData(log_request') = LogData(log_request)
    BY <1>7 DEF LogData
\* Whatever was open is open, as one that was given up if it is of c.
<1>9. ASSUME NEW old, IsOpen(old), LogData(old) \in LOGS, NEW new,
             DOMAIN new = DOMAIN NoRequest, new.from = old.from, new.message = old.message,
             new.live \in BOOLEAN, new.live <=> old.live /\ old.from # c
      PROVE  IsOpen(new)'
    <2>1. old.from \in CLIENTS
        BY <1>9, RequestFacts
    <2>2. CASE old.from # c
        <3>1. answer'[old.from] = answer[old.from]
            BY <1>4, <2>1, <2>2
        <3> QED
            BY <1>9, <2>2, <3>1 DEF IsOpen
    <2>3. CASE old.from = c /\ old.live
        <3>1. old.message = r.message
            BY <1>3, <1>9, <2>3 DEF IsOpen
        <3> QED
            BY <1>4, <1>9, <2>3, <3>1 DEF IsOpen
    <2>4. CASE old.from = c /\ ~old.live
        BY <1>4, <1>9, <2>1, <2>4 DEF IsOpen
    <2> QED
        BY <2>2, <2>3, <2>4
<1>10. ClientTypeOK'
    <2>1. \A request \in Range(log_inbox') : LogData(request) \in LOGS
        BY <1>2, <1>5, <1>6 DEF Range
    <2> QED
        BY <1>1, <1>2, <1>4, <1>5, <1>7, <1>8, <2>1 DEF ClientInv, ClientTypeOK, Results
<1>11. OpenLogsInv'
    <2>1. ASSUME NEW n \in DOMAIN log_inbox, NEW new, new = log_inbox'[n]
          PROVE  IsOpen(new)'
        <3>1. PICK old : old = log_inbox[n]
            OBVIOUS
        <3> QED
            BY <1>2, <1>5, <1>9, <2>1, <3>1
    <2>2. ASSUME log_request # NoRequest, NEW new, new = log_request'
          PROVE  IsOpen(new)'
        <3>1. PICK old : old = log_request
            OBVIOUS
        <3> QED
            BY <1>2, <1>7, <1>9, <2>2, <3>1
    <2>3. \A n \in DOMAIN log_inbox' : IsOpen(log_inbox[n])'
        BY <1>5, <2>1 DEF IsOpen
    <2>4. log_request' # NoRequest => IsOpen(log_request)'
        BY <1>7, <2>2 DEF IsOpen
    <2> QED
        BY <1>1, <1>4, <1>8, <2>3, <2>4 DEF ClientInv, OpenLogsInv, Results
<1>12. CommittedLogsInv'
    <2>1. ASSUME NEW n \in DOMAIN producer_chain, NEW log, log = producer_chain[n].log_data
          PROVE  /\ log \in LOGS
                 /\ log = LogData(log_request) \/ log.message \in DOMAIN answer'[log.node_id]
        <3>1. /\ log \in LOGS
              /\ log = LogData(log_request) \/ log.message \in DOMAIN answer[log.node_id]
            BY <2>1 DEF ClientInv, CommittedLogsInv
        <3> QED
            BY <1>4, <3>1, LogFacts
    <2> QED
        BY <1>1, <1>8, <2>1 DEF CommittedLogsInv
<1>13. QueueOrderInv'
    BY <1>1, <1>5, <1>6, <1>8 DEF ClientInv, QueueOrderInv
<1>14. AnsweredByChain' /\ LogsKeepClientOrder'
    BY <1>1, <1>4 DEF ClientInv, AnsweredByChain, LogsKeepClientOrder
<1> QED
    BY <1>10, <1>11, <1>12, <1>13, <1>14 DEF ClientInv

-----------------------------------------------------------------------------
(* The composition.                                                        *)

\* Whatever happens between the validators, the clients do not notice.
LEMMA UnnoticedStep ==
    ASSUME ClientInv, UNCHANGED <<clientVars, producer_chain, step, candidate>>
    PROVE  ClientInv'
<1>1. UNCHANGED <<log_inbox, log_request, answer, producer_chain, step, candidate>>
    BY DEF clientVars
<1> QED
    BY <1>1 DEF ClientInv, ClientTypeOK, OpenLogsInv, IsOpen, CommittedLogsInv, QueueOrderInv,
                AnsweredByChain, LogsKeepClientOrder

\* Every step with clients is a step without them: the log that is accepted
\* is one of LOGS.
LEMMA ClientNextIsNext ==
    ASSUME ClientInv, [ClientNext]_clientReplicationVars
    PROVE  [Next]_vars
<1>1. CASE AcceptOldestLog /\ AcceptLog(LogData(log_request'))
    <2>1. log_request' = log_inbox[1] /\ 1 \in DOMAIN log_inbox
        BY <1>1, QueueShifts DEF AcceptOldestLog
    <2>2. LogData(log_request') \in LOGS
        BY <2>1, ClientFacts
    <2> QED
        BY <1>1, <2>2 DEF Next
<1>2. CASE (AbortCommit \/ FinishCommit) /\ UNCHANGED validatorVars
    BY <1>2 DEF HandleLog, Next
<1>3. CASE HandleLog
    BY <1>3 DEF Next
<1>4. CASE \/ \E v \in Validators : Serve(v) \/ Synchronise(v) \/ Environment(v)
           \/ \E r \in Callers : CallEnds(r)
    BY <1>4 DEF Next
<1>5. CASE UNCHANGED vars
    BY <1>5
<1> QED
    BY <1>1, <1>2, <1>3, <1>4, <1>5 DEF ClientNext, ServeLog, RunClient, clientReplicationVars

\* Every step with clients keeps the invariant of the clients.
LEMMA ClientNextInv ==
    ASSUME TypeOK, ReplicationInv, ClientInv, [ClientNext]_clientReplicationVars
    PROVE  ClientInv'
<1>1. CASE AcceptOldestLog /\ AcceptLog(LogData(log_request'))
    BY <1>1, AcceptClients
<1>2. CASE step = "accept" /\ RejectExpiredLog /\ UNCHANGED vars
    BY <1>2, RejectClients
<1>3. CASE HandleLog /\ step' # "accept" /\ UNCHANGED clientVars
    <2>1. CASE AppendCandidate
        BY <1>3, <2>1, AppendCandidateClients
    <2>2. CASE ~AppendCandidate
        <3>1. UNCHANGED <<producer_chain, step, candidate>>
            BY <1>3, <2>2 DEF HandleLog, ProposeBlock, CollectAck, AbortCommit, CommitBlock,
                              IgnoreCommitReply, FinishCommit, AcceptNext, producerVars
        <3> QED
            BY <1>3, <3>1, UnnoticedStep
    <2> QED
        BY <2>1, <2>2
<1>4. CASE AbortCommit /\ AnswerLog("ERROR")
    BY <1>4, AbortClients
<1>5. CASE FinishCommit /\ AnswerLog("OK")
    BY <1>5, FinishClients
<1>6. CASE \E c \in CLIENTS : RunClient(c)
    BY <1>6, SendLogClients, GiveUpLogClients DEF RunClient
<1>7. CASE /\ \/ \E v \in Validators : Serve(v) \/ Synchronise(v) \/ Environment(v)
              \/ \E r \in Callers : CallEnds(r)
           /\ UNCHANGED clientVars
    <2>1. UNCHANGED producerVars
        BY <1>7 DEF Serve, Synchronise, Environment, CallEnds
    <2> QED
        BY <1>7, <2>1, UnnoticedStep DEF producerVars
<1>8. CASE UNCHANGED clientReplicationVars
    BY <1>8, UnnoticedStep DEF clientReplicationVars, vars, producerVars
<1> QED
    BY <1>1, <1>2, <1>3, <1>4, <1>5, <1>6, <1>7, <1>8 DEF ClientNext, ServeLog

LEMMA InitClientInv == ClientInit => ClientInv
<1> SUFFICES ASSUME ClientInit
             PROVE  ClientInv
    OBVIOUS
<1>1. /\ log_inbox = <<>> /\ log_request = NoRequest
      /\ answer = [c \in CLIENTS |-> <<>>]
      /\ producer_chain = <<>> /\ step = "accept"
    BY DEF ClientInit, LogClientInit, Init, ProducerInit
<1>2. IsSeq(log_inbox) /\ Len(log_inbox) = 0 /\ DOMAIN log_inbox = {} /\ DOMAIN producer_chain = {}
    BY <1>1, EmptyIsSeq
<1>3. \A c \in CLIENTS : answer[c] = <<>> /\ DOMAIN answer[c] = {}
    BY <1>1, EmptyIsSeq
<1>4. answer \in [CLIENTS -> Seq(Results)]
    BY <1>1
<1>5. ClientTypeOK
    <2>1. ASSUME NEW c \in CLIENTS
          PROVE  answer[c] \in BoundedSeq(Results, COUNT[c])
        <3>1. COUNT[c] \in Nat /\ answer[c] \in Seq(Results) /\ Len(answer[c]) = 0
            BY <1>3, <1>4, ClientAssumption, EmptyIsSeq
        <3> QED
            BY <3>1, BoundedFacts
    <2>2. Len(log_inbox) <= SOCKET_BACKLOG
        BY <1>2, NetworkAssumption
    <2> QED
        BY <1>1, <1>2, <2>1, <2>2 DEF ClientTypeOK, Range, Results
<1>6. OpenLogsInv
    BY <1>1, <1>2, <1>4 DEF OpenLogsInv, Results
<1>7. CommittedLogsInv /\ QueueOrderInv /\ LogsKeepClientOrder
    BY <1>1, <1>2 DEF CommittedLogsInv, QueueOrderInv, LogsKeepClientOrder
<1>8. AnsweredByChain
    BY <1>3 DEF AnsweredByChain
<1> QED
    BY <1>5, <1>6, <1>7, <1>8 DEF ClientInv

\* Types and both inductive invariants at once: the step of a client is a
\* step of Spec only because of its invariant.
LEMMA ClientInduction ==
    ClientSteps => [](TypeOK /\ OneCallAtATime /\ ReplicationInv /\ ClientInv)
<1> DEFINE Inv == TypeOK /\ OneCallAtATime /\ ReplicationInv /\ ClientInv
<1>1. ClientInit => Inv
    BY InitType, InitCalls, InitInv, InitClientInv DEF ClientInit
<1>2. Inv /\ [ClientNext]_clientReplicationVars => Inv'
    <2> SUFFICES ASSUME Inv, [ClientNext]_clientReplicationVars
                 PROVE  Inv'
        OBVIOUS
    <2>1. [Next]_vars
        BY ClientNextIsNext
    <2>2. TypeOK'
        BY <2>1, NextType DEF NextWithRestarts
    <2>3. OneCallAtATime'
        BY <2>1, NextCalls DEF NextWithRestarts
    <2>4. ReplicationInv'
        BY <2>1, <2>2, NextInv
    <2> QED
        BY <2>2, <2>3, <2>4, ClientNextInv
<1> QED
    BY <1>1, <1>2, PTL DEF ClientSteps

\* The system with clients is the system of LogReplication: whatever is proved
\* of Spec holds of it too.  No fairness is needed for that.
THEOREM ClientsImplementSpec == ClientSteps => Spec
<1>1. ClientInit => Init
    BY DEF ClientInit
<1>2. ClientInv /\ [ClientNext]_clientReplicationVars => [Next]_vars
    BY ClientNextIsNext
<1> QED
    BY <1>1, <1>2, ClientInduction, PTL DEF ClientSteps, Spec

\* The inductive invariant of the clients.
THEOREM ClientInvHolds == ClientSteps => []ClientInv
BY ClientInduction, PTL

\* The accept queue stays within the backlog, a request is being handled
\* exactly outside "accept", and no client gets more answers than it has logs.
THEOREM ClientTypeCorrect == ClientSteps => []ClientTypeOK
<1>1. ClientInv => ClientTypeOK
    BY DEF ClientInv
<1> QED
    BY <1>1, ClientInvHolds, PTL

\* What one client sent is committed in the order it was sent, and once.
THEOREM LogsKeepClientOrderHolds == ClientSteps => []LogsKeepClientOrder
<1>1. ClientInv => LogsKeepClientOrder
    BY DEF ClientInv
<1> QED
    BY <1>1, ClientInvHolds, PTL

\* A chain file holds a log only where the producer's chain does.
LEMMA FilePositions ==
    ASSUME TypeOK, ChainsFollowProducer, NEW v \in Validators, NEW c, NEW n
    PROVE  /\ Positions(chain_file[v], c, n) \subseteq Positions(producer_chain, c, n)
           /\ \A m \in Positions(producer_chain, c, n) :
                 m <= Len(chain_file[v]) => m \in Positions(chain_file[v], c, n)
<1>1. /\ IsSeq(chain_file[v]) /\ IsSeq(producer_chain)
      /\ IsPrefix(chain_file[v], producer_chain)
    BY DEF TypeOK, ValidatorTypeOK, ProducerTypeOK, IsChain, ChainsFollowProducer
<1>2. /\ Len(chain_file[v]) \in Nat /\ DOMAIN chain_file[v] = 1..Len(chain_file[v])
      /\ Len(producer_chain) \in Nat /\ DOMAIN producer_chain = 1..Len(producer_chain)
      /\ Len(chain_file[v]) <= Len(producer_chain)
      /\ \A m \in 1..Len(chain_file[v]) : chain_file[v][m] = producer_chain[m]
    BY <1>1, SeqFacts, PrefixFacts
<1> QED
    BY <1>2 DEF Positions

\* OK means committed; ERROR means in no chain, in memory or stored, for good.
THEOREM AnswersAreTrueHolds == ClientSteps => []AnswersAreTrue
<1>1. TypeOK /\ ReplicationInv /\ ClientInv => AnswersAreTrue
    <2> SUFFICES ASSUME TypeOK, ReplicationInv, ClientInv,
                        NEW c \in CLIENTS, NEW n \in DOMAIN answer[c]
                 PROVE  /\ answer[c][n] = "OK" => Positions(producer_chain, c, n) # {}
                        /\ answer[c][n] = "ERROR" =>
                              /\ Positions(producer_chain, c, n) = {}
                              /\ \A v \in Validators : Positions(chain_file[v], c, n) = {}
        BY DEF AnswersAreTrue
    <2>1. \A v \in Validators :
             Positions(chain_file[v], c, n) \subseteq Positions(producer_chain, c, n)
        BY FilePositions DEF ReplicationInv
    <2> QED
        BY <2>1 DEF ClientInv, AnsweredByChain
<1> QED
    BY <1>1, ClientInduction, PTL

-----------------------------------------------------------------------------
(* An audit beside the clients.                                            *)

CheckIInv == TypeOK /\ OneCallAtATime /\ ReplicationInv /\ ClientInv

\* The audit changes nothing that the clients or the system notice.
LEMMA CheckSteps == CheckSpec => ClientSteps
<1>1. CheckInit => ClientInit
    BY DEF CheckInit
<1>2. [CheckNext]_checkVars => [ClientNext]_clientReplicationVars
    BY DEF CheckNext, checkVars, CheckNextFile, LoadNextFile, EndCheck, PrintVerdict,
           clientReplicationVars
<1> QED
    BY <1>1, <1>2, PTL DEF CheckSpec, ClientSteps

\* The sequences the audit deals with.
LEMMA CheckSeqs ==
    ASSUME TypeOK
    PROVE  /\ IsSeq(producer_chain)
           /\ Len(producer_chain) \in Nat
           /\ DOMAIN producer_chain = 1..Len(producer_chain)
           /\ \A v \in Validators : IsSeq(chain_file[v]) /\ Len(chain_file[v]) \in Nat
           /\ Len(VALIDATOR_IDS) \in Nat /\ DOMAIN VALIDATOR_IDS = 1..Len(VALIDATOR_IDS)
           /\ \A k \in 1..Len(VALIDATOR_IDS) : VALIDATOR_IDS[k] \in Validators
<1>1. /\ IsSeq(producer_chain)
      /\ Len(producer_chain) \in Nat
      /\ DOMAIN producer_chain = 1..Len(producer_chain)
      /\ \A v \in Validators : IsSeq(chain_file[v]) /\ Len(chain_file[v]) \in Nat
    BY SeqFacts DEF TypeOK, ProducerTypeOK, ValidatorTypeOK, IsChain
<1>2. Len(VALIDATOR_IDS) \in Nat /\ DOMAIN VALIDATOR_IDS = 1..Len(VALIDATOR_IDS)
    BY NetworkAssumption, LenProperties
<1>3. \A k \in 1..Len(VALIDATOR_IDS) : VALIDATOR_IDS[k] \in Validators
    BY <1>2, NetworkAssumption, ElementOfSeq DEF Validators
<1> QED
    BY <1>1, <1>2, <1>3

\* The producer's chain and the files only grow.
LEMMA ChainsGrow ==
    ASSUME TypeOK, TypeOK', ReplicationInv, OneCallAtATime, [Next]_vars
    PROVE  /\ IsPrefix(producer_chain, producer_chain')
           /\ \A v \in Validators : Len(chain_file[v]) <= Len(chain_file'[v])
<1>1. /\ IsSeq(producer_chain) /\ IsSeq(producer_chain')
      /\ \A v \in Validators : IsSeq(chain_file[v]) /\ IsSeq(chain_file'[v])
    BY DEF TypeOK, ProducerTypeOK, ValidatorTypeOK, IsChain
<1>2. \A v \in Validators : IsPrefix(chain_file[v], chain_file'[v])
    BY NextInv
<1>3. \A v \in Validators : Len(chain_file[v]) <= Len(chain_file'[v])
    BY <1>1, <1>2, PrefixFacts
<1>4. IsPrefix(producer_chain, producer_chain')
    <2>1. CASE HandleLog /\ AppendCandidate
        BY <2>1, AppendCandidateInv DEF HandleLog
    <2>2. CASE ~(HandleLog /\ AppendCandidate)
        <3>1. producer_chain' = producer_chain
            BY <2>2 DEF Next, vars, producerVars, HandleLog, ProposeBlock, CollectAck,
                        AbortCommit, CommitBlock, IgnoreCommitReply, FinishCommit,
                        AcceptNext, AcceptLog, ReceiveLog, Serve, Synchronise,
                        Environment, CallEnds
        <3> QED
            BY <1>1, <3>1, PrefixOrder
    <2> QED
        BY <2>1, <2>2
<1> QED
    BY <1>3, <1>4

\* A log that was answered with OK is in the producer's chain.
LEMMA AnsweredAreCommitted ==
    ASSUME TypeOK, ClientInv
    PROVE  AnsweredLogs \subseteq {producer_chain[n].log_data : n \in 1..Len(producer_chain)}
<1> SUFFICES ASSUME NEW log \in AnsweredLogs
             PROVE  \E n \in 1..Len(producer_chain) : producer_chain[n].log_data = log
    OBVIOUS
<1>1. PICK c \in CLIENTS : log \in [node_id : {c}, message : OkAnswers(c)]
    BY DEF AnsweredLogs
<1>2. PICK n \in OkAnswers(c) : log = [node_id |-> c, message |-> n]
    BY <1>1
<1>3. Positions(producer_chain, c, n) # {}
    BY <1>2 DEF OkAnswers, ClientInv, AnsweredByChain
<1> QED
    BY <1>2, <1>3, CheckSeqs DEF Positions

\* The blocks up to "start" stay what they are.
LEMMA FirstBlocksStay ==
    ASSUME NEW s, IsSeq(s), NEW t, IsSeq(t), IsPrefix(s, t), NEW start \in 0..Len(s)
    PROVE  /\ start \in 0..Len(t)
           /\ \A n \in 1..start : s[n] = t[n]
<1>1. Len(s) \in Nat /\ Len(t) \in Nat /\ Len(s) <= Len(t)
      /\ \A n \in 1..Len(s) : s[n] = t[n]
    BY SeqFacts, PrefixFacts
<1> QED
    BY <1>1

\* Whatever clients, producer and validators do, the invariant stays true.
LEMMA SystemCheckInv ==
    ASSUME CheckIInv, TypeOK', CheckInv, [Next]_vars, UNCHANGED <<audit, answered_before>>
    PROVE  CheckInv'
<1>1. /\ IsPrefix(producer_chain, producer_chain')
      /\ \A v \in Validators : Len(chain_file[v]) <= Len(chain_file'[v])
    BY ChainsGrow DEF CheckIInv
<1>2. /\ IsSeq(producer_chain) /\ IsSeq(producer_chain')
      /\ \A v \in Validators : Len(chain_file[v]) \in Nat /\ Len(chain_file'[v]) \in Nat
      /\ Len(producer_chain) \in Nat
    BY SeqFacts DEF CheckIInv, TypeOK, ProducerTypeOK, ValidatorTypeOK, IsChain
<1>3. ASSUME NEW k \in DOMAIN audit
      PROVE  IsSeq(audit[k]) /\ IsPrefix(audit[k], producer_chain')
    BY <1>1, <1>2, PrefixTransitive DEF CheckInv
<1>4. ASSUME audit # <<>>
      PROVE  (\E v \in Validators : \E start \in 0..Len(producer_chain) : Shows(v, start))'
    <2>1. PICK v \in Validators : \E start \in 0..Len(producer_chain) : Shows(v, start)
        BY <1>4 DEF CheckInv
    <2>2. PICK start \in 0..Len(producer_chain) : Shows(v, start)
        BY <2>1
    <2>3. /\ start \in 0..Len(producer_chain')
          /\ {producer_chain[n].log_data : n \in 1..start}
                = {producer_chain'[n].log_data : n \in 1..start}
        <3>1. PICK s : s = producer_chain
            OBVIOUS
        <3>2. PICK t : t = producer_chain'
            OBVIOUS
        <3>3. IsSeq(s) /\ IsSeq(t) /\ IsPrefix(s, t)
            BY <1>1, <1>2, <3>1, <3>2
        <3>4. start \in 0..Len(s)
            BY <3>1
        <3>5. start \in 0..Len(t) /\ \A n \in 1..start : s[n] = t[n]
            BY <3>3, <3>4, FirstBlocksStay
        <3> QED
            BY <3>1, <3>2, <3>5
    <2>4. Len(chain_file'[v]) >= start - 1
        BY <1>1, <1>2, <2>2 DEF Shows
    <2>5. Shows(v, start)'
        BY <2>2, <2>3, <2>4 DEF Shows
    <2> QED
        BY <2>3, <2>5
<1> QED
    BY <1>3, <1>4 DEF CheckInv

\* Some validator stores all but the last block.
LEMMA SomebodyHolds ==
    ASSUME TypeOK, DurableButTip, Validators # {}
    PROVE  \E v \in Validators : Len(chain_file[v]) >= Len(producer_chain) - 1
<1>1. CASE Len(producer_chain) <= 1
    <2>1. PICK v : v \in Validators
        OBVIOUS
    <2> QED
        BY <1>1, <2>1, CheckSeqs
<1>2. CASE Len(producer_chain) > 1
    <2> DEFINE tip == Len(producer_chain) - 1
    <2>1. tip \in 1..(Len(producer_chain) - 1)
        BY <1>2, CheckSeqs
    <2>2. Cardinality(Holders(tip)) >= QUORUM
        BY <2>1 DEF DurableButTip
    <2>3. Holders(tip) # {}
        BY <2>2, FS_EmptySet, QuorumAssumption
    <2> QED
        BY <2>3 DEF Holders
<1> QED
    BY <1>1, <1>2, CheckSeqs

\* The audit reads one more file.
LEMMA NextFileCheckInv ==
    ASSUME CheckIInv, DurableButTip, CheckInv, CheckNextFile
    PROVE  CheckInv'
<1> DEFINE w == VALIDATOR_IDS[Len(audit) + 1]
           more == Append(audit, chain_file[w])
<1>1. /\ Len(audit) < Len(VALIDATOR_IDS)
      /\ audit' = more
      /\ answered_before' = IF audit = <<>> THEN AnsweredLogs ELSE answered_before
      /\ UNCHANGED <<chain_file, producer_chain>>
    BY DEF CheckNextFile, LoadNextFile, vars, validatorVars, producerVars
<1>2. /\ Len(audit) \in Nat /\ DOMAIN audit = 1..Len(audit)
      /\ (audit = <<>> <=> Len(audit) = 0)
    BY SeqFacts DEF CheckInv
<1>3. w \in Validators
    <2>1. Len(audit) + 1 \in 1..Len(VALIDATOR_IDS)
        BY <1>1, <1>2, CheckSeqs DEF CheckIInv
    <2> QED
        BY <2>1, CheckSeqs DEF CheckIInv
<1>4. /\ IsSeq(more)
      /\ Len(more) = Len(audit) + 1
      /\ DOMAIN more = 1..(Len(audit) + 1)
      /\ \A k \in 1..Len(audit) : more[k] = audit[k]
      /\ more[Len(audit) + 1] = chain_file[w]
    BY AppendFacts DEF CheckInv
<1>5. w = VALIDATOR_IDS[Len(audit) + 1]
    OBVIOUS
<1> HIDE DEF more, w
<1>6. \A k \in DOMAIN more : k \in 1..Len(audit) \/ k = Len(audit) + 1
    BY <1>2, <1>4
<1>7. ASSUME NEW k \in DOMAIN more
      PROVE  IsSeq(more[k]) /\ IsPrefix(more[k], producer_chain)
    <2>1. CASE k \in 1..Len(audit)
        BY <1>2, <1>4, <2>1 DEF CheckInv
    <2>2. CASE k = Len(audit) + 1
        BY <1>3, <1>4, <2>2, CheckSeqs DEF CheckIInv, ReplicationInv, ChainsFollowProducer
    <2> QED
        BY <1>6, <2>1, <2>2
<1>8. Len(more) <= Len(VALIDATOR_IDS)
    BY <1>1, <1>2, <1>4, CheckSeqs DEF CheckIInv
<1>9. ASSUME NEW v \in Validators, NEW start \in 0..Len(producer_chain),
             Len(chain_file[v]) >= start - 1,
             \A k \in DOMAIN audit : VALIDATOR_IDS[k] = v => Len(audit[k]) >= start - 1
      PROVE  \A k \in DOMAIN more : VALIDATOR_IDS[k] = v => Len(more[k]) >= start - 1
    <2> SUFFICES ASSUME NEW k \in DOMAIN more, VALIDATOR_IDS[k] = v
                 PROVE  Len(more[k]) >= start - 1
        OBVIOUS
    <2>1. CASE k \in 1..Len(audit)
        BY <1>2, <1>4, <1>9, <2>1
    <2>2. CASE k = Len(audit) + 1
        BY <1>4, <1>5, <1>9, <2>2
    <2> QED
        BY <1>6, <2>1, <2>2
<1>10. \E v \in Validators : \E start \in 0..Len(producer_chain) :
          /\ answered_before' \subseteq {producer_chain[n].log_data : n \in 1..start}
          /\ Len(chain_file[v]) >= start - 1
          /\ \A k \in DOMAIN audit : VALIDATOR_IDS[k] = v => Len(audit[k]) >= start - 1
    <2>1. CASE audit = <<>>
        <3>1. answered_before' \subseteq
                 {producer_chain[n].log_data : n \in 1..Len(producer_chain)}
            BY <1>1, <2>1, AnsweredAreCommitted DEF CheckIInv
        <3>2. PICK v \in Validators : Len(chain_file[v]) >= Len(producer_chain) - 1
            BY <1>3, SomebodyHolds DEF CheckIInv
        <3>3. DOMAIN audit = {}
            BY <2>1, EmptyIsSeq
        <3>4. Len(producer_chain) \in 0..Len(producer_chain)
            BY CheckSeqs DEF CheckIInv
        <3> QED
            BY <3>1, <3>2, <3>3, <3>4
    <2>2. CASE audit # <<>>
        BY <1>1, <2>2 DEF CheckInv, Shows
    <2> QED
        BY <2>1, <2>2
<1>11. (\E v \in Validators : \E start \in 0..Len(producer_chain) : Shows(v, start))'
    BY <1>1, <1>9, <1>10 DEF Shows
<1> QED
    BY <1>1, <1>4, <1>7, <1>8, <1>11 DEF CheckInv

\* What an audit has read is the producer's; somebody shows the answered logs.
THEOREM CheckInvHolds == CheckSpec => []CheckInv
<1>1. CheckInit => CheckInv
    <2> SUFFICES ASSUME CheckInit
                 PROVE  CheckInv
        OBVIOUS
    <2>1. audit = <<>>
        BY DEF CheckInit
    <2>2. Len(VALIDATOR_IDS) \in Nat
        BY NetworkAssumption, LenProperties
    <2> QED
        BY <2>1, <2>2, EmptyIsSeq DEF CheckInv
<1>2. /\ CheckIInv /\ CheckIInv' /\ DurableButTip
      /\ CheckInv /\ [CheckNext]_checkVars
      => CheckInv'
    <2> SUFFICES ASSUME CheckIInv, TypeOK', DurableButTip, CheckInv, [CheckNext]_checkVars
                 PROVE  CheckInv'
        BY DEF CheckIInv
    <2>1. CASE ClientNext /\ UNCHANGED <<audit, answered_before>>
        <3>1. [Next]_vars
            BY <2>1, ClientNextIsNext DEF CheckIInv
        <3> QED
            BY <2>1, <3>1, SystemCheckInv
    <2>2. CASE CheckNextFile
        BY <2>2, NextFileCheckInv
    <2>3. CASE EndCheck
        <3>1. audit' = <<>>
            BY <2>3 DEF EndCheck, PrintVerdict
        <3> QED
            BY <3>1, CheckSeqs, EmptyIsSeq DEF CheckIInv, CheckInv
    <2>4. CASE UNCHANGED checkVars
        <3>1. UNCHANGED vars /\ UNCHANGED <<audit, answered_before>>
            BY <2>4 DEF checkVars, clientReplicationVars
        <3> QED
            BY <3>1, SystemCheckInv
    <2> QED
        BY <2>1, <2>2, <2>3, <2>4 DEF CheckNext
<1>3. CheckSpec => []CheckIInv
    BY CheckSteps, ClientInduction, PTL DEF CheckIInv
<1>4. CheckSpec => []DurableButTip
    BY CheckSteps, ClientsImplementSpec, DurableButTipHolds, PTL
<1> QED
    BY <1>1, <1>2, <1>3, <1>4, PTL DEF CheckSpec

\* When the audit says that the validators are synchronized, each chain it
\* read holds the logs that had been answered with OK before it began, all but
\* at most one, which is the last that its client had got an OK for.
THEOREM CheckFindsAnsweredLogsHolds == CheckSpec => []CheckFindsAnsweredLogs
<1>1. CheckIInv /\ CheckInv => CheckFindsAnsweredLogs
    <2> SUFFICES ASSUME CheckIInv, CheckInv, SaysSynchronized, NEW j \in DOMAIN audit
                 PROVE  LET missing == answered_before \ LogsIn(audit[j])
                        IN  /\ Cardinality(missing) <= 1
                            /\ \A log \in missing : \A other \in answered_before \ {log} :
                                  Precedes(other, log)
        BY DEF CheckFindsAnsweredLogs
    <2> DEFINE missing == answered_before \ LogsIn(audit[j])
    <2>1. /\ Len(audit) = Len(VALIDATOR_IDS)
          /\ DOMAIN audit = 1..Len(audit) /\ DOMAIN VALIDATOR_IDS = 1..Len(VALIDATOR_IDS)
          /\ IsSeq(audit[j])
          /\ Len(audit[j]) \in Nat /\ DOMAIN audit[j] = 1..Len(audit[j])
          /\ (audit = <<>> => DOMAIN audit = {})
        BY SeqFacts, CheckSeqs, EmptyIsSeq DEF CheckIInv, CheckInv, SaysSynchronized
    <2>2. PICK v \in Validators : \E start \in 0..Len(producer_chain) : Shows(v, start)
        BY <2>1 DEF CheckInv
    <2>3. PICK start \in 0..Len(producer_chain) : Shows(v, start)
        BY <2>2
    <2>4. start \in Nat /\ start <= Len(producer_chain)
        BY <2>3, CheckSeqs DEF CheckIInv
    <2>5. PICK k \in DOMAIN audit : VALIDATOR_IDS[k] = v
        BY <2>1 DEF Validators, Range
    <2>6. Len(audit[j]) >= start - 1
        BY <2>3, <2>5 DEF SaysSynchronized, Synchronized, Shows
    <2>7. \A n \in 1..Len(audit[j]) : audit[j][n] = producer_chain[n]
        BY <2>1, CheckSeqs, PrefixFacts DEF CheckIInv, CheckInv
    <2>8. ASSUME NEW log \in missing
          PROVE  start \in 1..Len(producer_chain) /\ log = producer_chain[start].log_data
        <3>1. PICK n \in 1..start : log = producer_chain[n].log_data
            BY <2>3, <2>8 DEF Shows
        <3>2. n \notin 1..Len(audit[j])
            BY <2>1, <2>7, <2>8, <3>1 DEF LogsIn
        <3>3. n = start
            BY <2>1, <2>4, <2>6, <3>1, <3>2
        <3> QED
            BY <2>4, <3>1, <3>3
    <2>9. Cardinality(missing) <= 1
        <3>1. PICK one : one = {producer_chain[start].log_data}
            OBVIOUS
        <3>2. missing \subseteq one
            BY <2>8, <3>1
        <3>3. IsFiniteSet(one) /\ Cardinality(one) = 1
            BY <3>1, FS_Singleton
        <3> HIDE DEF missing
        <3> QED
            BY <3>2, <3>3, FS_Subset
    <2>10. ASSUME NEW log \in missing, NEW other \in answered_before \ {log}
           PROVE  Precedes(other, log)
        <3>1. start \in 1..Len(producer_chain) /\ log = producer_chain[start].log_data
            BY <2>8
        <3>2. PICK n \in 1..start : other = producer_chain[n].log_data
            BY <2>3 DEF Shows
        <3>3. n \in DOMAIN producer_chain /\ start \in DOMAIN producer_chain /\ n < start
            BY <2>4, <3>1, <3>2, CheckSeqs DEF CheckIInv
        <3> QED
            BY <3>1, <3>2, <3>3 DEF CheckIInv, ClientInv, LogsKeepClientOrder, Precedes
    <2> QED
        BY <2>9, <2>10
<1>2. CheckSpec => []CheckIInv
    BY CheckSteps, ClientInduction, PTL DEF CheckIInv
<1> QED
    BY <1>1, <1>2, CheckInvHolds, PTL

=============================================================================
