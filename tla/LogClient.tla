------------------------------ MODULE LogClient ------------------------------
(***************************************************************************)
(* The programs that send logs: log_node.py, the normal experiment of      *)
(* run_experiment.py and c_client/log_sender.c.  Each sends its logs one   *)
(* after the other and never sends one again.  The Python programs wait    *)
(* SOCKET_TIMEOUT_SECONDS for the answer; the C program sets no timeout.   *)
(*                                                                         *)
(* The connections of the clients wait in the accept queue of the          *)
(* producer, log_inbox.  As with validators, a log whose sender gave up    *)
(* stays there and is handled like any other.                              *)
(***************************************************************************)
EXTENDS Network

CONSTANTS
    CLIENTS,  \* the node IDs of the programs that send logs
    PATIENT,  \* those among them that run the C program
    COUNT     \* COUNT[c]: the option --count of client c

ASSUME ClientAssumption == PATIENT \subseteq CLIENTS /\ COUNT \in [CLIENTS -> Nat]

VARIABLES
    log_inbox,    \* the accept queue of the producer
    log_request,  \* the log that handle_log_connection is working on
    answer        \* answer[c]: what became of each log c has sent, for c

clientVars == <<log_inbox, log_request, answer>>

NoRequest == [from |-> PRODUCER, message |-> 0, live |-> FALSE]

LogClientInit ==
    /\ log_inbox = <<>>
    /\ log_request = NoRequest
    /\ answer = [c \in CLIENTS |-> <<>>]

\* What the block of this request contains; its number tells a log from the
\* others of the same client.
LogData(request) == [node_id |-> request.from, message |-> request.message]

AwaitsAnswer(c) ==
    \/ log_request.from = c /\ log_request.live
    \/ \E n \in DOMAIN log_inbox : log_inbox[n].from = c /\ log_inbox[n].live

\* The program at client c prints this result of its current log.
Conclude(c, result) == answer' = [answer EXCEPT ![c] = Append(@, result)]

\* The next log is sent, or the connection is not accepted in time.
SendLog(c) ==
    /\ ~AwaitsAnswer(c)
    /\ Len(answer[c]) < COUNT[c]
    /\ LET request == [from |-> c, message |-> Len(answer[c]) + 1, live |-> TRUE]
       IN  IF Len(log_inbox) < SOCKET_BACKLOG
           THEN log_inbox' = Append(log_inbox, request) /\ UNCHANGED answer
           ELSE Conclude(c, "FAILED") /\ UNCHANGED log_inbox
    /\ UNCHANGED log_request

\* Faulty variant: the program does not count the log as sent, and sends it
\* again.
GiveUpAndSendAgain(c) ==
    /\ c \notin PATIENT
    /\ AwaitsAnswer(c)
    /\ log_inbox' = Abandon(log_inbox, c)
    /\ log_request' = IF log_request.from = c
                      THEN [log_request EXCEPT !.live = FALSE] ELSE log_request
    /\ UNCHANGED answer

\* The answer did not come in SOCKET_TIMEOUT_SECONDS.
GiveUpLog(c) ==
    /\ c \notin PATIENT
    /\ AwaitsAnswer(c)
    /\ log_inbox' = Abandon(log_inbox, c)
    /\ log_request' = IF log_request.from = c
                      THEN [log_request EXCEPT !.live = FALSE] ELSE log_request
    /\ Conclude(c, "FAILED")

-----------------------------------------------------------------------------
(* The producer's side of the connection.                                  *)

AcceptOldestLog ==
    /\ log_inbox # <<>>
    /\ log_request' = Head(log_inbox)
    /\ log_inbox' = Tail(log_inbox)
    /\ UNCHANGED answer

\* Faulty variant: nothing is sent after the commit loop was left early.
AnswerOnlyOk(status) ==
    /\ log_request' = IF status = "OK" THEN NoRequest ELSE log_request
    /\ IF log_request.live /\ status = "OK"
       THEN Conclude(log_request.from, status) ELSE UNCHANGED answer
    /\ UNCHANGED log_inbox

\* The status reaches the client if it still waits; the connection is closed.
AnswerLog(status) ==
    /\ log_request' = NoRequest
    /\ IF log_request.live THEN Conclude(log_request.from, status) ELSE UNCHANGED answer
    /\ UNCHANGED log_inbox

\* A log that waited longer than max_age_seconds is refused.  Its sender gave
\* up long before, unless it waits without a timeout.
RejectExpiredLog ==
    /\ log_inbox # <<>>
    /\ LET request == Head(log_inbox)
       IN  /\ ~request.live \/ request.from \in PATIENT
           /\ IF request.live THEN Conclude(request.from, "ERROR") ELSE UNCHANGED answer
    /\ log_inbox' = Tail(log_inbox)
    /\ UNCHANGED log_request

=============================================================================
