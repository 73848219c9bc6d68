------------------------------- MODULE Network -------------------------------
(***************************************************************************)
(* One request, one response over TCP, as network_utils.py and its callers *)
(* use it.  A validator accepts one connection at a time: the connections  *)
(* the kernel has completed but the process has not handled yet wait in    *)
(* inbox[v], oldest first.  The bytes of a request stay there even when    *)
(* the caller has given up waiting, so a request that timed out is handled *)
(* later; only its response goes nowhere.                                  *)
(*                                                                         *)
(* call[r] is the one call a process r has open: the producer and a        *)
(* starting validator call their peers one after the other.                *)
(***************************************************************************)
EXTENDS Integers, SequencesExt

CONSTANTS
    VALIDATOR_IDS,   \* the tuple of config.py: the order every loop follows
    PRODUCER,        \* PRODUCER_ID, the sender that is no validator
    SOCKET_BACKLOG,  \* connections the kernel queues for a listening socket
    SLOW             \* TRUE: a live server may miss SOCKET_TIMEOUT_SECONDS

ASSUME NetworkAssumption ==
    /\ VALIDATOR_IDS \in Seq(Range(VALIDATOR_IDS))
    /\ IsInjective(VALIDATOR_IDS)
    /\ PRODUCER \notin Range(VALIDATOR_IDS)
    /\ SOCKET_BACKLOG \in Nat \ {0}
    /\ SLOW \in BOOLEAN

Validators == Range(VALIDATOR_IDS)
Callers    == Validators \cup {PRODUCER}

VARIABLES
    listening,  \* validators whose server socket is bound and listening
    inbox,      \* inbox[v]: accepted requests v has not handled yet
    call        \* call[r]: the state of r's open call

networkVars == <<listening, inbox, call>>

Idle    == [type |-> "IDLE"]     \* no call open
Waiting == [type |-> "WAITING"]  \* request sent, blocked in recv_json
Closed  == [type |-> "CLOSED"]   \* OSError, ConnectionError or ValueError

NetworkInit ==
    /\ inbox = [v \in Validators |-> <<>>]
    /\ call = [r \in Callers |-> Idle]

\* Faulty variant: the accept queue has no limit.
ReachableWithoutLimit(v) == v \in listening

\* A TCP connect is refused unless the server listens, and it times out
\* when the backlog is full.
Reachable(v) == v \in listening /\ Len(inbox[v]) < SOCKET_BACKLOG

\* The caller opens the connection and sends its request.
Connect(r, v, request) ==
    /\ call[r] = Idle
    /\ UNCHANGED listening
    /\ IF Reachable(v)
       THEN /\ inbox' = [inbox EXCEPT ![v] = Append(@, request)]
            /\ call' = [call EXCEPT ![r] = Waiting]
       ELSE /\ call' = [call EXCEPT ![r] = Closed]
            /\ UNCHANGED inbox

\* send_json raised before a byte was sent.
FailToSend(r) ==
    /\ call[r] = Idle
    /\ call' = [call EXCEPT ![r] = Closed]
    /\ UNCHANGED <<listening, inbox>>

Answered(r) == call[r] \notin {Idle, Waiting}

\* Faulty variant: a caller that gave up still gets the answer.
AbandonNobody(queue, r) == queue

\* The requests of r that wait in "queue" lose the caller that waits for them.
Abandon(queue, r) ==
    [n \in DOMAIN queue |->
        IF queue[n].from = r THEN [queue[n] EXCEPT !.live = FALSE] ELSE queue[n]]

\* The requests of r that wait in v's inbox and whose caller still waits.
Pending(v, r) == {n \in DOMAIN inbox[v] : inbox[v][n].from = r /\ inbox[v][n].live}

\* Faulty variant: a call waits for its answer for ever.
NeverGiveUp(r) == FALSE

\* The server closed the connection without an answer (it died, or its
\* handler raised), or the answer did not come in SOCKET_TIMEOUT_SECONDS.
GiveUp(r) ==
    /\ call[r] = Waiting
    /\ \/ SLOW
       \/ \A v \in Validators : Pending(v, r) = {}
    /\ call' = [call EXCEPT ![r] = Closed]
    /\ inbox' = [v \in Validators |-> Abandon(inbox[v], r)]
    /\ UNCHANGED listening

\* v has handled the request at the head of its inbox and sends "response".
Reply(v, response) ==
    LET request == Head(inbox[v])
    IN  /\ inbox' = [inbox EXCEPT ![v] = Tail(@)]
        /\ call' = IF request.live
                   THEN [call EXCEPT ![request.from] = response]
                   ELSE call
        /\ UNCHANGED listening

\* The process v dies: its socket, its backlog and its own call are gone.
DropSockets(v) ==
    /\ listening' = listening \ {v}
    /\ inbox' = [w \in Validators |->
                    IF w = v THEN <<>> ELSE Abandon(inbox[w], v)]
    /\ call' = [call EXCEPT ![v] = Idle]

=============================================================================
