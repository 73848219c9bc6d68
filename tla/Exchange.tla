------------------------------ MODULE Exchange ------------------------------
(***************************************************************************)
(* One connection, byte by byte: send_json, recv_json and recv_exact of    *)
(* network_utils.py between a caller and a server, and the same functions  *)
(* written in C in log_sender.c.  TCP delivers a frame, a header with the  *)
(* length and the payload, in pieces of any size.  Either process may die  *)
(* at any point.  A Python caller refuses to send what is too large and    *)
(* sets a timeout; the C caller does neither, nor does a server.           *)
(***************************************************************************)
EXTENDS Integers, FiniteSetsExt

CONSTANTS
    LENGTH_HEADER_SIZE,
    MAX_MESSAGE_SIZE,
    SIZES  \* sizes of payloads

ASSUME ExchangeAssumption ==
    /\ LENGTH_HEADER_SIZE \in Nat \ {0}
    /\ MAX_MESSAGE_SIZE \in Nat \ {0}
    /\ SIZES \subseteq Nat \ {0}

VARIABLES
    c_program,    \* the caller is the C program
    size,         \* of the payload of the request
    reply_size,   \* of the payload of the response, 0 before it is known
    caller,       \* where the caller is: see CallerSteps
    server,       \* where the server is: see ServerSteps
    sent,         \* bytes of the request the caller has written
    read,         \* bytes of it the server has read
    replied,      \* bytes of the response the server has written
    received,     \* bytes of it the caller has read
    handled,      \* the handler of the server has run, to its end or not
    failure       \* what broke off the server's work: see Failures

exchangeVars == <<c_program, size, reply_size, caller, server, sent, read,
                  replied, received, handled, failure>>

\* The last five are the ends of a call.
Ended       == {"refused", "answered", "timed_out", "closed", "dead"}
CallerSteps == {"ready", "sending", "receiving"} \cup Ended
ServerSteps == {"busy", "receiving", "handling", "replying", "closed"}
Failures    == {"none", "raised", "died"}

ExchangeInit ==
    /\ c_program \in BOOLEAN
    /\ size \in SIZES
    /\ caller = "ready"
    /\ server = "busy"
    /\ reply_size = 0
    /\ sent = 0 /\ read = 0 /\ replied = 0 /\ received = 0
    /\ handled = FALSE
    /\ failure = "none"

\* The check of send_json.
TooLargeToSend(n) == n > MAX_MESSAGE_SIZE

\* Faulty variant: the limit itself is refused.
TooLargeByOne(n) == n >= MAX_MESSAGE_SIZE

\* The check of recv_json.
TooLargeToReceive(n) == n > MAX_MESSAGE_SIZE

Frame(n) == LENGTH_HEADER_SIZE + n

\* What recv_exact asks for: the rest of the header, or of the payload.
Wanted(count, n) ==
    IF count < LENGTH_HEADER_SIZE THEN LENGTH_HEADER_SIZE - count ELSE Frame(n) - count

\* The pieces that one recv may return.
Pieces(count, available, n) == 1..Min({available - count, Wanted(count, n)})

\* Faulty variant: one recv, as before recv_exact, is taken for the whole.
WholeAfterOneRecv(count, n) == count > LENGTH_HEADER_SIZE

\* The loops of recv_exact for the header and for the payload are left.
WholeFrame(count, n) == count = Frame(n)

-----------------------------------------------------------------------------
(* The caller.                                                             *)

\* The connection exists before send_json looks at the size.
BeginCall ==
    /\ caller = "ready"
    /\ caller' = IF ~c_program /\ TooLargeToSend(size) THEN "refused" ELSE "sending"
    /\ UNCHANGED <<c_program, size, reply_size, server, sent, read, replied,
                   received, handled, failure>>

SendRequest ==
    /\ caller = "sending"
    /\ \E n \in 1..(Frame(size) - sent) : sent' = sent + n
    /\ caller' = IF sent' = Frame(size) THEN "receiving" ELSE "sending"
    /\ UNCHANGED <<c_program, size, reply_size, server, read, replied, received,
                   handled, failure>>

\* The sender of a response has made the check of recv_json already.
ReceiveResponse ==
    /\ caller = "receiving"
    /\ \E n \in Pieces(received, replied, reply_size) : received' = received + n
    /\ caller' = IF WholeFrame(received', reply_size) THEN "answered" ELSE "receiving"
    /\ UNCHANGED <<c_program, size, reply_size, server, sent, read, replied,
                   handled, failure>>

\* The connection is closed or reset; what had arrived may be gone with it
\* when the server died.
SeeServerClose ==
    /\ caller \in {"sending", "receiving"}
    /\ server = "closed"
    /\ received = replied \/ failure = "died"
    /\ caller' = "closed"
    /\ UNCHANGED <<c_program, size, reply_size, server, sent, read, replied,
                   received, handled, failure>>

\* Faulty variant: the socket has no timeout.
NeverTimeOut == FALSE

\* sendall has lasted, or a single recv has waited, SOCKET_TIMEOUT_SECONDS.
TimeOut ==
    /\ ~c_program
    /\ caller = "sending" \/ (caller = "receiving" /\ received = replied)
    /\ caller' = "timed_out"
    /\ UNCHANGED <<c_program, size, reply_size, server, sent, read, replied,
                   received, handled, failure>>

CallerDies ==
    /\ caller \in {"sending", "receiving"}
    /\ caller' = "dead"
    /\ UNCHANGED <<c_program, size, reply_size, server, sent, read, replied,
                   received, handled, failure>>

-----------------------------------------------------------------------------
(* The server: the loop around accept(), and the handler of a connection.  *)

\* Until here it was busy with another connection.
AcceptConnection ==
    /\ server = "busy"
    /\ caller # "ready"
    /\ server' = "receiving"
    /\ UNCHANGED <<c_program, size, reply_size, caller, sent, read, replied,
                   received, handled, failure>>

\* A message too large is not read beyond its header; the connection closes.
ReceiveRequest ==
    /\ server = "receiving"
    /\ \E n \in Pieces(read, sent, size) : read' = read + n
    /\ server' =
          IF read' = LENGTH_HEADER_SIZE /\ TooLargeToReceive(size) THEN "closed"
          ELSE IF WholeFrame(read', size) THEN "handling"
          ELSE "receiving"
    /\ UNCHANGED <<c_program, size, reply_size, caller, sent, replied, received,
                   handled, failure>>

\* Faulty variant: the empty result of recv is not told from a piece.
IgnoreCallerClose == FALSE

\* recv returns nothing: the caller has closed the connection within a frame.
SeeCallerClose ==
    /\ server = "receiving"
    /\ caller \in Ended
    /\ read = sent
    /\ server' = "closed"
    /\ UNCHANGED <<c_program, size, reply_size, caller, sent, read, replied,
                   received, handled, failure>>

\* The handler runs; a response that is too large is not sent.  When a
\* handler raises a ValueError, as load_chain does for an unreadable file,
\* handle_connection answers nothing and the connection closes.
HandleRequest ==
    /\ server = "handling"
    /\ handled' = TRUE
    /\ \/ /\ \E n \in SIZES :
                /\ reply_size' = n
                /\ server' = IF TooLargeToSend(n) THEN "closed" ELSE "replying"
          /\ UNCHANGED failure
       \/ /\ failure' = "raised"
          /\ server' = "closed"
          /\ UNCHANGED reply_size
    /\ UNCHANGED <<c_program, size, caller, sent, read, replied, received>>

\* The connection is closed behind the last byte; to a caller that is gone
\* already, sendall raises.
SendResponse ==
    /\ server = "replying"
    /\ \/ /\ \E n \in 1..(Frame(reply_size) - replied) : replied' = replied + n
          /\ server' = IF replied' = Frame(reply_size) THEN "closed" ELSE "replying"
       \/ /\ caller \in Ended
          /\ server' = "closed"
          /\ UNCHANGED replied
    /\ UNCHANGED <<c_program, size, reply_size, caller, sent, read, received,
                   handled, failure>>

ServerDies ==
    /\ server # "closed"
    /\ server' = "closed"
    /\ failure' = "died"
    /\ UNCHANGED <<c_program, size, reply_size, caller, sent, read, replied,
                   received, handled>>

RunCaller == BeginCall \/ SendRequest \/ ReceiveResponse \/ SeeServerClose
RunServer == ReceiveRequest \/ SeeCallerClose \/ HandleRequest \/ SendResponse

ExchangeNext ==
    \/ RunCaller
    \/ TimeOut
    \/ CallerDies
    \/ AcceptConnection
    \/ RunServer
    \/ ServerDies

\* Both programs run, and a timeout expires; that the server ever accepts
\* the connection is not assumed.
ExchangeSpec ==
    /\ ExchangeInit /\ [][ExchangeNext]_exchangeVars
    /\ WF_exchangeVars(RunCaller)
    /\ WF_exchangeVars(TimeOut)
    /\ WF_exchangeVars(RunServer)

-----------------------------------------------------------------------------

\* However the bytes arrive, whoever dies and whatever times out, the
\* connection is one call: no part of a request is ever handled, none is
\* handled twice, and no answer is read of one that was not handled.
Whole == INSTANCE Call WITH
    request <- IF handled THEN "handled"
               ELSE IF server = "closed" \/ (caller \in Ended /\ sent < Frame(size))
                    THEN "lost"
               ELSE IF sent = Frame(size) THEN "pending"
               ELSE "unsent",
    outcome <- CASE caller = "answered"              -> "answered"
                 [] caller \in Ended \ {"answered"} -> "failed"
                 [] OTHER                            -> "none"

ImplementsCall == Whole!Spec

\* A caller finds the connection closed for one of four reasons, and what it
\* may then take for certain differs: after a death or an exception of the
\* handler the request may have been handled or not; the request of the C
\* program that is too large was not handled; a response that is too large
\* was made by a handler that ran.  A Python caller never meets the third:
\* what one side may send, the other side accepts.
CloseHasReason ==
    caller = "closed" =>
        \/ failure \in {"died", "raised"}
        \/ c_program /\ size > MAX_MESSAGE_SIZE /\ ~handled
        \/ reply_size > MAX_MESSAGE_SIZE /\ handled

\* A Python caller always comes back, and the C program does from a server
\* that has accepted its connection.
CallerEnds == caller # "ready" /\ (~c_program \/ server # "busy") ~> caller \in Ended

\* A server is not kept by a caller that fails within its request.
ServerIsFreed == server = "receiving" ~> server = "closed"

=============================================================================
