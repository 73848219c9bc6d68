--------------------------- MODULE ExchangeProofs ---------------------------
(***************************************************************************)
(* One connection, byte by byte, implements one call, for messages of any  *)
(* sizes.                                                                  *)
(***************************************************************************)
EXTENDS Exchange, TLAPS

-----------------------------------------------------------------------------
(* The invariant.                                                          *)

ExchangeTypeOK ==
    /\ c_program \in BOOLEAN
    /\ size \in SIZES
    /\ reply_size \in SIZES \cup {0}
    /\ caller \in CallerSteps
    /\ server \in ServerSteps
    /\ sent \in Nat /\ read \in Nat /\ replied \in Nat /\ received \in Nat
    /\ handled \in BOOLEAN /\ failure \in Failures

\* No side reads what the other has not written, and the caller is where the
\* bytes it has written and read put it.
CallerInv ==
    /\ sent <= Frame(size)
    /\ caller = "ready" => sent = 0
    /\ caller = "sending" => sent < Frame(size)
    /\ caller \in {"receiving", "answered"} => sent = Frame(size)
    /\ received <= replied
    /\ caller = "receiving" => received < Frame(reply_size)
    /\ caller = "answered" => handled
    /\ (~c_program /\ caller \notin {"ready", "refused"}) => size <= MAX_MESSAGE_SIZE

\* The server handles whole requests, and replies to handled ones.
ServerInv ==
    /\ read <= sent
    /\ server \in {"busy", "receiving", "handling"} => ~handled
    /\ server \in {"busy", "receiving"} => read < Frame(size)
    /\ server = "handling" => read = Frame(size)
    /\ server = "replying" => handled /\ replied < Frame(reply_size)
    /\ handled => sent = Frame(size)
    /\ ~handled => replied = 0 /\ reply_size = 0
    /\ size > MAX_MESSAGE_SIZE =>
          /\ server \in {"busy", "receiving", "closed"}
          /\ ~handled
          /\ server # "closed" => read < LENGTH_HEADER_SIZE

\* Why the server has closed the connection, while the caller has not ended its call.
CloseInv ==
    /\ (server = "closed" /\ caller \in {"ready", "sending", "receiving"}) =>
          \/ failure \in {"died", "raised"}
          \/ size > MAX_MESSAGE_SIZE /\ ~handled
          \/ reply_size > MAX_MESSAGE_SIZE /\ handled
          \/ handled /\ replied = Frame(reply_size)
    /\ caller = "closed" => server = "closed"
    /\ CloseHasReason

ExchangeInv ==
    /\ ExchangeTypeOK
    /\ CallerInv
    /\ ServerInv
    /\ CloseInv

\* A frame is longer than its header; the pieces of a recv are its bytes at
\* most.
LEMMA FrameFacts == \A n \in Nat : Frame(n) \in Nat /\ Frame(n) >= LENGTH_HEADER_SIZE /\ Frame(n) > 0
BY ExchangeAssumption DEF Frame

LEMMA SizesAreNat == SIZES \subseteq Nat /\ 0 \notin SIZES
BY ExchangeAssumption

LEMMA MinFacts ==
    ASSUME NEW a \in Int, NEW b \in Int
    PROVE  Min({a, b}) \in Int /\ Min({a, b}) <= a /\ Min({a, b}) <= b
<1>1. \E x \in {a, b} : \A y \in {a, b} : x <= y
    OBVIOUS
<1>2. Min({a, b}) \in {a, b} /\ \A y \in {a, b} : Min({a, b}) <= y
    BY <1>1 DEF Min
<1> QED
    BY <1>2

LEMMA PiecesFacts ==
    ASSUME NEW count \in Nat, NEW available \in Nat, NEW n \in Nat,
           count < Frame(n), NEW piece \in Pieces(count, available, n)
    PROVE  /\ piece \in Nat \ {0}
           /\ count + piece <= available
           /\ count + piece <= Frame(n)
           /\ count < LENGTH_HEADER_SIZE => count + piece <= LENGTH_HEADER_SIZE
<1>1. LENGTH_HEADER_SIZE \in Nat /\ Frame(n) \in Nat /\ Frame(n) >= LENGTH_HEADER_SIZE
    BY ExchangeAssumption, FrameFacts
<1>2. /\ Wanted(count, n) \in Int /\ Wanted(count, n) <= Frame(n) - count
      /\ count < LENGTH_HEADER_SIZE => Wanted(count, n) = LENGTH_HEADER_SIZE - count
    BY <1>1 DEF Wanted
<1>3. /\ Min({available - count, Wanted(count, n)}) \in Int
      /\ Min({available - count, Wanted(count, n)}) <= available - count
      /\ Min({available - count, Wanted(count, n)}) <= Wanted(count, n)
    BY <1>2, MinFacts
<1>4. piece \in Int /\ 1 <= piece /\ piece <= Min({available - count, Wanted(count, n)})
    BY <1>3 DEF Pieces
<1> QED
    BY <1>1, <1>2, <1>3, <1>4

LEMMA InitInv == ExchangeInit => ExchangeInv
<1> SUFFICES ASSUME ExchangeInit PROVE ExchangeInv
    OBVIOUS
<1>1. size \in Nat /\ Frame(size) \in Nat /\ Frame(size) > 0
    BY SizesAreNat, FrameFacts DEF ExchangeInit
<1>2. ExchangeTypeOK
    BY DEF ExchangeInit, ExchangeTypeOK, CallerSteps, ServerSteps, Failures
<1>3. CallerInv /\ ServerInv
    BY <1>1, ExchangeAssumption DEF ExchangeInit, CallerInv, ServerInv
<1>4. CloseInv
    BY DEF ExchangeInit, CloseInv, CloseHasReason
<1> QED
    BY <1>2, <1>3, <1>4 DEF ExchangeInv

\* The numbers the steps below compare.
LEMMA NumberFacts ==
    ASSUME ExchangeTypeOK
    PROVE  /\ size \in Nat /\ reply_size \in Nat
           /\ Frame(size) \in Nat /\ Frame(size) > 0
           /\ Frame(reply_size) \in Nat /\ Frame(reply_size) > 0
           /\ sent \in Nat /\ read \in Nat /\ replied \in Nat /\ received \in Nat
           /\ MAX_MESSAGE_SIZE \in Nat /\ LENGTH_HEADER_SIZE \in Nat \ {0}
BY SizesAreNat, FrameFacts, ExchangeAssumption DEF ExchangeTypeOK

LEMMA BeginCallInv == ExchangeInv /\ BeginCall => ExchangeInv'
<1> SUFFICES ASSUME ExchangeInv, BeginCall PROVE ExchangeInv'
    OBVIOUS
<1>1. ExchangeTypeOK /\ CallerInv /\ ServerInv /\ CloseInv
    BY DEF ExchangeInv
<1>3. ExchangeTypeOK'
    BY <1>1 DEF BeginCall, ExchangeTypeOK, CallerSteps, ServerSteps, Failures, Ended
<1>4. CallerInv'
    BY <1>1, NumberFacts DEF BeginCall, CallerInv, ServerInv, ExchangeTypeOK, Ended, TooLargeToSend
<1>5. ServerInv'
    BY <1>1, NumberFacts DEF BeginCall, CallerInv, ServerInv, ExchangeTypeOK, Ended
<1>6. CloseInv'
    BY <1>1, NumberFacts DEF BeginCall, CallerInv, ServerInv, CloseInv, CloseHasReason, Ended,
       TooLargeToSend, TooLargeToReceive
<1> QED
    BY <1>3, <1>4, <1>5, <1>6 DEF ExchangeInv

LEMMA SendRequestInv == ExchangeInv /\ SendRequest => ExchangeInv'
<1> SUFFICES ASSUME ExchangeInv, SendRequest PROVE ExchangeInv'
    OBVIOUS
<1>1. ExchangeTypeOK /\ CallerInv /\ ServerInv /\ CloseInv
    BY DEF ExchangeInv
<1>2. /\ sent' \in Nat /\ sent < sent' /\ sent' <= Frame(size)
      /\ caller' = IF sent' = Frame(size) THEN "receiving" ELSE "sending"
    BY <1>1, NumberFacts DEF SendRequest, CallerInv
<1>3. ExchangeTypeOK'
    BY <1>1, <1>2 DEF SendRequest, ExchangeTypeOK, CallerSteps, ServerSteps, Failures, Ended
<1>4. CallerInv'
    BY <1>1, <1>2, NumberFacts DEF SendRequest, CallerInv, ServerInv, ExchangeTypeOK, Ended
<1>5. ServerInv'
    BY <1>1, <1>2, NumberFacts DEF SendRequest, CallerInv, ServerInv, ExchangeTypeOK, Ended
<1>6. CloseInv'
    BY <1>1, <1>2, NumberFacts DEF SendRequest, CallerInv, ServerInv, CloseInv, CloseHasReason, Ended,
       TooLargeToSend, TooLargeToReceive
<1> QED
    BY <1>3, <1>4, <1>5, <1>6 DEF ExchangeInv

LEMMA ReceiveResponseInv == ExchangeInv /\ ReceiveResponse => ExchangeInv'
<1> SUFFICES ASSUME ExchangeInv, ReceiveResponse PROVE ExchangeInv'
    OBVIOUS
<1>1. ExchangeTypeOK /\ CallerInv /\ ServerInv /\ CloseInv
    BY DEF ExchangeInv
<1>2. /\ received' \in Nat /\ received < received' /\ received' <= replied
      /\ received' <= Frame(reply_size)
      /\ caller' = IF received' = Frame(reply_size) THEN "answered" ELSE "receiving"
    BY <1>1, NumberFacts, PiecesFacts DEF ReceiveResponse, CallerInv, WholeFrame
<1>3. ExchangeTypeOK'
    BY <1>1, <1>2 DEF ReceiveResponse, ExchangeTypeOK, CallerSteps, ServerSteps, Failures, Ended
<1>4. CallerInv'
    BY <1>1, <1>2, NumberFacts DEF ReceiveResponse, CallerInv, ServerInv, ExchangeTypeOK, Ended
<1>5. ServerInv'
    BY <1>1, <1>2, NumberFacts DEF ReceiveResponse, CallerInv, ServerInv, ExchangeTypeOK, Ended
<1>6. CloseInv'
    BY <1>1, <1>2, NumberFacts DEF ReceiveResponse, CallerInv, ServerInv, CloseInv, CloseHasReason, Ended,
       TooLargeToSend, TooLargeToReceive
<1> QED
    BY <1>3, <1>4, <1>5, <1>6 DEF ExchangeInv

LEMMA SeeServerCloseInv == ExchangeInv /\ SeeServerClose => ExchangeInv'
<1> SUFFICES ASSUME ExchangeInv, SeeServerClose PROVE ExchangeInv'
    OBVIOUS
<1>1. ExchangeTypeOK /\ CallerInv /\ ServerInv /\ CloseInv
    BY DEF ExchangeInv
<1>3. ExchangeTypeOK'
    BY <1>1 DEF SeeServerClose, ExchangeTypeOK, CallerSteps, ServerSteps, Failures, Ended
<1>4. CallerInv'
    BY <1>1, NumberFacts DEF SeeServerClose, CallerInv, ServerInv, ExchangeTypeOK, Ended
<1>5. ServerInv'
    BY <1>1, NumberFacts DEF SeeServerClose, CallerInv, ServerInv, ExchangeTypeOK, Ended
<1>6. CloseInv'
    BY <1>1, NumberFacts DEF SeeServerClose, CallerInv, ServerInv, CloseInv, CloseHasReason, Ended,
       TooLargeToSend, TooLargeToReceive
<1> QED
    BY <1>3, <1>4, <1>5, <1>6 DEF ExchangeInv

LEMMA TimeOutInv == ExchangeInv /\ TimeOut => ExchangeInv'
<1> SUFFICES ASSUME ExchangeInv, TimeOut PROVE ExchangeInv'
    OBVIOUS
<1>1. ExchangeTypeOK /\ CallerInv /\ ServerInv /\ CloseInv
    BY DEF ExchangeInv
<1>3. ExchangeTypeOK'
    BY <1>1 DEF TimeOut, ExchangeTypeOK, CallerSteps, ServerSteps, Failures, Ended
<1>4. CallerInv'
    BY <1>1, NumberFacts DEF TimeOut, CallerInv, ServerInv, ExchangeTypeOK, Ended
<1>5. ServerInv'
    BY <1>1, NumberFacts DEF TimeOut, CallerInv, ServerInv, ExchangeTypeOK, Ended
<1>6. CloseInv'
    BY <1>1, NumberFacts DEF TimeOut, CallerInv, ServerInv, CloseInv, CloseHasReason, Ended,
       TooLargeToSend, TooLargeToReceive
<1> QED
    BY <1>3, <1>4, <1>5, <1>6 DEF ExchangeInv

LEMMA CallerDiesInv == ExchangeInv /\ CallerDies => ExchangeInv'
<1> SUFFICES ASSUME ExchangeInv, CallerDies PROVE ExchangeInv'
    OBVIOUS
<1>1. ExchangeTypeOK /\ CallerInv /\ ServerInv /\ CloseInv
    BY DEF ExchangeInv
<1>3. ExchangeTypeOK'
    BY <1>1 DEF CallerDies, ExchangeTypeOK, CallerSteps, ServerSteps, Failures, Ended
<1>4. CallerInv'
    BY <1>1, NumberFacts DEF CallerDies, CallerInv, ServerInv, ExchangeTypeOK, Ended
<1>5. ServerInv'
    BY <1>1, NumberFacts DEF CallerDies, CallerInv, ServerInv, ExchangeTypeOK, Ended
<1>6. CloseInv'
    BY <1>1, NumberFacts DEF CallerDies, CallerInv, ServerInv, CloseInv, CloseHasReason, Ended,
       TooLargeToSend, TooLargeToReceive
<1> QED
    BY <1>3, <1>4, <1>5, <1>6 DEF ExchangeInv

LEMMA AcceptConnectionInv == ExchangeInv /\ AcceptConnection => ExchangeInv'
<1> SUFFICES ASSUME ExchangeInv, AcceptConnection PROVE ExchangeInv'
    OBVIOUS
<1>1. ExchangeTypeOK /\ CallerInv /\ ServerInv /\ CloseInv
    BY DEF ExchangeInv
<1>3. ExchangeTypeOK'
    BY <1>1 DEF AcceptConnection, ExchangeTypeOK, CallerSteps, ServerSteps, Failures, Ended
<1>4. CallerInv'
    BY <1>1, NumberFacts DEF AcceptConnection, CallerInv, ServerInv, ExchangeTypeOK, Ended
<1>5. ServerInv'
    BY <1>1, NumberFacts DEF AcceptConnection, CallerInv, ServerInv, ExchangeTypeOK, Ended
<1>6. CloseInv'
    BY <1>1, NumberFacts DEF AcceptConnection, CallerInv, ServerInv, CloseInv, CloseHasReason, Ended,
       TooLargeToSend, TooLargeToReceive
<1> QED
    BY <1>3, <1>4, <1>5, <1>6 DEF ExchangeInv

LEMMA ReceiveRequestInv == ExchangeInv /\ ReceiveRequest => ExchangeInv'
<1> SUFFICES ASSUME ExchangeInv, ReceiveRequest PROVE ExchangeInv'
    OBVIOUS
<1>1. ExchangeTypeOK /\ CallerInv /\ ServerInv /\ CloseInv
    BY DEF ExchangeInv
<1>2. /\ read' \in Nat /\ read' <= sent
      /\ server' \in {"closed", "handling", "receiving"}
      /\ server' = "handling" => read' = Frame(size)
      /\ server' = "receiving" => read' < Frame(size)
      /\ server' = "closed" => size > MAX_MESSAGE_SIZE
      /\ (size > MAX_MESSAGE_SIZE /\ server' # "closed") =>
            server' = "receiving" /\ read' < LENGTH_HEADER_SIZE
    <2>1. PICK n \in Pieces(read, sent, size) : read' = read + n
        BY DEF ReceiveRequest
    <2>2. /\ read' \in Nat /\ read < read' /\ read' <= sent /\ read' <= Frame(size)
          /\ read < LENGTH_HEADER_SIZE => read' <= LENGTH_HEADER_SIZE
        BY <1>1, <2>1, NumberFacts, PiecesFacts DEF ReceiveRequest, ServerInv
    <2>3. LENGTH_HEADER_SIZE < Frame(size)
        BY SizesAreNat, ExchangeAssumption, <1>1 DEF ExchangeTypeOK, Frame
    <2> QED
        BY <1>1, <2>2, <2>3, NumberFacts
           DEF ReceiveRequest, ServerInv, WholeFrame, TooLargeToReceive
<1>3. ExchangeTypeOK'
    BY <1>1, <1>2 DEF ReceiveRequest, ExchangeTypeOK, CallerSteps, ServerSteps, Failures, Ended
<1>4. CallerInv'
    BY <1>1, <1>2, NumberFacts DEF ReceiveRequest, CallerInv, ServerInv, ExchangeTypeOK, Ended
<1>5. ServerInv'
    BY <1>1, <1>2, NumberFacts DEF ReceiveRequest, CallerInv, ServerInv, ExchangeTypeOK, Ended
<1>6. CloseInv'
    BY <1>1, <1>2, NumberFacts DEF ReceiveRequest, CallerInv, ServerInv, CloseInv, CloseHasReason, Ended,
       TooLargeToSend, TooLargeToReceive
<1> QED
    BY <1>3, <1>4, <1>5, <1>6 DEF ExchangeInv

LEMMA SeeCallerCloseInv == ExchangeInv /\ SeeCallerClose => ExchangeInv'
<1> SUFFICES ASSUME ExchangeInv, SeeCallerClose PROVE ExchangeInv'
    OBVIOUS
<1>1. ExchangeTypeOK /\ CallerInv /\ ServerInv /\ CloseInv
    BY DEF ExchangeInv
<1>3. ExchangeTypeOK'
    BY <1>1 DEF SeeCallerClose, ExchangeTypeOK, CallerSteps, ServerSteps, Failures, Ended
<1>4. CallerInv'
    BY <1>1, NumberFacts DEF SeeCallerClose, CallerInv, ServerInv, ExchangeTypeOK, Ended
<1>5. ServerInv'
    BY <1>1, NumberFacts DEF SeeCallerClose, CallerInv, ServerInv, ExchangeTypeOK, Ended
<1>6. CloseInv'
    BY <1>1, NumberFacts DEF SeeCallerClose, CallerInv, ServerInv, CloseInv, CloseHasReason, Ended,
       TooLargeToSend, TooLargeToReceive
<1> QED
    BY <1>3, <1>4, <1>5, <1>6 DEF ExchangeInv

LEMMA HandleRequestInv == ExchangeInv /\ HandleRequest => ExchangeInv'
<1> SUFFICES ASSUME ExchangeInv, HandleRequest PROVE ExchangeInv'
    OBVIOUS
<1>1. ExchangeTypeOK /\ CallerInv /\ ServerInv /\ CloseInv
    BY DEF ExchangeInv
<1>2. /\ handled' /\ server = "handling"
      /\ UNCHANGED <<c_program, size, caller, sent, read, replied, received>>
    BY DEF HandleRequest
<1>3. /\ reply_size' \in SIZES \cup {0}
      /\ server' \in {"closed", "replying"}
      /\ server' = "closed" => reply_size' > MAX_MESSAGE_SIZE \/ failure' = "raised"
      /\ failure' \in {failure, "raised"}
    <2>1. CASE \E n \in SIZES : /\ reply_size' = n
                                /\ server' = IF TooLargeToSend(n) THEN "closed" ELSE "replying"
                                /\ UNCHANGED failure
        <3>1. PICK n \in SIZES : /\ reply_size' = n
                                 /\ server' = IF TooLargeToSend(n) THEN "closed" ELSE "replying"
                                 /\ UNCHANGED failure
            BY <2>1
        <3>2. /\ server' \in {"closed", "replying"}
              /\ server' = "closed" => n > MAX_MESSAGE_SIZE
            BY <3>1 DEF TooLargeToSend
        <3> QED
            BY <3>1, <3>2
    <2>2. CASE failure' = "raised" /\ server' = "closed" /\ UNCHANGED reply_size
        BY <1>1, <2>2 DEF ExchangeTypeOK
    <2> QED
        BY <2>1, <2>2 DEF HandleRequest
<1>4. reply_size' \in Nat /\ Frame(reply_size)' \in Nat /\ Frame(reply_size)' > 0
    <2>1. reply_size' \in Nat
        BY <1>3, SizesAreNat
    <2>2. Frame(reply_size') \in Nat /\ Frame(reply_size') > 0
        BY <2>1, FrameFacts
    <2> QED
        BY <2>1, <2>2 DEF Frame
<1>5. ExchangeTypeOK'
    BY <1>1, <1>2, <1>3, <1>4 DEF ExchangeTypeOK, CallerSteps, ServerSteps, Failures, Ended
<1>6. CallerInv'
    BY <1>1, <1>2, <1>3, <1>4, NumberFacts DEF CallerInv, ServerInv, ExchangeTypeOK, Ended
<1>7. ServerInv'
    BY <1>1, <1>2, <1>3, <1>4, NumberFacts DEF CallerInv, ServerInv, ExchangeTypeOK, Ended
<1>8. CloseInv'
    BY <1>1, <1>2, <1>3, <1>4, NumberFacts DEF CallerInv, ServerInv, CloseInv, CloseHasReason, Ended,
       TooLargeToSend, TooLargeToReceive
<1> QED
    BY <1>5, <1>6, <1>7, <1>8 DEF ExchangeInv

LEMMA SendResponseInv == ExchangeInv /\ SendResponse => ExchangeInv'
<1> SUFFICES ASSUME ExchangeInv, SendResponse PROVE ExchangeInv'
    OBVIOUS
<1>1. ExchangeTypeOK /\ CallerInv /\ ServerInv /\ CloseInv
    BY DEF ExchangeInv
<1>2. /\ replied' \in Nat /\ replied <= replied' /\ replied' <= Frame(reply_size)
      /\ server' \in {"closed", "replying"}
      /\ server' = "replying" => replied' < Frame(reply_size)
      /\ server' = "closed" => replied' = Frame(reply_size) \/ caller \in Ended
    BY <1>1, NumberFacts DEF SendResponse, ServerInv
<1>3. ExchangeTypeOK'
    BY <1>1, <1>2 DEF SendResponse, ExchangeTypeOK, CallerSteps, ServerSteps, Failures, Ended
<1>4. CallerInv'
    BY <1>1, <1>2, NumberFacts DEF SendResponse, CallerInv, ServerInv, ExchangeTypeOK, Ended
<1>5. ServerInv'
    BY <1>1, <1>2, NumberFacts DEF SendResponse, CallerInv, ServerInv, ExchangeTypeOK, Ended
<1>6. CloseInv'
    BY <1>1, <1>2, NumberFacts DEF SendResponse, CallerInv, ServerInv, CloseInv, CloseHasReason, Ended,
       TooLargeToSend, TooLargeToReceive
<1> QED
    BY <1>3, <1>4, <1>5, <1>6 DEF ExchangeInv

LEMMA ServerDiesInv == ExchangeInv /\ ServerDies => ExchangeInv'
<1> SUFFICES ASSUME ExchangeInv, ServerDies PROVE ExchangeInv'
    OBVIOUS
<1>1. ExchangeTypeOK /\ CallerInv /\ ServerInv /\ CloseInv
    BY DEF ExchangeInv
<1>3. ExchangeTypeOK'
    BY <1>1 DEF ServerDies, ExchangeTypeOK, CallerSteps, ServerSteps, Failures, Ended
<1>4. CallerInv'
    BY <1>1, NumberFacts DEF ServerDies, CallerInv, ServerInv, ExchangeTypeOK, Ended
<1>5. ServerInv'
    BY <1>1, NumberFacts DEF ServerDies, CallerInv, ServerInv, ExchangeTypeOK, Ended
<1>6. CloseInv'
    BY <1>1, NumberFacts DEF ServerDies, CallerInv, ServerInv, CloseInv, CloseHasReason, Ended,
       TooLargeToSend, TooLargeToReceive
<1> QED
    BY <1>3, <1>4, <1>5, <1>6 DEF ExchangeInv

LEMMA NextInv == ExchangeInv /\ [ExchangeNext]_exchangeVars => ExchangeInv'
<1> SUFFICES ASSUME ExchangeInv, [ExchangeNext]_exchangeVars PROVE ExchangeInv'
    OBVIOUS
<1>1. CASE RunCaller
    BY <1>1, BeginCallInv, SendRequestInv, ReceiveResponseInv, SeeServerCloseInv DEF RunCaller
<1>2. CASE RunServer
    BY <1>2, ReceiveRequestInv, SeeCallerCloseInv, HandleRequestInv, SendResponseInv
       DEF RunServer
<1>3. CASE TimeOut \/ CallerDies \/ AcceptConnection \/ ServerDies
    BY <1>3, TimeOutInv, CallerDiesInv, AcceptConnectionInv, ServerDiesInv
<1>4. CASE UNCHANGED exchangeVars
    BY <1>4 DEF exchangeVars, ExchangeInv, ExchangeTypeOK, CallerInv, ServerInv, CloseInv,
                CloseHasReason
<1> QED
    BY <1>1, <1>2, <1>3, <1>4 DEF ExchangeNext

LEMMA ExchangeInvHolds == ExchangeSpec => []ExchangeInv
BY InitInv, NextInv, PTL DEF ExchangeSpec

-----------------------------------------------------------------------------
(* The theorems.                                                           *)

\* The connection is closed on a caller by a death, by an exception of the
\* handler, for an oversized request of the C program, which nobody handled,
\* or for an oversized response, for any limit and any sizes.
THEOREM CloseHasReasonHolds == ExchangeSpec => []CloseHasReason
<1>1. ExchangeInv => CloseHasReason
    BY DEF ExchangeInv, CloseInv
<1> QED
    BY <1>1, ExchangeInvHolds, PTL

\* The request and the outcome of the abstract call.
Request ==
    IF handled THEN "handled"
    ELSE IF server = "closed" \/ (caller \in Ended /\ sent < Frame(size)) THEN "lost"
    ELSE IF sent = Frame(size) THEN "pending"
    ELSE "unsent"

Outcome ==
    CASE caller = "answered"             -> "answered"
      [] caller \in Ended \ {"answered"} -> "failed"
      [] OTHER                           -> "none"

\* The abstract steps, on these.
SendStep   == Request = "unsent" /\ Request' = "pending" /\ UNCHANGED Outcome
LoseStep   == Request \in {"unsent", "pending"} /\ Request' = "lost" /\ UNCHANGED Outcome
HandleStep == Request = "pending" /\ Request' = "handled" /\ UNCHANGED Outcome
AnswerStep ==
    /\ Request = "handled"
    /\ Outcome = "none" /\ Outcome' = "answered"
    /\ UNCHANGED Request
FailStep   ==
    /\ Outcome = "none" /\ Outcome' = "failed"
    /\ Request' = IF Request = "unsent" THEN "lost" ELSE Request

CallStep ==
    \/ SendStep \/ LoseStep \/ HandleStep \/ AnswerStep \/ FailStep
    \/ UNCHANGED <<Request, Outcome>>

LEMMA CallStepIsWhole ==
    CallStep => [Whole!Send \/ Whole!Lose \/ Whole!Handle \/ Whole!Answer \/ Whole!Fail]_(Whole!callVars)
<1>1. SendStep => Whole!Send
    BY DEF SendStep, Whole!Send, Request, Outcome
<1>2. LoseStep => Whole!Lose
    BY DEF LoseStep, Whole!Lose, Request, Outcome
<1>3. HandleStep => Whole!Handle
    BY DEF HandleStep, Whole!Handle, Request, Outcome
<1>4. AnswerStep => Whole!Answer
    BY DEF AnswerStep, Whole!Answer, Request, Outcome
<1>5. FailStep => Whole!Fail
    BY DEF FailStep, Whole!Fail, Request, Outcome
<1>6. UNCHANGED <<Request, Outcome>> => UNCHANGED Whole!callVars
    BY DEF Whole!callVars, Request, Outcome
<1> QED
    BY <1>1, <1>2, <1>3, <1>4, <1>5, <1>6 DEF CallStep

\* A step of the caller sends the request, ends the call, or is no step of it.
LEMMA CallerIsCall ==
    ASSUME ExchangeInv, RunCaller \/ TimeOut \/ CallerDies
    PROVE  CallStep
<1>1. ExchangeTypeOK /\ CallerInv /\ ServerInv /\ CloseInv
    BY DEF ExchangeInv
<1>2. CASE BeginCall
    <2>1. ~handled /\ sent = 0 /\ 0 < Frame(size) /\ caller = "ready"
        BY <1>1, <1>2, NumberFacts DEF BeginCall, CallerInv, ServerInv, ExchangeTypeOK
    <2>2. CASE caller' = "refused"
        BY <1>2, <2>1, <2>2 DEF BeginCall, Request, Outcome, Ended, CallStep, FailStep
    <2>3. CASE caller' = "sending"
        BY <1>2, <2>1, <2>3 DEF BeginCall, Request, Outcome, Ended, CallStep
    <2> QED
        BY <1>2, <2>2, <2>3 DEF BeginCall
<1>3. CASE SendRequest
    <2>1. /\ ~handled /\ sent < Frame(size) /\ caller = "sending"
          /\ sent # Frame(size)
        BY <1>1, <1>3, NumberFacts DEF SendRequest, CallerInv, ServerInv, ExchangeTypeOK
    <2> QED
        BY <1>3, <2>1 DEF SendRequest, Request, Outcome, Ended, CallStep, SendStep
<1>4. CASE ReceiveResponse
    <2>1. caller = "receiving" /\ handled
        BY <1>1, <1>4, NumberFacts, PiecesFacts
           DEF ReceiveResponse, CallerInv, ServerInv, ExchangeTypeOK
    <2> QED
        BY <1>4, <2>1 DEF ReceiveResponse, Request, Outcome, Ended, CallStep, AnswerStep
<1>5. CASE SeeServerClose
    BY <1>5 DEF SeeServerClose, Request, Outcome, Ended, CallStep, FailStep
<1>6. CASE TimeOut \/ CallerDies
    <2>1. /\ caller \in {"sending", "receiving"} /\ caller' \in {"timed_out", "dead"}
          /\ UNCHANGED <<size, server, sent, handled>>
        BY <1>6 DEF TimeOut, CallerDies
    <2>2. caller = "sending" => sent < Frame(size) /\ sent # Frame(size)
        BY <1>1, NumberFacts DEF CallerInv
    <2>3. caller = "receiving" => sent = Frame(size) /\ ~(sent < Frame(size))
        BY <1>1, NumberFacts DEF CallerInv
    <2> QED
        BY <2>1, <2>2, <2>3 DEF Request, Outcome, Ended, CallStep, FailStep
<1> QED
    BY <1>2, <1>3, <1>4, <1>5, <1>6 DEF RunCaller

\* A step of the server handles the request, loses it, or is no step of the
\* call.
LEMMA ServerIsCall ==
    ASSUME ExchangeInv, RunServer \/ AcceptConnection \/ ServerDies
    PROVE  CallStep
<1>1. ExchangeTypeOK /\ CallerInv /\ ServerInv /\ CloseInv
    BY DEF ExchangeInv
<1>2. UNCHANGED <<caller, sent, size>>
    BY DEF RunServer, AcceptConnection, ServerDies, ReceiveRequest, SeeCallerClose,
           HandleRequest, SendResponse
<1>3. UNCHANGED Outcome
    BY <1>2 DEF Outcome
<1>4. CASE HandleRequest
    <2>1. server = "handling" /\ ~handled /\ handled' /\ sent = Frame(size)
        BY <1>1, <1>4, NumberFacts DEF HandleRequest, CallerInv, ServerInv
    <2>2. Request = "pending" /\ Request' = "handled"
        BY <1>2, <2>1, <1>1, NumberFacts DEF Request
    <2> QED
        BY <1>3, <2>2 DEF CallStep, HandleStep
<1>5. CASE ~HandleRequest
    <2>1. UNCHANGED handled /\ (server = "closed" => server' = "closed")
        BY <1>5 DEF RunServer, AcceptConnection, ServerDies, ReceiveRequest,
                    SeeCallerClose, SendResponse
    <2>2. UNCHANGED Request \/ (Request \in {"unsent", "pending"} /\ Request' = "lost")
        BY <1>2, <2>1 DEF Request
    <2> QED
        BY <1>3, <2>2 DEF CallStep, LoseStep
<1> QED
    BY <1>4, <1>5

LEMMA NextIsCall ==
    ASSUME ExchangeInv, [ExchangeNext]_exchangeVars
    PROVE  CallStep
<1>1. CASE UNCHANGED exchangeVars
    BY <1>1 DEF exchangeVars, Request, Outcome, CallStep
<1> QED
    BY <1>1, CallerIsCall, ServerIsCall DEF ExchangeNext

\* However the bytes arrive and whoever dies, the connection is one call.
THEOREM ImplementsCallHolds == ExchangeSpec => ImplementsCall
<1>1. ExchangeInit => Whole!Init
    <2> SUFFICES ASSUME ExchangeInit PROVE Whole!Init
        OBVIOUS
    <2>1. Frame(size) # 0
        BY SizesAreNat, FrameFacts DEF ExchangeInit
    <2> QED
        BY <2>1 DEF ExchangeInit, Whole!Init, Ended
<1>2. ExchangeInv /\ [ExchangeNext]_exchangeVars
         => [Whole!Send \/ Whole!Lose \/ Whole!Handle \/ Whole!Answer \/ Whole!Fail]_(Whole!callVars)
    BY NextIsCall, CallStepIsWhole
<1> QED
    BY <1>1, <1>2, ExchangeInvHolds, PTL DEF ExchangeSpec, ImplementsCall, Whole!Spec

=============================================================================
