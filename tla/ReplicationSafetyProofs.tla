---------------------- MODULE ReplicationSafetyProofs ----------------------
(***************************************************************************)
(* ReplicationInv is an invariant of Spec, for every value of the          *)
(* constants, and what follows from it: chain files follow the producer,   *)
(* stored blocks stay, a quorum holds every block but the last, and the    *)
(* system implements CommittedLog.                                         *)
(***************************************************************************)
EXTENDS LogReplicationProofs, FiniteSetTheorems

-----------------------------------------------------------------------------
(* What the network operators do to the blocks in flight.                  *)

\* A connection adds the one request.
LEMMA ConnectKeeps ==
    ASSUME NetworkTypeOK, NEW S, InFlightAmong(S),
           NEW r \in Callers, NEW v \in Validators, NEW request,
           request.type = "COMMIT_BLOCK" => request.block \in S,
           Connect(r, v, request)
    PROVE  /\ \A w \in Validators : CommitsAmong(inbox'[w], S)
           /\ \A w \in Callers : AnswersAmong(call'[w], S)
           /\ call'[r] \in {Waiting, Closed}
<1>1. call' = [call EXCEPT ![r] = Waiting] \/ call' = [call EXCEPT ![r] = Closed]
    BY DEF Connect
<1>2. call'[r] \in {Waiting, Closed} /\ \A w \in Callers \ {r} : call'[w] = call[w]
    BY <1>1 DEF NetworkTypeOK
<1>3. \A w \in Callers : AnswersAmong(call'[w], S)
    BY <1>2 DEF InFlightAmong, AnswersAmong, Waiting, Closed
<1> DEFINE longer == Append(inbox[v], request)
<1>4. /\ DOMAIN longer = 1..(Len(inbox[v]) + 1)
      /\ \A n \in 1..Len(inbox[v]) : longer[n] = inbox[v][n]
      /\ longer[Len(inbox[v]) + 1] = request
    BY AppendFacts DEF NetworkTypeOK
<1>5. Len(inbox[v]) \in Nat /\ DOMAIN inbox[v] = 1..Len(inbox[v])
    BY SeqFacts DEF NetworkTypeOK
<1>6. inbox' = [inbox EXCEPT ![v] = longer] \/ inbox' = inbox
    BY DEF Connect
<1> HIDE DEF longer
<1>7. CommitsAmong(longer, S)
    BY <1>4, <1>5 DEF CommitsAmong, InFlightAmong
<1>8. \A w \in Validators : CommitsAmong(inbox'[w], S)
    BY <1>6, <1>7 DEF InFlightAmong, NetworkTypeOK
<1> QED
    BY <1>2, <1>3, <1>8

\* Abandoned requests keep their blocks.
LEMMA AbandonKeeps ==
    ASSUME NEW q, IsSeq(q), \A n \in DOMAIN q : IsRequest(q[n]),
           NEW S, CommitsAmong(q, S), NEW r
    PROVE  CommitsAmong(Abandon(q, r), S)
<1>1. /\ DOMAIN Abandon(q, r) = DOMAIN q
      /\ \A n \in DOMAIN q : /\ Abandon(q, r)[n].type = q[n].type
                             /\ q[n].type # "SYNC_REQUEST" =>
                                   Abandon(q, r)[n].block = q[n].block
    BY AbandonFacts
<1> QED
    BY <1>1 DEF CommitsAmong

\* Giving up adds nothing.
LEMMA GiveUpKeeps ==
    ASSUME NetworkTypeOK, NEW S, InFlightAmong(S), NEW r \in Callers, GiveUp(r)
    PROVE  /\ \A w \in Validators : CommitsAmong(inbox'[w], S)
           /\ \A w \in Callers : AnswersAmong(call'[w], S)
<1>1. \A w \in Validators : CommitsAmong(inbox'[w], S)
    BY AbandonKeeps DEF GiveUp, InFlightAmong, NetworkTypeOK
<1>2. \A w \in Callers : call'[w] = IF w = r THEN Closed ELSE call[w]
    BY DEF GiveUp, NetworkTypeOK
<1> QED
    BY <1>1, <1>2 DEF InFlightAmong, AnswersAmong, Closed

\* An answer adds its own blocks, and reaches one caller at most.
LEMMA ReplyKeeps ==
    ASSUME NetworkTypeOK, NEW S, InFlightAmong(S),
           NEW v \in Validators, inbox[v] # <<>>,
           NEW response, AnswersAmong(response, S), Reply(v, response)
    PROVE  /\ \A w \in Validators : CommitsAmong(inbox'[w], S)
           /\ \A w \in Callers : AnswersAmong(call'[w], S)
           /\ \A w \in Callers :
                 call'[w] = call[w] \/ call'[w] = response
<1> DEFINE shorter == Tail(inbox[v])
<1>1. /\ DOMAIN shorter = 1..(Len(inbox[v]) - 1)
      /\ \A n \in 1..(Len(inbox[v]) - 1) : shorter[n] = inbox[v][n + 1]
    BY TailFacts DEF NetworkTypeOK
<1>2. Len(inbox[v]) \in Nat /\ DOMAIN inbox[v] = 1..Len(inbox[v])
    BY SeqFacts DEF NetworkTypeOK
<1>3. inbox' = [inbox EXCEPT ![v] = shorter]
    BY DEF Reply
<1> HIDE DEF shorter
<1>4. CommitsAmong(shorter, S)
    BY <1>1, <1>2 DEF CommitsAmong, InFlightAmong
<1>5. \A w \in Validators : CommitsAmong(inbox'[w], S)
    BY <1>3, <1>4 DEF InFlightAmong, NetworkTypeOK
<1>6. \A w \in Callers : call'[w] = call[w] \/ call'[w] = response
    BY DEF Reply, NetworkTypeOK
<1> QED
    BY <1>5, <1>6 DEF InFlightAmong

\* A crash adds nothing.
LEMMA DropSocketsKeeps ==
    ASSUME NetworkTypeOK, NEW S, InFlightAmong(S), NEW v \in Validators, DropSockets(v)
    PROVE  /\ \A w \in Validators : CommitsAmong(inbox'[w], S)
           /\ \A w \in Callers : AnswersAmong(call'[w], S)
<1>1. \A w \in Validators : inbox'[w] = IF w = v THEN <<>> ELSE Abandon(inbox[w], v)
    BY DEF DropSockets
<1>2. \A w \in Validators : CommitsAmong(inbox'[w], S)
    BY <1>1, AbandonKeeps, EmptyIsSeq DEF InFlightAmong, NetworkTypeOK, CommitsAmong
<1>3. \A w \in Callers : call'[w] = IF w = v THEN Idle ELSE call[w]
    BY DEF DropSockets, NetworkTypeOK
<1> QED
    BY <1>2, <1>3 DEF InFlightAmong, AnswersAmong, Idle

-----------------------------------------------------------------------------
(* The steps of the producer.                                              *)

\* InFlightInv, in the terms of the lemmas above.
LEMMA InFlightParts ==
    InFlightInv => InFlightAmong(Range(producer_chain))
BY DEF InFlightInv

\* And back, after a step.
LEMMA InFlightFromParts ==
    ASSUME NEW S, S \subseteq Range(producer_chain)',
           \A v \in Validators : CommitsAmong(inbox'[v], S),
           \A r \in Callers : AnswersAmong(call'[r], S),
           \A v \in Validators :
              /\ \A n \in DOMAIN sync'[v].peer_blocks : sync'[v].peer_blocks[n].blocks \subseteq S
              /\ sync'[v].blocks \subseteq S
              /\ IsPrefix(sync'[v].working_chain, producer_chain')
    PROVE  InFlightInv'
BY DEF InFlightInv, InFlightAmong, CommitsAmong, AnswersAmong

-----------------------------------------------------------------------------
(* The ACKs of the candidate.                                              *)

\* A counted ACK is of another validator of G, about the candidate.
LEMMA CollectAckFrom ==
    ASSUME NetworkTypeOK, ProducerTypeOK, NEW G, AcksFrom(G), CollectAck
    PROVE  AcksFrom(G)'
<1> DEFINE response == call[PRODUCER]
           ack == [validator_id |-> response.validator_id,
                   block_index  |-> response.block_index,
                   block_hash   |-> response.block_hash]
           asked == VALIDATOR_IDS[turn]
<1>1. /\ turn \in 1..Len(VALIDATOR_IDS)
      /\ asked \in Validators
      /\ Len(VALIDATOR_IDS) \in Nat
      /\ DOMAIN VALIDATOR_IDS = 1..Len(VALIDATOR_IDS)
    BY TurnInBounds, NetworkAssumption, LenProperties DEF CollectAck
<1>2. call'[PRODUCER] = Idle
    BY DEF CollectAck, NetworkTypeOK, Callers
<1>3. step = "propose" /\ UNCHANGED <<step, candidate>>
    BY DEF CollectAck, Proposing
<1>4. turn' = turn + 1
    BY DEF CollectAck
<1>5. \/ acks' = acks
      \/ ValidAck(response, asked) /\ acks' = Append(acks, ack)
    BY DEF CollectAck
<1> DEFINE Counted(a) == /\ a.validator_id \in G
                         /\ a.block_index = candidate.index
                         /\ a.block_hash = candidate.current_hash
<1>6. /\ \A n \in DOMAIN acks :
            /\ acks[n].validator_id \in {VALIDATOR_IDS[m] : m \in 1..(turn - 1)}
            /\ Counted(acks[n])
      /\ \A m, n \in DOMAIN acks :
            acks[m].validator_id = acks[n].validator_id => m = n
    BY <1>3 DEF AcksFrom
<1>7. 1..(turn - 1) \subseteq 1..(turn' - 1) /\ turn \in 1..(turn' - 1)
    BY <1>1, <1>4
<1>8. \A v \in Validators : ~ValidAck(call[PRODUCER], v)'
    BY <1>2 DEF ValidAck, Idle
<1>9. /\ \A n \in DOMAIN acks' :
            /\ acks'[n].validator_id \in {VALIDATOR_IDS[m] : m \in 1..(turn' - 1)}
            /\ Counted(acks'[n])
      /\ \A m, n \in DOMAIN acks' :
            acks'[m].validator_id = acks'[n].validator_id => m = n
    <2>1. CASE acks' = acks
        <3> HIDE DEF Counted
        <3> QED
            BY <1>6, <1>7, <2>1
    <2>2. CASE ValidAck(response, asked) /\ acks' = Append(acks, ack)
        <3>1. ack.validator_id = asked
            BY <2>2 DEF ValidAck
        <3>2. asked \in G
            BY <1>1, <1>3, <2>2 DEF AcksFrom
        <3>3. Counted(ack)
            BY <2>2, <3>1, <3>2 DEF ValidAck
        <3>4. \A m \in 1..(turn - 1) : VALIDATOR_IDS[m] # asked
            BY <1>1, NetworkAssumption DEF IsInjective
        <3>5. Len(acks) \in Nat /\ DOMAIN acks = 1..Len(acks)
            BY SeqFacts DEF ProducerTypeOK
        <3> DEFINE more == Append(acks, ack)
        <3>6. /\ DOMAIN more = 1..(Len(acks) + 1)
              /\ \A n \in 1..Len(acks) : more[n] = acks[n]
              /\ more[Len(acks) + 1] = ack
            BY AppendFacts DEF ProducerTypeOK
        <3>7. acks' = more
            BY <2>2
        <3> HIDE DEF more, ack, Counted
        <3>8. \A n \in DOMAIN more :
                 /\ more[n].validator_id \in {VALIDATOR_IDS[m] : m \in 1..(turn' - 1)}
                 /\ Counted(more[n])
            BY <1>6, <1>7, <3>1, <3>3, <3>5, <3>6
        <3>9. \A n \in 1..Len(acks) : more[n].validator_id # asked
            BY <1>6, <3>4, <3>5, <3>6
        <3>10. \A m, n \in DOMAIN more :
                  more[m].validator_id = more[n].validator_id => m = n
            BY <1>6, <3>1, <3>5, <3>6, <3>9
        <3> QED
            BY <3>7, <3>8, <3>10
    <2> QED
        BY <1>5, <2>1, <2>2
<1> QED
    BY <1>2, <1>3, <1>8, <1>9 DEF AcksFrom

\* So it is with every step of the producer.
LEMMA ProducerAcksFrom ==
    ASSUME NetworkTypeOK, ProducerTypeOK, NEW G, AcksFrom(G),
           (\E log \in LOGS : ReceiveLog(log)) \/ HandleLog \/ RestartProducer
    PROVE  AcksFrom(G)'
<1>1. turn \in Int /\ Len(VALIDATOR_IDS) \in Nat
    BY NetworkAssumption, LenProperties DEF ProducerTypeOK
<1>2. CASE \E log \in LOGS : ReceiveLog(log)
    <2>1. call[PRODUCER] = Idle
        BY <1>2 DEF ReceiveLog, AcksFrom, Proposing, Committing
    <2>2. call'[PRODUCER] = Idle /\ acks' = <<>>
        BY <1>2, <2>1 DEF ReceiveLog, networkVars
    <2> QED
        BY <2>2, EmptyIsSeq DEF AcksFrom, ValidAck, Idle
<1>3. CASE AbortCommit \/ FinishCommit \/ AppendCandidate
    <2>1. ~Proposing /\ ~Committing
        BY <1>1, <1>3 DEF AbortCommit, FinishCommit, AppendCandidate, Proposing, Committing
    <2>2. call'[PRODUCER] = Idle /\ step' # "propose"
        BY <1>3, <2>1 DEF AbortCommit, FinishCommit, AppendCandidate, AcceptNext, AcksFrom,
                          networkVars
    <2> QED
        BY <2>2 DEF AcksFrom
<1>4. CASE RestartProducer
    BY <1>4 DEF RestartProducer, AcceptNext, AcksFrom, NetworkTypeOK, Callers
<1>5. CASE CollectAck
    BY <1>5, CollectAckFrom
<1>6. CASE IgnoreCommitReply
    BY <1>6 DEF IgnoreCommitReply, Committing, AcksFrom, NetworkTypeOK, Callers
<1>7. CASE CommitBlock
    BY <1>7 DEF CommitBlock, Committing, AcksFrom, producerVars
<1>8. CASE ProposeBlock
    <2>1. UNCHANGED producerVars /\ call'[PRODUCER] \in {Waiting, Closed}
        BY <1>8 DEF ProposeBlock, Connect, NetworkTypeOK, Callers
    <2>2. \A w \in Validators : ~ValidAck(call[PRODUCER], w)'
        BY <2>1 DEF ValidAck, Waiting, Closed
    <2> QED
        BY <1>8, <2>1, <2>2 DEF ProposeBlock, Proposing, producerVars, AcksFrom
<1> QED
    BY <1>2, <1>3, <1>4, <1>5, <1>6, <1>7, <1>8 DEF HandleLog

\* The producer's call changes while the producer waits.
LEMMA AnswerFrom ==
    ASSUME NEW G, AcksFrom(G), UNCHANGED producerVars,
           \/ call'[PRODUCER] = call[PRODUCER]
           \/ /\ call[PRODUCER] # Idle
              /\ \A w \in Validators : step = "propose" /\ ValidAck(call'[PRODUCER], w) => w \in G
    PROVE  AcksFrom(G)'
<1>1. UNCHANGED <<step, candidate, turn, acks>>
    BY DEF producerVars
<1>2. \A w \in Validators : ValidAck(call[PRODUCER], w)' <=> ValidAck(call'[PRODUCER], w)
    BY <1>1 DEF ValidAck
<1>3. ~Proposing' /\ ~Committing' => call'[PRODUCER] = Idle
    BY <1>1 DEF AcksFrom, Proposing, Committing
<1>4. step = "propose" => \A w \in Validators : ValidAck(call'[PRODUCER], w) => w \in G
    BY DEF AcksFrom
<1> QED
    BY <1>1, <1>2, <1>3, <1>4 DEF AcksFrom

\* As long as validators with the whole chain have the whole chain.
LEMMA AckInvAfter ==
    ASSUME NEW G, AcksFrom(G)',
           step' = "propose" => \A v \in G : v \in WholeChainHolders'
    PROVE  AckInv'
<1>1. PICK H : H = WholeChainHolders'
    OBVIOUS
<1>2. AcksFrom(H)'
    BY <1>1 DEF AcksFrom
<1> QED
    BY <1>1, <1>2 DEF AckInv, AcksFrom

\* The producer's steps leave the files alone, and it only appends once the
\* ACKs are counted.
LEMMA ProducerAckInv ==
    ASSUME TypeOK, AckInv, UNCHANGED validatorVars,
           (\E log \in LOGS : ReceiveLog(log)) \/ HandleLog
    PROVE  AckInv'
<1>1. PICK G : G = WholeChainHolders
    OBVIOUS
<1>2. AcksFrom(G)
    BY <1>1 DEF AckInv
<1>3. AcksFrom(G)'
    BY <1>2, ProducerAcksFrom DEF TypeOK
<1>4. step' = "propose" => UNCHANGED producer_chain
    BY DEF HandleLog, ReceiveLog, ProposeBlock, CollectAck, AbortCommit, AppendCandidate,
           CommitBlock, IgnoreCommitReply, FinishCommit, AcceptNext, producerVars
<1>5. step' = "propose" => \A v \in G : v \in WholeChainHolders'
    BY <1>1, <1>4 DEF WholeChainHolders, validatorVars
<1> QED
    BY <1>3, <1>5, AckInvAfter

\* A step that only moves messages of the producer keeps the invariant when
\* it keeps what the invariant says of messages.
LEMMA ProducerMessagesInv ==
    ASSUME TypeOK, ReplicationInv, UNCHANGED validatorVars,
           UNCHANGED <<producer_chain, step, candidate, turn, acks, listening>>,
           \A v \in Validators : CommitsAmong(inbox'[v], Range(producer_chain)),
           \A r \in Callers : AnswersAmong(call'[r], Range(producer_chain)),
           ProposeBlock \/ CommitBlock
    PROVE  ReplicationInv'
<1>1. CandidateInv'
    BY DEF ReplicationInv, CandidateInv
<1>2. ChainsFollowProducer'
    BY DEF ReplicationInv, ChainsFollowProducer, validatorVars
<1>3. InFlightInv'
    BY InFlightFromParts DEF ReplicationInv, InFlightInv, InFlightAmong, validatorVars
<1>4. SyncInv'
    BY DEF ReplicationInv, SyncInv, validatorVars
<1>5. AckInv'
    BY ProducerAckInv DEF ReplicationInv, HandleLog
<1> QED
    BY <1>1, <1>2, <1>3, <1>4, <1>5 DEF ReplicationInv

\* create_block_from_log: the candidate has the next index.
LEMMA ReceiveLogInv ==
    ASSUME TypeOK, ReplicationInv, NEW log \in LOGS, ReceiveLog(log), UNCHANGED validatorVars
    PROVE  ReplicationInv'
<1>1. CandidateInv'
    <2>1. Len(producer_chain) \in Int
        BY SeqFacts DEF TypeOK, ProducerTypeOK, IsChain
    <2>2. /\ candidate'.index = Len(producer_chain)
          /\ candidate'.current_hash = CalculateBlockHash(candidate')
        BY <2>1, CreateBlockFacts DEF ReceiveLog
    <2> QED
        BY <2>2 DEF ReceiveLog, ReplicationInv, CandidateInv
<1>2. ChainsFollowProducer'
    BY DEF ReceiveLog, ReplicationInv, ChainsFollowProducer, validatorVars
<1>3. InFlightInv'
    BY DEF ReceiveLog, ReplicationInv, InFlightInv, InFlightAmong, CommitsAmong, AnswersAmong,
           validatorVars, networkVars
<1>4. SyncInv'
    BY DEF ReceiveLog, ReplicationInv, SyncInv, validatorVars, networkVars
<1>5. AckInv'
    <2>1. \E any \in LOGS : ReceiveLog(any)
        OBVIOUS
    <2> QED
        BY <2>1, ProducerAckInv DEF ReplicationInv
<1> QED
    BY <1>1, <1>2, <1>3, <1>4, <1>5 DEF ReplicationInv

\* The two ways back to "accept".
LEMMA AcceptNextInv ==
    ASSUME TypeOK, ReplicationInv, AbortCommit \/ FinishCommit, UNCHANGED validatorVars
    PROVE  ReplicationInv'
<1>1. AcceptNext /\ UNCHANGED <<producer_chain, networkVars>>
    BY DEF AbortCommit, FinishCommit
<1>2. CandidateInv'
    BY <1>1 DEF AcceptNext, ReplicationInv, CandidateInv
<1>3. ChainsFollowProducer'
    BY <1>1 DEF ReplicationInv, ChainsFollowProducer, validatorVars
<1>4. InFlightInv'
    BY <1>1 DEF ReplicationInv, InFlightInv, InFlightAmong, CommitsAmong, AnswersAmong,
                validatorVars, networkVars
<1>5. SyncInv'
    BY <1>1 DEF ReplicationInv, SyncInv, validatorVars, networkVars
<1>6. AckInv'
    BY ProducerAckInv DEF ReplicationInv, HandleLog
<1> QED
    BY <1>2, <1>3, <1>4, <1>5, <1>6 DEF ReplicationInv

\* PROPOSE_BLOCK carries nothing that will be stored.
LEMMA ProposeBlockInv ==
    ASSUME TypeOK, ReplicationInv, ProposeBlock, UNCHANGED validatorVars
    PROVE  ReplicationInv'
<1> DEFINE S == Range(producer_chain)
<1>1. VALIDATOR_IDS[turn] \in Validators
    BY TurnInBounds DEF TypeOK, ProposeBlock
<1>2. InFlightAmong(S)
    BY InFlightParts DEF ReplicationInv
<1>3. Connect(PRODUCER, VALIDATOR_IDS[turn], Request("PROPOSE_BLOCK"))
    BY DEF ProposeBlock
<1>4. PRODUCER \in Callers /\ Request("PROPOSE_BLOCK").type # "COMMIT_BLOCK"
    BY DEF Callers, Request
<1>5. /\ \A w \in Validators : CommitsAmong(inbox'[w], S)
      /\ \A w \in Callers : AnswersAmong(call'[w], S)
    <2> HIDE DEF S
    <2> QED
        BY <1>1, <1>2, <1>3, <1>4, ConnectKeeps DEF TypeOK
<1> QED
    BY <1>5, ProducerMessagesInv DEF ProposeBlock, producerVars, Connect

\* COMMIT_BLOCK carries a block of the producer's chain.
LEMMA CommitBlockInv ==
    ASSUME TypeOK, ReplicationInv, CommitBlock, UNCHANGED validatorVars
    PROVE  ReplicationInv'
<1> DEFINE S == Range(producer_chain)
<1>1. VALIDATOR_IDS[turn] \in Validators
    BY TurnInBounds DEF TypeOK, CommitBlock
<1>2. InFlightAmong(S)
    BY InFlightParts DEF ReplicationInv
<1>3. PRODUCER \in Callers
    BY DEF Callers
<1>4. Request("COMMIT_BLOCK").block \in S
    BY DEF CommitBlock, Committing, ReplicationInv, CandidateInv, Request
<1>5. /\ \A w \in Validators : CommitsAmong(inbox'[w], S)
      /\ \A w \in Callers : AnswersAmong(call'[w], S)
    <2>1. CASE Connect(PRODUCER, VALIDATOR_IDS[turn], Request("COMMIT_BLOCK"))
        <3> HIDE DEF S
        <3> QED
            BY <1>1, <1>2, <1>3, <1>4, <2>1, ConnectKeeps DEF TypeOK
    <2>2. CASE FailToSend(PRODUCER)
        <3>1. \A w \in Callers : call'[w] = IF w = PRODUCER THEN Closed ELSE call[w]
            BY <2>2 DEF FailToSend, TypeOK, NetworkTypeOK
        <3> QED
            BY <1>2, <1>3, <2>2, <3>1 DEF FailToSend, InFlightAmong, AnswersAmong, Closed
    <2> QED
        BY <2>1, <2>2 DEF CommitBlock
<1> QED
    BY <1>5, ProducerMessagesInv
       DEF CommitBlock, producerVars, Connect, FailToSend

\* Answers that are read leave no trace but the ACKs counted.
LEMMA ReadAnswerInv ==
    ASSUME TypeOK, ReplicationInv, CollectAck \/ IgnoreCommitReply, UNCHANGED validatorVars
    PROVE  ReplicationInv'
<1>1. UNCHANGED <<producer_chain, step, candidate, listening, inbox>>
    BY DEF CollectAck, IgnoreCommitReply
<1>2. CandidateInv'
    BY <1>1 DEF ReplicationInv, CandidateInv
<1>3. ChainsFollowProducer'
    BY <1>1 DEF ReplicationInv, ChainsFollowProducer, validatorVars
<1>4. \A r \in Callers : call'[r] = Idle \/ call'[r] = call[r]
    BY DEF CollectAck, IgnoreCommitReply, TypeOK, NetworkTypeOK
<1>5. InFlightInv'
    BY <1>1, <1>4 DEF ReplicationInv, InFlightInv, InFlightAmong, AnswersAmong,
                      validatorVars, Idle
<1>6. SyncInv'
    BY <1>1 DEF ReplicationInv, SyncInv, validatorVars
<1>7. AckInv'
    BY ProducerAckInv DEF ReplicationInv, HandleLog
<1> QED
    BY <1>2, <1>3, <1>5, <1>6, <1>7 DEF ReplicationInv

\* The candidate goes to the end of the producer's chain.
LEMMA AppendCandidateInv ==
    ASSUME TypeOK, ReplicationInv, AppendCandidate, UNCHANGED validatorVars
    PROVE  /\ ReplicationInv'
           /\ IsPrefix(producer_chain, producer_chain')
           /\ Len(producer_chain') = Len(producer_chain) + 1
<1> DEFINE longer == Append(producer_chain, candidate')
<1>1. /\ producer_chain' = longer
      /\ step = "propose" /\ step' = "commit"
      /\ UNCHANGED <<listening, inbox, call, chain_file, sync>>
    BY DEF AppendCandidate, networkVars, validatorVars
<1>2. IsChain(producer_chain)
    BY DEF TypeOK, ProducerTypeOK
<1>3. Len(producer_chain) \in Nat /\ DOMAIN producer_chain = 1..Len(producer_chain)
    BY <1>2, SeqFacts DEF IsChain
<1>4. /\ IsSeq(longer)
      /\ Len(longer) = Len(producer_chain) + 1
      /\ DOMAIN longer = 1..(Len(producer_chain) + 1)
      /\ \A n \in 1..Len(producer_chain) : longer[n] = producer_chain[n]
      /\ longer[Len(producer_chain) + 1] = candidate'
    BY <1>2, AppendFacts DEF IsChain
<1>5. IsPrefix(producer_chain, longer)
    BY <1>2, PrefixOrder DEF IsChain
<1> HIDE DEF longer
<1>6. Range(producer_chain) \subseteq Range(longer) /\ candidate' \in Range(longer)
    BY <1>3, <1>4 DEF Range
<1>7. candidate'.index = Len(producer_chain)
    <2>1. candidate'.index = candidate.index
        BY AddCommitProofFacts DEF AppendCandidate, TypeOK, ProducerTypeOK
    <2> QED
        BY <1>1, <2>1 DEF ReplicationInv, CandidateInv
<1>8. CandidateInv'
    <2>1. Indexed(longer)
        BY <1>3, <1>4, <1>7 DEF Indexed, ReplicationInv, CandidateInv
    <2> QED
        BY <1>1, <1>6, <2>1 DEF CandidateInv
<1>9. ChainsFollowProducer'
    BY <1>1, <1>2, <1>4, <1>5, PrefixTransitive
       DEF ReplicationInv, ChainsFollowProducer, TypeOK, ValidatorTypeOK, IsChain
<1>10. InFlightInv'
    <2>1. \A v \in Validators : IsPrefix(sync[v].working_chain, longer)
        BY <1>2, <1>4, <1>5, PrefixTransitive
           DEF ReplicationInv, InFlightInv, TypeOK, ValidatorTypeOK, IsSync, IsChain
    <2> QED
        BY <1>1, <1>6, <2>1
           DEF ReplicationInv, InFlightInv, InFlightAmong, CommitsAmong, AnswersAmong
<1>11. SyncInv'
    BY <1>1 DEF ReplicationInv, SyncInv
<1>12. AckInv'
    BY ProducerAckInv DEF ReplicationInv, HandleLog
<1> QED
    BY <1>1, <1>4, <1>5, <1>8, <1>9, <1>10, <1>11, <1>12 DEF ReplicationInv

\* Any step of the producer.
LEMMA HandleLogInv ==
    ASSUME TypeOK, ReplicationInv, HandleLog
    PROVE  /\ ReplicationInv'
           /\ IsPrefix(producer_chain, producer_chain')
<1>1. UNCHANGED validatorVars
    BY DEF HandleLog
<1>2. CASE AppendCandidate
    BY <1>1, <1>2, AppendCandidateInv
<1>3. CASE ~AppendCandidate
    <2>1. UNCHANGED producer_chain
        BY <1>3 DEF HandleLog, ProposeBlock, CollectAck, AbortCommit, CommitBlock,
                    IgnoreCommitReply, FinishCommit, producerVars
    <2>2. IsPrefix(producer_chain, producer_chain')
        BY <2>1, PrefixOrder DEF TypeOK, ProducerTypeOK, IsChain
    <2>3. CASE AbortCommit \/ FinishCommit
        BY <1>1, <2>2, <2>3, AcceptNextInv
    <2>4. CASE ProposeBlock \/ CommitBlock
        BY <1>1, <2>2, <2>4, ProposeBlockInv, CommitBlockInv
    <2>5. CASE CollectAck \/ IgnoreCommitReply
        BY <1>1, <2>2, <2>5, ReadAnswerInv
    <2> QED
        BY <1>3, <2>3, <2>4, <2>5 DEF HandleLog
<1> QED
    BY <1>2, <1>3

-----------------------------------------------------------------------------
(* The steps of the validators.                                            *)

\* A step of validator v keeps the invariant when it keeps these parts of it;
\* chain files only grow, within the producer's chain.
LEMMA ValidatorStepInv ==
    ASSUME TypeOK, TypeOK', ReplicationInv, UNCHANGED producerVars,
           \A w \in Validators : CommitsAmong(inbox'[w], Range(producer_chain)),
           \A r \in Callers : AnswersAmong(call'[r], Range(producer_chain)),
           \A w \in Validators : /\ IsPrefix(chain_file[w], chain_file'[w])
                                 /\ IsPrefix(chain_file'[w], producer_chain),
           SyncInv',
           \A w \in Validators :
              /\ \A n \in DOMAIN sync'[w].peer_blocks :
                    sync'[w].peer_blocks[n].blocks \subseteq Range(producer_chain)
              /\ sync'[w].blocks \subseteq Range(producer_chain)
              /\ IsPrefix(sync'[w].working_chain, producer_chain),
           \/ call'[PRODUCER] = call[PRODUCER]
           \/ /\ call[PRODUCER] # Idle
              /\ \A w \in Validators :
                    step = "propose" /\ ValidAck(call'[PRODUCER], w) =>
                        chain_file[w] = producer_chain
    PROVE  ReplicationInv'
<1>1. UNCHANGED <<producer_chain, step, candidate, turn, acks>>
    BY DEF producerVars
<1>2. CandidateInv'
    BY <1>1 DEF ReplicationInv, CandidateInv
<1>3. ChainsFollowProducer'
    BY <1>1 DEF ChainsFollowProducer
<1>4. InFlightInv'
    BY <1>1, InFlightFromParts
<1>5. ASSUME NEW w \in Validators, chain_file[w] = producer_chain
      PROVE  chain_file'[w] = producer_chain
    <2>1. IsSeq(producer_chain) /\ IsSeq(chain_file'[w])
        BY DEF TypeOK, ProducerTypeOK, ValidatorTypeOK, IsChain
    <2>2. Len(producer_chain) \in Nat /\ Len(chain_file'[w]) \in Nat
        BY <2>1, SeqFacts
    <2>3. Len(producer_chain) <= Len(chain_file'[w]) /\ Len(chain_file'[w]) <= Len(producer_chain)
        BY <1>5, <2>1, PrefixFacts
    <2>4. Len(chain_file'[w]) = Len(producer_chain)
        BY <2>2, <2>3
    <2> QED
        BY <2>1, <2>4, PrefixOfSameLength
<1>6. AckInv'
    <2>1. PICK G : G = WholeChainHolders
        OBVIOUS
    <2>2. AcksFrom(G)
        BY <2>1 DEF ReplicationInv, AckInv
    <2>3. AcksFrom(G)'
        BY <2>1, <2>2, AnswerFrom DEF WholeChainHolders
    <2>4. \A w \in G : w \in WholeChainHolders'
        BY <1>1, <1>5, <2>1 DEF WholeChainHolders
    <2> QED
        BY <2>3, <2>4, AckInvAfter
<1> QED
    BY <1>2, <1>3, <1>4, <1>6 DEF ReplicationInv

\* A prefix has no other elements.
LEMMA PrefixRange ==
    ASSUME NEW s, IsSeq(s), NEW t, IsSeq(t), IsPrefix(s, t)
    PROVE  Range(s) \subseteq Range(t)
BY PrefixFacts, SeqFacts DEF Range

\* The producer only gets an answer while it waits for it.
LEMMA ReplyToProducer ==
    ASSUME NetworkTypeOK, OneCallAtATime, NEW v \in Validators, inbox[v] # <<>>,
           NEW response, Reply(v, response)
    PROVE  \/ call'[PRODUCER] = call[PRODUCER]
           \/ call[PRODUCER] # Idle /\ call'[PRODUCER] = response
<1>1. Head(inbox[v]) = inbox[v][1] /\ 1 \in DOMAIN inbox[v]
    BY TailFacts DEF NetworkTypeOK
<1>2. PRODUCER \in Callers
    BY DEF Callers
<1>3. CASE Head(inbox[v]).live /\ Head(inbox[v]).from = PRODUCER
    <2>1. 1 \in Pending(v, PRODUCER)
        BY <1>1, <1>3 DEF Pending
    <2>2. call[PRODUCER] = Waiting
        BY <1>2, <2>1 DEF OneCallAtATime
    <2>3. call'[PRODUCER] = response
        BY <1>2, <1>3 DEF Reply, NetworkTypeOK
    <2> QED
        BY <2>2, <2>3 DEF Waiting, Idle
<1>4. CASE ~(Head(inbox[v]).live /\ Head(inbox[v]).from = PRODUCER)
    BY <1>2, <1>4 DEF Reply, NetworkTypeOK
<1> QED
    BY <1>3, <1>4

\* A handler that answers and leaves chain files and start-ups alone.
LEMMA ReplyInv ==
    ASSUME TypeOK, TypeOK', ReplicationInv, OneCallAtATime, NEW v \in Validators,
           inbox[v] # <<>>, NEW response, Reply(v, response),
           UNCHANGED <<chain_file, sync, producerVars>>,
           AnswersAmong(response, Range(producer_chain)),
           \A w \in Validators :
              step = "propose" /\ ValidAck(response, w) => chain_file[w] = producer_chain
    PROVE  ReplicationInv'
<1>1. InFlightAmong(Range(producer_chain))
    BY InFlightParts DEF ReplicationInv
<1>2. /\ \A w \in Validators : CommitsAmong(inbox'[w], Range(producer_chain))
      /\ \A r \in Callers : AnswersAmong(call'[r], Range(producer_chain))
    <2> DEFINE S == Range(producer_chain)
    <2>1. InFlightAmong(S) /\ AnswersAmong(response, S)
        BY <1>1
    <2> HIDE DEF S
    <2>2. /\ \A w \in Validators : CommitsAmong(inbox'[w], S)
          /\ \A r \in Callers : AnswersAmong(call'[r], S)
        BY <2>1, ReplyKeeps DEF TypeOK
    <2> QED
        BY <2>2 DEF S
<1>3. \A w \in Validators : /\ IsPrefix(chain_file[w], chain_file'[w])
                            /\ IsPrefix(chain_file'[w], producer_chain)
    BY PrefixOrder DEF ReplicationInv, ChainsFollowProducer, TypeOK, ValidatorTypeOK, IsChain
<1>4. SyncInv'
    BY DEF ReplicationInv, SyncInv, Reply
<1>5. \A w \in Validators :
         /\ \A n \in DOMAIN sync'[w].peer_blocks :
               sync'[w].peer_blocks[n].blocks \subseteq Range(producer_chain)
         /\ sync'[w].blocks \subseteq Range(producer_chain)
         /\ IsPrefix(sync'[w].working_chain, producer_chain)
    BY DEF ReplicationInv, InFlightInv
<1>6. \/ call'[PRODUCER] = call[PRODUCER]
      \/ call[PRODUCER] # Idle /\ call'[PRODUCER] = response
    BY ReplyToProducer DEF TypeOK
<1> QED
    BY <1>2, <1>3, <1>4, <1>5, <1>6, ValidatorStepInv

\* An ACCEPT of the candidate comes from a validator with the whole chain:
\* equal hashes mean equal indices, and ValidateNextBlock compares the index.
LEMMA HandleProposeBlockInv ==
    ASSUME TypeOK, TypeOK', ReplicationInv, OneCallAtATime, NEW v \in Validators,
           HandleProposeBlock(v), UNCHANGED producerVars
    PROVE  ReplicationInv'
<1> DEFINE block == Head(inbox[v]).block
           accepted == ValidateNextBlock(chain_file[v], block)
           response == AckMessage(v, block, IF accepted THEN "ACCEPT" ELSE "REJECT")
<1>1. inbox[v] # <<>> /\ Reply(v, response) /\ UNCHANGED <<chain_file, sync>>
    BY DEF HandleProposeBlock, Received, validatorVars
<1>2. AnswersAmong(response, Range(producer_chain))
    BY DEF AnswersAmong, AckMessage
<1>3. ASSUME NEW w \in Validators, step = "propose", ValidAck(response, w)
      PROVE  chain_file[w] = producer_chain
    <2>1. w = v /\ accepted /\ block.current_hash = candidate.current_hash
        BY <1>3 DEF ValidAck, AckMessage
    <2>2. block.current_hash = CalculateBlockHash(block)
        BY <2>1 DEF ValidateNextBlock, VerifyBlock
    <2>3. candidate.current_hash = CalculateBlockHash(candidate)
          /\ candidate.index = Len(producer_chain) /\ Indexed(producer_chain)
        BY <1>3 DEF ReplicationInv, CandidateInv
    <2>4. block.index = Len(producer_chain)
        BY <2>1, <2>2, <2>3 DEF CalculateBlockHash
    <2>5. IsChain(producer_chain) /\ IsSeq(chain_file[v])
        BY DEF TypeOK, ProducerTypeOK, ValidatorTypeOK, IsChain
    <2>6. IsPrefix(chain_file[v], producer_chain)
        BY DEF ReplicationInv, ChainsFollowProducer
    <2> HIDE DEF block
    <2> QED
        BY <2>1, <2>3, <2>4, <2>5, <2>6, AcceptedByUpToDate
<1> HIDE DEF response
<1> QED
    BY <1>1, <1>2, <1>3, ReplyInv

\* Every other answer of a validator is no ACK.
LEMMA OtherReplyInv ==
    ASSUME TypeOK, TypeOK', ReplicationInv, OneCallAtATime, NEW v \in Validators,
           HandleCommitSaveFails(v) \/ HandleSyncRequest(v) \/ RejectExpired(v),
           UNCHANGED producerVars
    PROVE  ReplicationInv'
<1>1. CASE HandleSyncRequest(v)
    <2> DEFINE response == SyncResponse(v, Head(inbox[v]).latest_index)
    <2>1. inbox[v] # <<>> /\ Reply(v, response) /\ UNCHANGED <<chain_file, sync>>
        BY <1>1 DEF HandleSyncRequest, Received, validatorVars
    <2>2. Range(chain_file[v]) \subseteq Range(producer_chain)
        BY PrefixRange DEF ReplicationInv, ChainsFollowProducer, TypeOK, ProducerTypeOK,
                           ValidatorTypeOK, IsChain
    <2>3. AnswersAmong(response, Range(producer_chain))
        BY <2>2 DEF AnswersAmong, SyncResponse, Closed, GetBlocksAfterIndex, Range
    <2>4. \A w \in Validators : ~ValidAck(response, w)
        BY DEF ValidAck, SyncResponse, Closed
    <2> HIDE DEF response
    <2> QED
        BY <2>1, <2>3, <2>4, ReplyInv
<1>2. CASE HandleCommitSaveFails(v) \/ RejectExpired(v)
    <2>1. inbox[v] # <<>> /\ Reply(v, ErrorReply) /\ UNCHANGED <<chain_file, sync>>
        BY <1>2 DEF HandleCommitSaveFails, RejectExpired, Received, validatorVars
    <2>2. AnswersAmong(ErrorReply, Range(producer_chain))
          /\ \A w \in Validators : ~ValidAck(ErrorReply, w)
        BY DEF AnswersAmong, ValidAck, ErrorReply
    <2> QED
        BY <2>1, <2>2, ReplyInv
<1> QED
    BY <1>1, <1>2

\* A COMMIT_BLOCK extends a file within the producer's chain.
LEMMA HandleCommitBlockInv ==
    ASSUME TypeOK, TypeOK', ReplicationInv, OneCallAtATime, NEW v \in Validators,
           HandleCommitBlock(v), UNCHANGED producerVars
    PROVE  /\ ReplicationInv'
           /\ \A w \in Validators : IsPrefix(chain_file[w], chain_file'[w])
<1> DEFINE S == Range(producer_chain)
           block == Head(inbox[v]).block
           longer == ChainAfterAppend(chain_file[v], block)
<1>1. /\ inbox[v] # <<>> /\ Head(inbox[v]).type = "COMMIT_BLOCK"
      /\ v \in listening /\ UNCHANGED sync
    BY DEF HandleCommitBlock, Received
<1>2. PICK response \in {OkReply, ErrorReply} : Reply(v, response)
    BY DEF HandleCommitBlock
<1>3. AnswersAmong(response, S) /\ \A w \in Validators : ~ValidAck(response, w)
    BY <1>2 DEF AnswersAmong, ValidAck, OkReply, ErrorReply
<1>4. block \in S
    BY <1>1, TailFacts DEF ReplicationInv, InFlightInv, InFlightAmong, CommitsAmong,
                           TypeOK, NetworkTypeOK
<1>5. /\ IsChain(producer_chain) /\ Indexed(producer_chain)
      /\ IsSeq(chain_file[v]) /\ IsPrefix(chain_file[v], producer_chain)
    BY DEF TypeOK, ProducerTypeOK, ValidatorTypeOK, IsChain,
           ReplicationInv, CandidateInv, ChainsFollowProducer
<1>6. chain_file' = [chain_file EXCEPT ![v] = longer] \/ chain_file' = chain_file
    BY DEF HandleCommitBlock
<1> HIDE DEF block
<1>7. IsPrefix(chain_file[v], longer) /\ IsPrefix(longer, producer_chain)
    BY <1>4, <1>5, ChainAfterAppendGrows, AppendKeepsPrefix
<1> HIDE DEF longer
<1>8. \A w \in Validators : /\ IsPrefix(chain_file[w], chain_file'[w])
                            /\ IsPrefix(chain_file'[w], producer_chain)
    <2>1. \A w \in Validators : /\ IsPrefix(chain_file[w], chain_file[w])
                                /\ IsPrefix(chain_file[w], producer_chain)
        BY PrefixOrder DEF TypeOK, ValidatorTypeOK, IsChain, ReplicationInv, ChainsFollowProducer
    <2> QED
        BY <1>6, <1>7, <2>1 DEF TypeOK, ValidatorTypeOK
<1>9. InFlightAmong(S)
    BY InFlightParts DEF ReplicationInv
<1>10. /\ \A w \in Validators : CommitsAmong(inbox'[w], S)
       /\ \A r \in Callers : AnswersAmong(call'[r], S)
    <2> HIDE DEF S
    <2> QED
        BY <1>1, <1>2, <1>3, <1>9, ReplyKeeps DEF TypeOK
<1>11. SyncInv'
    <2>1. listening' = listening
        BY <1>2 DEF Reply
    <2>2. \A w \in Validators \ {v} : chain_file'[w] = chain_file[w]
        BY <1>6 DEF TypeOK, ValidatorTypeOK
    <2>3. sync[v].stage = "none"
        BY <1>1 DEF ReplicationInv, SyncInv
    <2> QED
        BY <1>1, <2>1, <2>2, <2>3 DEF ReplicationInv, SyncInv
<1>12. \A w \in Validators :
          /\ \A n \in DOMAIN sync'[w].peer_blocks : sync'[w].peer_blocks[n].blocks \subseteq S
          /\ sync'[w].blocks \subseteq S
          /\ IsPrefix(sync'[w].working_chain, producer_chain)
    BY <1>1 DEF ReplicationInv, InFlightInv
<1>13. \/ call'[PRODUCER] = call[PRODUCER]
       \/ call[PRODUCER] # Idle /\ call'[PRODUCER] = response
    BY <1>1, <1>2, ReplyToProducer DEF TypeOK
<1> QED
    BY <1>3, <1>8, <1>10, <1>11, <1>12, <1>13, ValidatorStepInv

\* What the invariant asks of one start-up, with blocks out of S and a
\* working chain within whole.
StartUpWithin(s, S, whole) ==
    /\ \A n \in DOMAIN s.peer_blocks : s.peer_blocks[n].blocks \subseteq S
    /\ s.blocks \subseteq S
    /\ IsPrefix(s.working_chain, whole)

\* InFlightInv, for one start-up.
LEMMA StartUpParts ==
    ASSUME ReplicationInv, NEW v \in Validators
    PROVE  StartUpWithin(sync[v], Range(producer_chain), producer_chain)
BY DEF ReplicationInv, InFlightInv, StartUpWithin

\* A start-up that holds no blocks.
LEMMA NoStartUp ==
    ASSUME NEW S, NEW whole, IsSeq(whole), NEW stage
    PROVE  LET s == [NoSync EXCEPT !.stage = stage]
           IN  StartUpWithin(s, S, whole) /\ s.stage = stage
BY PrefixOrder, EmptyIsSeq DEF NoSync, StartUpWithin

\* v's start-up changes; chain files do not, and nobody else starts to listen.
LEMMA SyncChangeInv ==
    ASSUME TypeOK, TypeOK', ReplicationInv, NEW v \in Validators,
           NEW s, sync' = [sync EXCEPT ![v] = s], UNCHANGED <<chain_file, producerVars>>,
           \A w \in Validators : CommitsAmong(inbox'[w], Range(producer_chain)),
           \A r \in Callers : AnswersAmong(call'[r], Range(producer_chain)),
           call'[PRODUCER] = call[PRODUCER],
           StartUpWithin(s, Range(producer_chain), producer_chain),
           s.stage # "none" => v \notin listening',
           s.stage = "apply" => IsPrefix(chain_file[v], s.working_chain),
           listening' \subseteq listening \cup {v}
    PROVE  ReplicationInv'
<1>1. \A w \in Validators : sync'[w] = IF w = v THEN s ELSE sync[w]
    BY DEF TypeOK, ValidatorTypeOK
<1>2. SyncInv'
    BY <1>1 DEF ReplicationInv, SyncInv
<1>3. \A w \in Validators :
         /\ \A n \in DOMAIN sync'[w].peer_blocks :
               sync'[w].peer_blocks[n].blocks \subseteq Range(producer_chain)
         /\ sync'[w].blocks \subseteq Range(producer_chain)
         /\ IsPrefix(sync'[w].working_chain, producer_chain)
    BY <1>1 DEF ReplicationInv, InFlightInv, StartUpWithin
<1>4. \A w \in Validators : /\ IsPrefix(chain_file[w], chain_file'[w])
                            /\ IsPrefix(chain_file'[w], producer_chain)
    BY PrefixOrder DEF ReplicationInv, ChainsFollowProducer, TypeOK, ValidatorTypeOK, IsChain
<1> QED
    BY <1>2, <1>3, <1>4, ValidatorStepInv

\* Steps of a start-up that send and receive nothing.
LEMMA LocalSyncInv ==
    ASSUME TypeOK, TypeOK', ReplicationInv, NEW v \in Validators, UNCHANGED producerVars,
           \/ StartValidator(v)
           \/ SelectConsistentBlocks(v)
           \/ AppendSyncedBlock(v)
           \/ Listen(v)
    PROVE  ReplicationInv'
<1> DEFINE S == Range(producer_chain)
           whole == producer_chain
<1>1. /\ IsSeq(whole) /\ IsChain(whole) /\ Indexed(whole)
      /\ IsSeq(chain_file[v]) /\ IsPrefix(chain_file[v], whole)
      /\ IsSeq(sync[v].working_chain)
    BY DEF TypeOK, ProducerTypeOK, ValidatorTypeOK, IsSync, IsChain,
           ReplicationInv, CandidateInv, ChainsFollowProducer
<1>2. /\ \A w \in Validators : CommitsAmong(inbox[w], S)
      /\ \A r \in Callers : AnswersAmong(call[r], S)
    BY InFlightParts DEF ReplicationInv, InFlightAmong
<1>3. StartUpWithin(sync[v], S, whole)
    BY StartUpParts
<1>4. UNCHANGED <<chain_file, inbox, call>>
    BY DEF StartValidator, SelectConsistentBlocks, AppendSyncedBlock, Listen, networkVars
<1> DEFINE bind == [NoSync EXCEPT !.stage = "bind"]
<1>5. StartUpWithin(bind, S, whole) /\ bind.stage = "bind"
    BY <1>1, NoStartUp
<1> HIDE DEF bind
<1>6. CASE StartValidator(v)
    <2> DEFINE s == [NoSync EXCEPT !.stage = "collect", !.turn = NextTurn(v, 0),
                                   !.latest_index = GetLatestIndex(chain_file[v])]
    <2>1. sync' = [sync EXCEPT ![v] = s] /\ listening' = listening /\ v \notin listening
        BY <1>6 DEF StartValidator, networkVars, Down
    <2>2. StartUpWithin(s, S, whole) /\ s.stage = "collect"
        BY <1>1, PrefixOrder, EmptyIsSeq DEF NoSync, StartUpWithin
    <2> HIDE DEF s
    <2> QED
        BY <1>2, <1>4, <2>1, <2>2, SyncChangeInv
<1>7. CASE SelectConsistentBlocks(v)
    <2> DEFINE pb == sync[v].peer_blocks
               s == [NoSync EXCEPT !.stage = "apply", !.blocks = ChosenBlocks(pb),
                                   !.working_chain = chain_file[v]]
    <2>1. /\ sync' = [sync EXCEPT ![v] = s] \/ sync' = [sync EXCEPT ![v] = bind]
          /\ listening' = listening
          /\ sync[v].stage = "collect"
        BY <1>7 DEF SelectConsistentBlocks, networkVars, bind
    <2>2. v \notin listening
        BY <2>1 DEF ReplicationInv, SyncInv
    <2>3. ChosenBlocks(pb) \subseteq S
        BY <1>3, ChosenAreReturned DEF StartUpWithin
    <2>4. /\ StartUpWithin(s, S, whole)
          /\ s.stage = "apply" /\ s.working_chain = chain_file[v]
        BY <1>1, <2>3, EmptyIsSeq DEF NoSync, StartUpWithin
    <2>5. IsPrefix(chain_file[v], chain_file[v])
        BY <1>1, PrefixOrder
    <2> HIDE DEF s
    <2> QED
        BY <1>2, <1>4, <1>5, <2>1, <2>2, <2>4, <2>5, SyncChangeInv
<1>8. CASE AppendSyncedBlock(v)
    <2>1. PICK b \in sync[v].blocks :
             sync' = IF /\ ValidateCommitProof(b)
                        /\ AppendBlockIdempotent(sync[v].working_chain, b)
                               \in {"appended", "skipped"}
                     THEN [sync EXCEPT ![v].blocks = @ \ {b},
                                       ![v].working_chain = ChainAfterAppend(@, b)]
                     ELSE [sync EXCEPT ![v] = [NoSync EXCEPT !.stage = "bind"]]
        BY <1>8 DEF AppendSyncedBlock
    <2> DEFINE longer == ChainAfterAppend(sync[v].working_chain, b)
               s == [sync[v] EXCEPT !.blocks = sync[v].blocks \ {b}, !.working_chain = longer]
    <2>2. sync' = [sync EXCEPT ![v] = s] \/ sync' = [sync EXCEPT ![v] = bind]
        BY <2>1 DEF bind
    <2>3. sync[v].stage = "apply" /\ listening' = listening
        BY <1>8 DEF AppendSyncedBlock, networkVars
    <2>4. v \notin listening /\ IsPrefix(chain_file[v], sync[v].working_chain)
        BY <2>3 DEF ReplicationInv, SyncInv
    <2>5. /\ IsPrefix(sync[v].working_chain, longer)
          /\ IsPrefix(longer, whole)
        BY <1>1, <1>3, <2>1, ChainAfterAppendGrows, AppendKeepsPrefix DEF StartUpWithin
    <2>6. IsSeq(longer)
        BY <1>1, <1>3, <2>1, ChainAfterAppendIsChain
           DEF TypeOK, ValidatorTypeOK, IsSync, IsChain
    <2>7. IsPrefix(chain_file[v], longer)
        BY <1>1, <2>4, <2>5, <2>6, PrefixTransitive
    <2> HIDE DEF longer
    <2>8. /\ StartUpWithin(s, S, whole)
          /\ s.stage = "apply" /\ s.working_chain = longer
        BY <1>3, <2>3, <2>5 DEF StartUpWithin, TypeOK, ValidatorTypeOK, IsSync, NoSync
    <2> HIDE DEF s
    <2> QED
        BY <1>2, <1>4, <1>5, <2>2, <2>3, <2>4, <2>7, <2>8, SyncChangeInv
<1>9. CASE Listen(v)
    <2>1. sync' = [sync EXCEPT ![v] = NoSync] /\ listening' = listening \cup {v}
        BY <1>9 DEF Listen
    <2>2. StartUpWithin(NoSync, S, whole) /\ NoSync.stage = "none"
        BY <1>1, PrefixOrder, EmptyIsSeq DEF NoSync, StartUpWithin
    <2> QED
        BY <1>2, <1>4, <2>1, <2>2, SyncChangeInv
<1> QED
    BY <1>6, <1>7, <1>8, <1>9

\* SYNC_REQUEST carries no blocks.
LEMMA RequestSyncInv ==
    ASSUME TypeOK, TypeOK', ReplicationInv, NEW v \in Validators,
           RequestSync(v), UNCHANGED producerVars
    PROVE  ReplicationInv'
<1> DEFINE S == Range(producer_chain)
           peer == VALIDATOR_IDS[sync[v].turn]
           request == [type |-> "SYNC_REQUEST", from |-> v, live |-> TRUE,
                       latest_index |-> sync[v].latest_index]
<1>1. Connect(v, peer, request) /\ sync[v].stage = "collect"
    BY DEF RequestSync, Asking
<1>2. peer \in Validators
    <2>1. sync[v].turn \in 1..Len(VALIDATOR_IDS)
        BY NetworkAssumption, LenProperties
           DEF RequestSync, Asking, TypeOK, ValidatorTypeOK, IsSync
    <2> QED
        BY <2>1, NetworkAssumption, ElementOfSeq DEF Validators
<1>3. v \in Callers /\ v # PRODUCER
    BY NetworkAssumption DEF Callers, Validators
<1>4. InFlightAmong(S) /\ request.type # "COMMIT_BLOCK"
    BY InFlightParts DEF ReplicationInv
<1> HIDE DEF request, peer
<1>5. /\ \A w \in Validators : CommitsAmong(inbox'[w], S)
      /\ \A r \in Callers : AnswersAmong(call'[r], S)
    <2> HIDE DEF S
    <2> QED
        BY <1>1, <1>2, <1>3, <1>4, ConnectKeeps DEF TypeOK
<1>6. call'[PRODUCER] = call[PRODUCER] /\ listening' = listening
    BY <1>1, <1>3 DEF Connect, TypeOK, NetworkTypeOK, Callers
<1>7. sync' = [sync EXCEPT ![v] = sync[v]] /\ UNCHANGED chain_file
    BY DEF RequestSync, validatorVars, TypeOK, ValidatorTypeOK
<1>8. StartUpWithin(sync[v], S, producer_chain) /\ v \notin listening
    BY <1>1, StartUpParts DEF ReplicationInv, SyncInv
<1> QED
    BY <1>1, <1>5, <1>6, <1>7, <1>8, SyncChangeInv

\* The collected blocks are the producer's.
LEMMA CollectSyncResponseInv ==
    ASSUME TypeOK, TypeOK', ReplicationInv, NEW v \in Validators,
           CollectSyncResponse(v), UNCHANGED producerVars
    PROVE  ReplicationInv'
<1> DEFINE S == Range(producer_chain)
           usable == call[v].type = "SYNC_RESPONSE" /\ call[v].error = "none"
           answer == [peer |-> VALIDATOR_IDS[sync[v].turn], blocks |-> call[v].blocks]
           old == sync[v].peer_blocks
           answers == IF usable THEN Append(old, answer) ELSE old
           s == [sync[v] EXCEPT !.turn = NextTurn(v, sync[v].turn), !.peer_blocks = answers]
<1>1. /\ sync' = [sync EXCEPT ![v] = s]
      /\ sync[v].stage = "collect"
      /\ call' = [call EXCEPT ![v] = Idle]
      /\ UNCHANGED <<chain_file, listening, inbox>>
    BY DEF CollectSyncResponse, Asking
<1>2. v \in Callers /\ v # PRODUCER
    BY NetworkAssumption DEF Callers, Validators
<1>3. StartUpWithin(sync[v], S, producer_chain) /\ v \notin listening
    BY <1>1, StartUpParts DEF ReplicationInv, SyncInv
<1>4. /\ \A w \in Validators : CommitsAmong(inbox'[w], S)
      /\ \A r \in Callers : AnswersAmong(call'[r], S)
      /\ call'[PRODUCER] = call[PRODUCER]
    <2>1. InFlightAmong(S)
        BY InFlightParts DEF ReplicationInv
    <2>2. \A r \in Callers : call'[r] = IF r = v THEN Idle ELSE call[r]
        BY <1>1 DEF TypeOK, NetworkTypeOK
    <2> QED
        BY <1>1, <1>2, <2>1, <2>2 DEF InFlightAmong, AnswersAmong, Idle, Callers
<1>5. usable => answer.blocks \subseteq S
    BY <1>2 DEF ReplicationInv, InFlightInv, InFlightAmong, AnswersAmong
<1>6. \A n \in DOMAIN answers : answers[n].blocks \subseteq S
    <2>1. IsSeq(old) /\ \A n \in DOMAIN old : old[n].blocks \subseteq S
        BY <1>3 DEF TypeOK, ValidatorTypeOK, IsSync, StartUpWithin
    <2>2. Len(old) \in Nat /\ DOMAIN old = 1..Len(old)
        BY <2>1, SeqFacts
    <2> HIDE DEF answer, old, usable, S
    <2> DEFINE more == Append(old, answer)
    <2>3. /\ DOMAIN more = 1..(Len(old) + 1)
          /\ \A n \in 1..Len(old) : more[n] = old[n]
          /\ more[Len(old) + 1] = answer
        BY <2>1, AppendFacts
    <2>4. answers = IF usable THEN more ELSE old
        OBVIOUS
    <2> HIDE DEF more, answers
    <2> QED
        BY <1>5, <2>1, <2>2, <2>3, <2>4
<1> HIDE DEF answers
<1>7. StartUpWithin(s, S, producer_chain) /\ s.stage = "collect"
    BY <1>1, <1>3, <1>6 DEF StartUpWithin, TypeOK, ValidatorTypeOK, IsSync, NoSync
<1> HIDE DEF s
<1> QED
    BY <1>1, <1>3, <1>4, <1>7, SyncChangeInv

\* The saved chain extends the file, within the producer's chain.
LEMMA SaveSyncedChainInv ==
    ASSUME TypeOK, TypeOK', ReplicationInv, NEW v \in Validators,
           SaveSyncedChain(v), UNCHANGED producerVars
    PROVE  /\ ReplicationInv'
           /\ \A w \in Validators : IsPrefix(chain_file[w], chain_file'[w])
<1> DEFINE S == Range(producer_chain)
           bind == [NoSync EXCEPT !.stage = "bind"]
           saved == sync[v].working_chain
<1>1. /\ sync' = [sync EXCEPT ![v] = bind]
      /\ chain_file' = [chain_file EXCEPT ![v] = saved]
      /\ sync[v].stage = "apply"
      /\ UNCHANGED <<listening, inbox, call>>
    BY DEF SaveSyncedChain, networkVars
<1>2. IsPrefix(chain_file[v], saved) /\ IsPrefix(saved, producer_chain) /\ v \notin listening
    BY <1>1 DEF ReplicationInv, SyncInv, InFlightInv
<1>3. \A w \in Validators : /\ IsPrefix(chain_file[w], chain_file'[w])
                            /\ IsPrefix(chain_file'[w], producer_chain)
    <2>1. \A w \in Validators : /\ IsPrefix(chain_file[w], chain_file[w])
                                /\ IsPrefix(chain_file[w], producer_chain)
        BY PrefixOrder DEF TypeOK, ValidatorTypeOK, IsChain, ReplicationInv, ChainsFollowProducer
    <2> HIDE DEF saved
    <2> QED
        BY <1>1, <1>2, <2>1 DEF TypeOK, ValidatorTypeOK
<1>4. StartUpWithin(bind, S, producer_chain) /\ bind.stage = "bind"
    BY NoStartUp DEF TypeOK, ProducerTypeOK, IsChain
<1> HIDE DEF bind
<1>5. \A w \in Validators : sync'[w] = IF w = v THEN bind ELSE sync[w]
    BY <1>1 DEF TypeOK, ValidatorTypeOK
<1>6. SyncInv'
    <2>1. \A w \in Validators \ {v} : chain_file'[w] = chain_file[w]
        BY <1>1 DEF TypeOK, ValidatorTypeOK
    <2> QED
        BY <1>1, <1>2, <1>4, <1>5, <2>1 DEF ReplicationInv, SyncInv
<1>7. \A w \in Validators :
         /\ \A n \in DOMAIN sync'[w].peer_blocks : sync'[w].peer_blocks[n].blocks \subseteq S
         /\ sync'[w].blocks \subseteq S
         /\ IsPrefix(sync'[w].working_chain, producer_chain)
    BY <1>4, <1>5, StartUpParts DEF StartUpWithin
<1>8. InFlightAmong(S)
    BY InFlightParts DEF ReplicationInv
<1> QED
    BY <1>1, <1>3, <1>6, <1>7, <1>8, ValidatorStepInv DEF InFlightAmong

\* A crash loses a start-up, nothing stored.
LEMMA CrashInv ==
    ASSUME TypeOK, TypeOK', ReplicationInv, NEW v \in Validators,
           Crash(v), UNCHANGED producerVars
    PROVE  ReplicationInv'
<1> DEFINE S == Range(producer_chain)
<1>1. /\ DropSockets(v)
      /\ sync' = [sync EXCEPT ![v] = NoSync]
      /\ UNCHANGED chain_file
    BY DEF Crash
<1>2. InFlightAmong(S)
    BY InFlightParts DEF ReplicationInv
<1>3. /\ \A w \in Validators : CommitsAmong(inbox'[w], S)
      /\ \A r \in Callers : AnswersAmong(call'[r], S)
    <2> HIDE DEF S
    <2> QED
        BY <1>1, <1>2, DropSocketsKeeps DEF TypeOK
<1>4. call'[PRODUCER] = call[PRODUCER] /\ listening' \subseteq listening
    BY <1>1, NetworkAssumption DEF DropSockets, TypeOK, NetworkTypeOK, Callers, Validators
<1>5. StartUpWithin(NoSync, S, producer_chain) /\ NoSync.stage = "none"
    BY PrefixOrder, EmptyIsSeq
       DEF NoSync, StartUpWithin, TypeOK, ProducerTypeOK, IsChain
<1> QED
    BY <1>1, <1>3, <1>4, <1>5, SyncChangeInv

\* A closed call is no ACK.
LEMMA CallEndsInv ==
    ASSUME TypeOK, TypeOK', ReplicationInv, NEW r \in Callers, CallEnds(r)
    PROVE  ReplicationInv'
<1> DEFINE S == Range(producer_chain)
<1>1. GiveUp(r) /\ UNCHANGED <<chain_file, sync, producerVars>>
    BY DEF CallEnds, validatorVars
<1>2. InFlightAmong(S)
    BY InFlightParts DEF ReplicationInv
<1>3. /\ \A w \in Validators : CommitsAmong(inbox'[w], S)
      /\ \A q \in Callers : AnswersAmong(call'[q], S)
    <2> HIDE DEF S
    <2> QED
        BY <1>1, <1>2, GiveUpKeeps DEF TypeOK
<1>4. \/ call'[PRODUCER] = call[PRODUCER]
      \/ call[PRODUCER] # Idle /\ call'[PRODUCER] = Closed
    BY <1>1 DEF GiveUp, TypeOK, NetworkTypeOK, Callers, Waiting, Idle
<1>5. \A w \in Validators : ~ValidAck(Closed, w)
    BY DEF ValidAck, Closed
<1>6. SyncInv'
    BY <1>1 DEF GiveUp, ReplicationInv, SyncInv
<1>7. \A w \in Validators : /\ IsPrefix(chain_file[w], chain_file'[w])
                            /\ IsPrefix(chain_file'[w], producer_chain)
    BY <1>1, PrefixOrder
       DEF ReplicationInv, ChainsFollowProducer, TypeOK, ValidatorTypeOK, IsChain
<1>8. \A w \in Validators :
         /\ \A n \in DOMAIN sync'[w].peer_blocks : sync'[w].peer_blocks[n].blocks \subseteq S
         /\ sync'[w].blocks \subseteq S
         /\ IsPrefix(sync'[w].working_chain, producer_chain)
    BY <1>1 DEF ReplicationInv, InFlightInv
<1> QED
    BY <1>1, <1>3, <1>4, <1>5, <1>6, <1>7, <1>8, ValidatorStepInv

-----------------------------------------------------------------------------
(* Every step.                                                             *)

\* Stuttering.
LEMMA UnchangedInv ==
    ASSUME ReplicationInv, UNCHANGED vars
    PROVE  ReplicationInv'
BY DEF vars, networkVars, validatorVars, producerVars,
       ReplicationInv, CandidateInv, ChainsFollowProducer, InFlightInv, InFlightAmong,
       CommitsAmong, AnswersAmong, SyncInv, AckInv, AcksFrom, WholeChainHolders, Proposing, Committing, ValidAck

\* Only a validator's own step touches its chain file.
LEMMA OwnFileOnly ==
    ASSUME ValidatorTypeOK, NEW v \in Validators,
           Serve(v) \/ Synchronise(v) \/ Environment(v)
    PROVE  /\ UNCHANGED producerVars
           /\ chain_file' = [chain_file EXCEPT ![v] = chain_file'[v]]
<1>1. UNCHANGED producerVars
    BY DEF Serve, Synchronise, Environment
<1>2. CASE HandleCommitBlock(v)
    <2>1. \/ chain_file' = chain_file
          \/ chain_file' = [chain_file EXCEPT ![v] =
                               ChainAfterAppend(chain_file[v], Head(inbox[v]).block)]
        BY <1>2 DEF HandleCommitBlock
    <2> QED
        BY <1>1, <2>1 DEF ValidatorTypeOK
<1>3. CASE SaveSyncedChain(v)
    BY <1>1, <1>3 DEF SaveSyncedChain, ValidatorTypeOK
<1>4. CASE ~HandleCommitBlock(v) /\ ~SaveSyncedChain(v)
    <2>1. chain_file' = chain_file
        BY <1>4 DEF Serve, Synchronise, Environment, HandleProposeBlock, HandleSyncRequest,
                    RequestSync, CollectSyncResponse, SelectConsistentBlocks,
                    AppendSyncedBlock, Listen, StartValidator, HandleCommitSaveFails,
                    RejectExpired, Crash, validatorVars
    <2> QED
        BY <1>1, <2>1 DEF ValidatorTypeOK
<1> QED
    BY <1>2, <1>3, <1>4

\* Any step of a validator.
LEMMA ValidatorInv ==
    ASSUME TypeOK, TypeOK', ReplicationInv, OneCallAtATime, NEW v \in Validators,
           Serve(v) \/ Synchronise(v) \/ Environment(v)
    PROVE  /\ ReplicationInv'
           /\ \A w \in Validators : IsPrefix(chain_file[w], chain_file'[w])
<1>1. UNCHANGED producerVars
    BY OwnFileOnly DEF TypeOK
<1>2. CASE HandleCommitBlock(v)
    BY <1>1, <1>2, HandleCommitBlockInv
<1>3. CASE SaveSyncedChain(v)
    BY <1>1, <1>3, SaveSyncedChainInv
<1>4. CASE ~HandleCommitBlock(v) /\ ~SaveSyncedChain(v)
    <2>1. chain_file' = chain_file
        BY <1>4 DEF Serve, Synchronise, Environment, HandleProposeBlock, HandleSyncRequest,
                    RequestSync, CollectSyncResponse, SelectConsistentBlocks,
                    AppendSyncedBlock, Listen, StartValidator, HandleCommitSaveFails,
                    RejectExpired, Crash, validatorVars
    <2>2. \A w \in Validators : IsPrefix(chain_file[w], chain_file'[w])
        BY <2>1, PrefixOrder DEF TypeOK, ValidatorTypeOK, IsChain
    <2>3. CASE HandleProposeBlock(v)
        BY <1>1, <2>2, <2>3, HandleProposeBlockInv
    <2>4. CASE HandleCommitSaveFails(v) \/ HandleSyncRequest(v) \/ RejectExpired(v)
        BY <1>1, <2>2, <2>4, OtherReplyInv
    <2>5. CASE \/ StartValidator(v) \/ SelectConsistentBlocks(v)
               \/ AppendSyncedBlock(v) \/ Listen(v)
        BY <1>1, <2>2, <2>5, LocalSyncInv
    <2>6. CASE RequestSync(v) \/ CollectSyncResponse(v)
        BY <1>1, <2>2, <2>6, RequestSyncInv, CollectSyncResponseInv
    <2>7. CASE Crash(v)
        BY <1>1, <2>2, <2>7, CrashInv
    <2> QED
        BY <1>4, <2>3, <2>4, <2>5, <2>6, <2>7 DEF Serve, Synchronise, Environment
<1> QED
    BY <1>2, <1>3, <1>4

\* The invariant is inductive; chains only grow.
LEMMA NextInv ==
    ASSUME TypeOK, TypeOK', ReplicationInv, OneCallAtATime, [Next]_vars
    PROVE  /\ ReplicationInv'
           /\ \A v \in Validators : IsPrefix(chain_file[v], chain_file'[v])
           /\ IsPrefix(producer_chain, producer_chain')
<1>1. IsPrefix(producer_chain, producer_chain)
      /\ \A v \in Validators : IsPrefix(chain_file[v], chain_file[v])
    BY PrefixOrder DEF TypeOK, ProducerTypeOK, ValidatorTypeOK, IsChain
<1>2. CASE \E log \in LOGS : AcceptLog(log)
    <2>1. PICK log \in LOGS : ReceiveLog(log) /\ UNCHANGED validatorVars
        BY <1>2 DEF AcceptLog
    <2>2. ReplicationInv'
        BY <2>1, ReceiveLogInv
    <2> QED
        BY <1>1, <2>1, <2>2 DEF ReceiveLog, validatorVars
<1>3. CASE HandleLog
    <2>1. UNCHANGED chain_file
        BY <1>3 DEF HandleLog, validatorVars
    <2> QED
        BY <1>1, <1>3, <2>1, HandleLogInv
<1>4. CASE \E v \in Validators : Serve(v) \/ Synchronise(v) \/ Environment(v)
    <2>1. PICK v \in Validators : Serve(v) \/ Synchronise(v) \/ Environment(v)
        BY <1>4
    <2>2. UNCHANGED producer_chain
        BY <2>1, OwnFileOnly DEF TypeOK, producerVars
    <2> QED
        BY <1>1, <2>1, <2>2, ValidatorInv
<1>5. CASE \E r \in Callers : CallEnds(r)
    <2>1. PICK r \in Callers : CallEnds(r)
        BY <1>5
    <2>2. UNCHANGED <<chain_file, producer_chain>>
        BY <2>1 DEF CallEnds, validatorVars, producerVars
    <2> QED
        BY <1>1, <2>1, <2>2, CallEndsInv
<1>6. CASE UNCHANGED vars
    BY <1>1, <1>6, UnchangedInv DEF vars, validatorVars, producerVars
<1> QED
    BY <1>2, <1>3, <1>4, <1>5, <1>6 DEF Next

\* The invariant holds initially.
LEMMA InitInv == Init => ReplicationInv
<1> SUFFICES ASSUME Init PROVE ReplicationInv
    OBVIOUS
<1>1. CandidateInv
    BY EmptyIsSeq DEF Init, ProducerInit, CandidateInv, Indexed
<1>2. ChainsFollowProducer
    BY EmptyIsSeq, PrefixOrder DEF Init, ProducerInit, ValidatorInit, ChainsFollowProducer
<1>3. InFlightInv
    BY EmptyIsSeq, PrefixOrder
       DEF Init, NetworkInit, ProducerInit, ValidatorInit, InFlightInv, InFlightAmong,
           CommitsAmong, AnswersAmong, Idle, NoSync
<1>4. SyncInv
    BY DEF Init, ValidatorInit, SyncInv, NoSync
<1>5. AckInv
    BY DEF Init, NetworkInit, ProducerInit, AckInv, AcksFrom, Callers
<1> QED
    BY <1>1, <1>2, <1>3, <1>4, <1>5 DEF ReplicationInv

\* The inductive invariant holds, for every value of the constants.
THEOREM ReplicationInvHolds == Spec => []ReplicationInv
<1>1. TypeOK /\ TypeOK' /\ OneCallAtATime /\ ReplicationInv /\ [Next]_vars => ReplicationInv'
    BY NextInv
<1> QED
    BY <1>1, InitInv, TypeCorrect, OneCallAtATimeHolds, PTL DEF Spec

\* No validator ever stores anything but a prefix of the producer's chain.
THEOREM ChainsFollowProducerHolds == Spec => []ChainsFollowProducer
<1>1. ReplicationInv => ChainsFollowProducer
    BY DEF ReplicationInv
<1> QED
    BY <1>1, ReplicationInvHolds, PTL

\* No step changes or drops a block that a validator has stored.
THEOREM StoredBlocksStayHolds == Spec => StoredBlocksStay
<1>1. TypeOK /\ TypeOK' /\ OneCallAtATime /\ ReplicationInv /\ [Next]_vars
         => [\A v \in Validators : IsPrefix(chain_file[v], chain_file'[v])]_vars
    BY NextInv
<1> QED
    BY <1>1, TypeCorrect, OneCallAtATimeHolds, ReplicationInvHolds, PTL
       DEF Spec, StoredBlocksStay

-----------------------------------------------------------------------------
(* Quorums.                                                                *)

\* Cardinalities of sets of validators mean something.
LEMMA ValidatorsAreFinite == IsFiniteSet(Validators)
<1>1. Len(VALIDATOR_IDS) \in Nat /\ DOMAIN VALIDATOR_IDS = 1..Len(VALIDATOR_IDS)
    BY NetworkAssumption, LenProperties
<1>2. VALIDATOR_IDS \in [1..Len(VALIDATOR_IDS) -> Validators]
    BY <1>1, NetworkAssumption, LenProperties DEF Validators
<1>3. VALIDATOR_IDS \in Surjection(1..Len(VALIDATOR_IDS), Validators)
    BY <1>1, <1>2 DEF Surjection, Validators, Range
<1>4. IsFiniteSet(1..Len(VALIDATOR_IDS))
    BY <1>1, FS_Interval
<1> QED
    BY <1>3, <1>4, FS_Surjection

\* A set with a quorum in it is a quorum.
LEMMA MoreValidators ==
    ASSUME NEW S \in SUBSET Validators, NEW T \in SUBSET S, Cardinality(T) >= QUORUM
    PROVE  Cardinality(S) >= QUORUM
<1>1. IsFiniteSet(S) /\ IsFiniteSet(T)
    BY ValidatorsAreFinite, FS_Subset
<1>2. Cardinality(T) <= Cardinality(S) /\ Cardinality(S) \in Nat /\ Cardinality(T) \in Nat
    BY <1>1, FS_Subset, FS_CardinalityType
<1> QED
    BY <1>2, QuorumAssumption

\* The first n positive numbers.
LEMMA IntervalSize ==
    ASSUME NEW n \in Nat
    PROVE  Cardinality(1..n) = n
<1>1. Cardinality(1..n) = IF 1 > n THEN 0 ELSE n - 1 + 1
    BY FS_Interval
<1> QED
    BY <1>1

\* What is not less than a quorum's size is not less.
LEMMA MoreThanQuorum ==
    ASSUME NEW m \in Nat, m >= QUORUM, NEW n \in Nat, m <= n
    PROVE  n >= QUORUM
BY QuorumAssumption

\* ACKs of different members of a set, as many as a quorum, make it one.
LEMMA DistinctAckers ==
    ASSUME NEW s, IsSeq(s), Len(s) >= QUORUM,
           \A m, n \in DOMAIN s : s[m].validator_id = s[n].validator_id => m = n,
           NEW H \in SUBSET Validators, \A n \in DOMAIN s : s[n].validator_id \in H
    PROVE  Cardinality(H) >= QUORUM
<1> DEFINE acker == [n \in 1..Len(s) |-> s[n].validator_id]
<1>1. Len(s) \in Nat /\ DOMAIN s = 1..Len(s)
    BY SeqFacts
<1>2. acker \in Injection(1..Len(s), H)
    <2>1. acker \in [1..Len(s) -> H] /\ DOMAIN acker = 1..Len(s)
        BY <1>1
    <2>2. \A m, n \in 1..Len(s) : acker[m] = acker[n] => m = n
        BY <1>1
    <2> HIDE DEF acker
    <2> QED
        BY <2>1, <2>2 DEF Injection, IsInjective
<1>3. IsFiniteSet(H)
    BY ValidatorsAreFinite, FS_Subset
<1> HIDE DEF acker
<1>4. Cardinality(1..Len(s)) <= Cardinality(H)
    BY <1>2, <1>3, FS_Injection
<1>5. Cardinality(1..Len(s)) = Len(s)
    BY <1>1, IntervalSize
<1>6. Cardinality(H) \in Nat
    BY <1>3, FS_CardinalityType
<1>7. Len(s) <= Cardinality(H)
    BY <1>4, <1>5
<1> QED
    BY <1>1, <1>6, <1>7, MoreThanQuorum

\* The ACKs that let the producer append come from that many validators.
LEMMA AckQuorum ==
    ASSUME TypeOK, ReplicationInv, step = "propose", Len(acks) >= QUORUM
    PROVE  Cardinality(WholeChainHolders) >= QUORUM
<1>1. \A n \in DOMAIN acks : acks[n].validator_id \in WholeChainHolders
    BY DEF ReplicationInv, AckInv, AcksFrom
<1>2. /\ IsSeq(acks)
      /\ \A m, n \in DOMAIN acks : acks[m].validator_id = acks[n].validator_id => m = n
    BY DEF TypeOK, ProducerTypeOK, ReplicationInv, AckInv, AcksFrom
<1>3. WholeChainHolders \in SUBSET Validators
    BY DEF WholeChainHolders
<1> QED
    BY <1>1, <1>2, <1>3, DistinctAckers

-----------------------------------------------------------------------------
(* Durability.                                                             *)

\* The holders of a block are never fewer, and a new tip's predecessor has a
\* quorum of them.
LEMMA DurableStep ==
    ASSUME TypeOK, TypeOK', ReplicationInv, OneCallAtATime, DurableButTip, [Next]_vars
    PROVE  DurableButTip'
<1>1. /\ \A v \in Validators : IsPrefix(chain_file[v], chain_file'[v])
      /\ IsPrefix(producer_chain, producer_chain')
    BY NextInv
<1>2. /\ IsSeq(producer_chain) /\ IsSeq(producer_chain')
      /\ \A v \in Validators : IsSeq(chain_file[v]) /\ IsSeq(chain_file'[v])
    BY DEF TypeOK, ProducerTypeOK, ValidatorTypeOK, IsChain
<1>3. Len(producer_chain) \in Nat /\ Len(producer_chain') \in Nat
    BY <1>2, SeqFacts
<1>4. ASSUME NEW n \in 1..(Len(producer_chain) - 1)
      PROVE  Cardinality(Holders(n)') >= QUORUM
    <2>1. producer_chain'[n] = producer_chain[n]
        BY <1>1, <1>2, <1>3, <1>4, PrefixFacts
    <2>2. ASSUME NEW v \in Holders(n)
          PROVE  v \in Holders(n)'
        <3>1. v \in Validators /\ Len(chain_file[v]) >= n /\ chain_file[v][n] = producer_chain[n]
            BY <2>2 DEF Holders
        <3>2. Len(chain_file[v]) \in Nat /\ Len(chain_file'[v]) \in Nat
            BY <1>2, <3>1, SeqFacts
        <3>3. /\ Len(chain_file[v]) <= Len(chain_file'[v])
              /\ \A m \in 1..Len(chain_file[v]) : chain_file[v][m] = chain_file'[v][m]
            BY <1>1, <1>2, <3>1, PrefixFacts
        <3>4. Len(chain_file'[v]) >= n /\ chain_file'[v][n] = producer_chain'[n]
            BY <1>3, <1>4, <2>1, <3>1, <3>2, <3>3
        <3> QED
            BY <3>1, <3>4 DEF Holders
    <2>3. Cardinality(Holders(n)) >= QUORUM
        BY <1>4 DEF DurableButTip
    <2>4. Holders(n)' \in SUBSET Validators /\ Holders(n) \in SUBSET Holders(n)'
        BY <2>2 DEF Holders
    <2> QED
        BY <2>3, <2>4, MoreValidators
<1>5. CASE HandleLog /\ AppendCandidate
    <2>1. Len(producer_chain') = Len(producer_chain) + 1 /\ UNCHANGED chain_file
        BY <1>5, AppendCandidateInv DEF HandleLog, validatorVars
    <2>2. Cardinality(WholeChainHolders) >= QUORUM
        BY <1>5, AckQuorum DEF AppendCandidate
    <2>3. ASSUME NEW n \in Nat \ {0}, n = Len(producer_chain)
          PROVE  Cardinality(Holders(n)') >= QUORUM
        <3>1. producer_chain'[n] = producer_chain[n]
            BY <1>1, <1>2, <1>3, <2>3, PrefixFacts
        <3>2. Holders(n)' \in SUBSET Validators
            BY DEF Holders
        <3>3. ASSUME NEW v \in WholeChainHolders
              PROVE  v \in Holders(n)'
            <4>1. v \in Validators /\ chain_file[v] = producer_chain
                BY <3>3 DEF WholeChainHolders
            <4>2. Len(chain_file'[v]) >= n /\ chain_file'[v][n] = producer_chain'[n]
                BY <1>3, <2>1, <2>3, <3>1, <4>1
            <4> QED
                BY <4>1, <4>2 DEF Holders
        <3>4. WholeChainHolders \in SUBSET Holders(n)'
            BY <3>3
        <3> QED
            BY <2>2, <3>2, <3>4, MoreValidators
    <2> QED
        BY <1>3, <1>4, <2>1, <2>3 DEF DurableButTip
<1>6. CASE ~(HandleLog /\ AppendCandidate)
    <2>1. UNCHANGED producer_chain
        <3>1. CASE HandleLog
            BY <1>6, <3>1 DEF HandleLog, ProposeBlock, CollectAck, AbortCommit, CommitBlock,
                              IgnoreCommitReply, FinishCommit, producerVars
        <3>2. CASE \E v \in Validators : Serve(v) \/ Synchronise(v) \/ Environment(v)
            BY <3>2, OwnFileOnly DEF TypeOK, producerVars
        <3>3. CASE \/ \E log \in LOGS : AcceptLog(log)
                   \/ \E r \in Callers : CallEnds(r)
                   \/ UNCHANGED vars
            BY <3>3 DEF AcceptLog, ReceiveLog, CallEnds, vars, producerVars
        <3> QED
            BY <3>1, <3>2, <3>3 DEF Next
    <2> QED
        BY <1>4, <2>1 DEF DurableButTip
<1> QED
    BY <1>5, <1>6

\* A quorum of validators stores every committed block but the last one,
\* although the producer never looks at an answer to COMMIT_BLOCK.
THEOREM DurableButTipHolds == Spec => []DurableButTip
<1>1. Init => DurableButTip
    BY EmptyIsSeq DEF Init, ProducerInit, DurableButTip
<1>2. /\ TypeOK /\ TypeOK' /\ OneCallAtATime /\ ReplicationInv
      /\ DurableButTip /\ [Next]_vars
      => DurableButTip'
    BY DurableStep
<1> QED
    BY <1>1, <1>2, TypeCorrect, OneCallAtATimeHolds, ReplicationInvHolds, PTL DEF Spec

-----------------------------------------------------------------------------
(* Refinement.                                                             *)

\* The instance brings its own copy of the library's IsPrefix.
LEMMA SamePrefix == \A s, t : CommittedLog!IsPrefix(s, t) <=> IsPrefix(s, t)
BY DEF IsPrefix, CommittedLog!IsPrefix

\* Appending the candidate is the abstract Commit.
LEMMA AppendIsCommit ==
    ASSUME TypeOK, ReplicationInv, HandleLog, AppendCandidate
    PROVE  CommittedLog!Commit
<1>1. /\ IsPrefix(producer_chain, producer_chain')
      /\ Len(producer_chain') = Len(producer_chain) + 1
      /\ UNCHANGED chain_file
    BY AppendCandidateInv DEF HandleLog, validatorVars
<1>2. Cardinality(WholeChainHolders) >= QUORUM
    BY AckQuorum DEF AppendCandidate
<1>3. /\ WholeChainHolders \in Quorums
      /\ \A v \in WholeChainHolders : chain_file[v] = producer_chain
    BY <1>2 DEF Quorums, WholeChainHolders
<1> QED
    BY <1>1, <1>2, <1>3, SamePrefix DEF CommittedLog!Commit

\* A validator's step is the abstract Store, or changes nothing abstract.
LEMMA ValidatorIsStore ==
    ASSUME TypeOK, TypeOK', ReplicationInv, OneCallAtATime, NEW v \in Validators,
           Serve(v) \/ Synchronise(v) \/ Environment(v)
    PROVE  CommittedLog!Store(v)
<1>1. ReplicationInv' /\ IsPrefix(chain_file[v], chain_file'[v])
    BY ValidatorInv
<1>2. /\ UNCHANGED producer_chain
      /\ chain_file' = [chain_file EXCEPT ![v] = chain_file'[v]]
    BY OwnFileOnly DEF TypeOK, producerVars
<1>3. IsPrefix(chain_file'[v], producer_chain)
    BY <1>1, <1>2 DEF ReplicationInv, ChainsFollowProducer
<1> QED
    BY <1>1, <1>2, <1>3, SamePrefix DEF CommittedLog!Store

\* Every step is an abstract step or stutters.
LEMMA NextIsCommittedLogNext ==
    ASSUME TypeOK, TypeOK', ReplicationInv, OneCallAtATime, [Next]_vars
    PROVE  [CommittedLog!Next]_<<producer_chain, chain_file>>
<1>1. CASE HandleLog
    <2>1. CASE AppendCandidate
        BY <1>1, <2>1, AppendIsCommit DEF CommittedLog!Next
    <2>2. CASE ~AppendCandidate
        BY <1>1, <2>2 DEF HandleLog, ProposeBlock, CollectAck, AbortCommit, CommitBlock,
                          IgnoreCommitReply, FinishCommit, producerVars, validatorVars
    <2> QED
        BY <2>1, <2>2
<1>2. CASE \E v \in Validators : Serve(v) \/ Synchronise(v) \/ Environment(v)
    BY <1>2, ValidatorIsStore DEF CommittedLog!Next
<1>3. CASE \/ \E log \in LOGS : AcceptLog(log)
           \/ \E r \in Callers : CallEnds(r)
           \/ UNCHANGED vars
    BY <1>3 DEF AcceptLog, ReceiveLog, CallEnds, vars, producerVars, validatorVars
<1> QED
    BY <1>1, <1>2, <1>3 DEF Next

\* The protocol implements the abstract replicated log.
THEOREM Refinement == Spec => ImplementsCommittedLog
<1>1. Init => CommittedLog!Init
    BY DEF Init, ProducerInit, ValidatorInit, CommittedLog!Init
<1>2. TypeOK /\ TypeOK' /\ ReplicationInv /\ OneCallAtATime /\ [Next]_vars
         => [CommittedLog!Next]_<<producer_chain, chain_file>>
    BY NextIsCommittedLogNext
<1> QED
    BY <1>1, <1>2, TypeCorrect, OneCallAtATimeHolds, ReplicationInvHolds, PTL
       DEF Spec, ImplementsCommittedLog, CommittedLog!Spec

=============================================================================
