---------------------------- MODULE BlockProducer ----------------------------
(***************************************************************************)
(* The block producer of block_producer.py.  One thread serves one LOG     *)
(* connection at a time: it builds a candidate block, proposes it to every *)
(* validator in turn, and, given a quorum of ACKs, appends it to its own   *)
(* chain and sends it to every validator in turn.  The chain lives in      *)
(* memory only, and the answers to COMMIT_BLOCK change nothing.            *)
(***************************************************************************)
EXTENDS Blockchain, Network, FiniteSets

CONSTANTS
    LOGS,         \* the log messages clients may send
    EDGE_LOGS,    \* logs so large that only the block with its proof exceeds
                  \* MAX_MESSAGE_SIZE: PROPOSE_BLOCK fits, COMMIT_BLOCK does not
    MAX_CREATED,  \* bound on the blocks created in a behaviour
    MAX_RESTARTS  \* bound on the restarts of the producer

ASSUME ProducerAssumption ==
    /\ EDGE_LOGS \subseteq LOGS
    /\ MAX_CREATED \in Nat
    /\ MAX_RESTARTS \in Nat

VARIABLES
    producer_chain,  \* the global of the same name
    step,            \* where handle_log_connection is: see ProducerSteps
    candidate,       \* its local variable block
    turn,            \* position in VALIDATOR_IDS of the current loop
    acks,            \* commit_candidate's local variable
    clock,           \* time.time(): a new value for every block created
    restarts         \* restarts of the producer so far

producerVars == <<producer_chain, step, candidate, turn, acks, clock, restarts>>

ProducerSteps == {"accept", "propose", "commit"}

\* No candidate: the locals of a handler that is not running.
NoBlock == [index |-> -1, timestamp |-> 0, log_data |-> GENESIS_PREVIOUS_HASH,
            previous_hash |-> GENESIS_PREVIOUS_HASH,
            current_hash |-> GENESIS_PREVIOUS_HASH, commit_proof |-> NoProof]

AcceptNext ==
    /\ step' = "accept"
    /\ candidate' = NoBlock
    /\ turn' = 0
    /\ acks' = <<>>

ProducerInit ==
    /\ producer_chain = <<>>
    /\ step = "accept"
    /\ candidate = NoBlock
    /\ turn = 0
    /\ acks = <<>>
    /\ clock = 0
    /\ restarts = 0

\* create_block_from_log, for a LOG message that passed every check.
ReceiveLog(log) ==
    /\ step = "accept"
    /\ clock < MAX_CREATED
    /\ clock' = clock + 1
    /\ candidate' = CreateBlock(Len(producer_chain), clock, log, GetLatestHash(producer_chain))
    /\ step' = "propose"
    /\ turn' = 1
    /\ acks' = <<>>
    /\ UNCHANGED <<producer_chain, restarts, networkVars>>

Request(type) == [type |-> type, from |-> PRODUCER, live |-> TRUE, block |-> candidate]

Proposing  == step = "propose" /\ turn <= Len(VALIDATOR_IDS)
Committing == step = "commit" /\ turn <= Len(VALIDATOR_IDS)

ProposeBlock ==
    /\ Proposing
    /\ Connect(PRODUCER, VALIDATOR_IDS[turn], Request("PROPOSE_BLOCK"))
    /\ UNCHANGED producerVars

\* Faulty variant: any answer about this block counts, REJECT included.
AckOfAnyStatus(response, validator_id) ==
    /\ response.type = "ACK"
    /\ response.validator_id = validator_id
    /\ response.block_index = candidate.index
    /\ response.block_hash = candidate.current_hash

ValidAck(response, validator_id) ==
    /\ response.type = "ACK"
    /\ response.validator_id = validator_id
    /\ response.block_index = candidate.index
    /\ response.block_hash = candidate.current_hash
    /\ response.status = "ACCEPT"

\* Only a valid ACCEPT of this block by the validator that was asked counts.
CollectAck ==
    /\ Proposing
    /\ Answered(PRODUCER)
    /\ LET response == call[PRODUCER]
       IN  acks' = IF ValidAck(response, VALIDATOR_IDS[turn])
                   THEN Append(acks, [validator_id |-> response.validator_id,
                                      block_index  |-> response.block_index,
                                      block_hash   |-> response.block_hash])
                   ELSE acks
    /\ turn' = turn + 1
    /\ call' = [call EXCEPT ![PRODUCER] = Idle]
    /\ UNCHANGED <<producer_chain, step, candidate, clock, restarts, listening, inbox>>

\* Faulty variant: the candidate joined the chain before the ACKs are counted.
AbortAfterAppend ==
    /\ step = "propose"
    /\ turn > Len(VALIDATOR_IDS)
    /\ Len(acks) < QUORUM
    /\ AcceptNext
    /\ producer_chain' = Append(producer_chain, candidate)
    /\ UNCHANGED <<clock, restarts, networkVars>>

\* Too few ACKs: the candidate is dropped and the client gets ERROR.
AbortCommit ==
    /\ step = "propose"
    /\ turn > Len(VALIDATOR_IDS)
    /\ Len(acks) < QUORUM
    /\ AcceptNext
    /\ UNCHANGED <<producer_chain, clock, restarts, networkVars>>

\* The candidate gets its proof and joins the producer's chain.
AppendCandidate ==
    /\ step = "propose"
    /\ turn > Len(VALIDATOR_IDS)
    /\ Len(acks) >= QUORUM
    /\ candidate' = AddCommitProof(candidate, acks)
    /\ producer_chain' = Append(producer_chain, candidate')
    /\ step' = "commit"
    /\ turn' = 1
    /\ UNCHANGED <<acks, clock, restarts, networkVars>>

\* A COMMIT_BLOCK over MAX_MESSAGE_SIZE is never sent to anybody.
CommitBlock ==
    /\ Committing
    /\ IF candidate.log_data \in EDGE_LOGS
       THEN FailToSend(PRODUCER)
       ELSE Connect(PRODUCER, VALIDATOR_IDS[turn], Request("COMMIT_BLOCK"))
    /\ UNCHANGED producerVars

\* Faulty variant: every other validator is left out.
SkipOneValidator ==
    /\ Committing
    /\ Answered(PRODUCER)
    /\ turn' = turn + 2
    /\ call' = [call EXCEPT ![PRODUCER] = Idle]
    /\ UNCHANGED <<producer_chain, step, candidate, acks, clock, restarts, listening, inbox>>

\* Whatever became of the COMMIT_BLOCK, the loop goes on.
IgnoreCommitReply ==
    /\ Committing
    /\ Answered(PRODUCER)
    /\ turn' = turn + 1
    /\ call' = [call EXCEPT ![PRODUCER] = Idle]
    /\ UNCHANGED <<producer_chain, step, candidate, acks, clock, restarts, listening, inbox>>

\* The client gets OK and the next connection is accepted.
FinishCommit ==
    /\ step = "commit"
    /\ turn > Len(VALIDATOR_IDS)
    /\ AcceptNext
    /\ UNCHANGED <<producer_chain, clock, restarts, networkVars>>

\* The producer process dies and is started again, with an empty chain.
RestartProducer ==
    /\ restarts < MAX_RESTARTS
    /\ restarts' = restarts + 1
    /\ producer_chain' = <<>>
    /\ AcceptNext
    /\ call' = [call EXCEPT ![PRODUCER] = Idle]
    /\ inbox' = [v \in Validators |-> Abandon(inbox[v], PRODUCER)]
    /\ UNCHANGED <<clock, listening>>

=============================================================================
