--------------------------- MODULE LogReplication ---------------------------
(***************************************************************************)
(* The whole system: one block producer, the validators, the network       *)
(* between them.  Clients appear as the LOG messages the producer accepts. *)
(***************************************************************************)
EXTENDS ValidatorNode, BlockProducer

CONSTANT STARTED  \* the validators that run before the first log arrives

ASSUME StartedAssumption == STARTED \subseteq Validators

\* Any two quorums have a validator in common: 2 of 3 in the code.
ASSUME QuorumsIntersect == 2 * QUORUM > Cardinality(Validators)

vars == <<networkVars, validatorVars, producerVars>>

\* Every chain file is empty; the operator has started some validators.
Init ==
    /\ NetworkInit
    /\ ValidatorInit
    /\ ProducerInit
    /\ listening = STARTED

AcceptLog(log) == ReceiveLog(log) /\ UNCHANGED validatorVars

HandleLog ==
    /\ \/ ProposeBlock
       \/ CollectAck
       \/ AbortCommit
       \/ AppendCandidate
       \/ CommitBlock
       \/ IgnoreCommitReply
       \/ FinishCommit
    /\ UNCHANGED validatorVars

Serve(v) ==
    /\ \/ HandleProposeBlock(v)
       \/ HandleCommitBlock(v)
       \/ HandleSyncRequest(v)
    /\ UNCHANGED producerVars

Synchronise(v) ==
    /\ \/ RequestSync(v)
       \/ CollectSyncResponse(v)
       \/ SelectConsistentBlocks(v)
       \/ AppendSyncedBlock(v)
       \/ SaveSyncedChain(v)
       \/ Listen(v)
    /\ UNCHANGED producerVars

Environment(v) ==
    /\ \/ StartValidator(v)
       \/ HandleCommitSaveFails(v)
       \/ RejectExpired(v)
       \/ Crash(v)
    /\ UNCHANGED producerVars

CallEnds(r) == GiveUp(r) /\ UNCHANGED <<validatorVars, producerVars>>

Next ==
    \/ \E log \in LOGS : AcceptLog(log)
    \/ HandleLog
    \/ \E v \in Validators : Serve(v) \/ Synchronise(v) \/ Environment(v)
    \/ \E r \in Callers : CallEnds(r)

Spec == Init /\ [][Next]_vars

\* The operator also restarts the producer, which has forgotten its chain.
NextWithRestarts == Next \/ (RestartProducer /\ UNCHANGED validatorVars)

SpecWithRestarts == Init /\ [][NextWithRestarts]_vars

\* What the code makes happen: the producer finishes the LOG connection it
\* has accepted, a listening validator accepts and handles, a starting one
\* goes on, and every blocked call ends by SOCKET_TIMEOUT_SECONDS at the
\* latest.  Clients, operators, expiry and faults promise nothing.
Fairness ==
    /\ WF_vars(HandleLog)
    /\ \A v \in Validators : WF_vars(Serve(v)) /\ WF_vars(Synchronise(v))
    /\ \A r \in Callers : WF_vars(CallEnds(r))

FairSpec == Spec /\ Fairness

-----------------------------------------------------------------------------
(* Types.                                                                  *)

IsRequest(request) ==
    /\ request.from \in Callers
    /\ request.live \in BOOLEAN
    /\ \/ /\ DOMAIN request = {"type", "from", "live", "block"}
          /\ request.type \in {"PROPOSE_BLOCK", "COMMIT_BLOCK"}
          /\ IsBlock(request.block)
       \/ /\ DOMAIN request = {"type", "from", "live", "latest_index"}
          /\ request.type = "SYNC_REQUEST"
          /\ request.latest_index \in Int

IsAnswer(answer) ==
    answer.type = "SYNC_RESPONSE" => \A b \in answer.blocks : IsBlock(b)

IsSync(s) ==
    /\ DOMAIN s = DOMAIN NoSync
    /\ s.stage \in SyncStages
    /\ s.turn \in 0..(Len(VALIDATOR_IDS) + 1)
    /\ s.stage = "collect" => s.turn # 0
    /\ s.latest_index \in Int
    /\ IsSeq(s.peer_blocks)
    /\ \A n \in DOMAIN s.peer_blocks :
          \A b \in s.peer_blocks[n].blocks : IsBlock(b)
    /\ \A b \in s.blocks : IsBlock(b)
    /\ IsChain(s.working_chain)

NetworkTypeOK ==
    /\ listening \subseteq Validators
    /\ inbox = [v \in Validators |-> inbox[v]]
    /\ \A v \in Validators :
          /\ IsSeq(inbox[v])
          /\ Len(inbox[v]) <= SOCKET_BACKLOG
          /\ \A n \in DOMAIN inbox[v] : IsRequest(inbox[v][n])
    /\ call = [r \in Callers |-> call[r]]
    /\ \A r \in Callers : IsAnswer(call[r])

ValidatorTypeOK ==
    /\ chain_file = [v \in Validators |-> chain_file[v]]
    /\ \A v \in Validators : IsChain(chain_file[v])
    /\ sync = [v \in Validators |-> sync[v]]
    /\ \A v \in Validators : IsSync(sync[v])
    /\ faults \in 0..MAX_FAULTS

ProducerTypeOK ==
    /\ IsChain(producer_chain)
    /\ step \in ProducerSteps
    /\ IsBlock(candidate)
    /\ turn \in 0..(Len(VALIDATOR_IDS) + 1)
    /\ step # "accept" => turn # 0
    /\ IsSeq(acks)
    /\ clock \in 0..MAX_CREATED
    /\ restarts \in 0..MAX_RESTARTS

\* Every variable keeps its type; a loop over VALIDATOR_IDS stays in bounds.
TypeOK == NetworkTypeOK /\ ValidatorTypeOK /\ ProducerTypeOK

-----------------------------------------------------------------------------
(* Safety while the producer runs.                                         *)

\* No validator ever stores anything but a prefix of the producer's chain,
\* whatever COMMIT_BLOCKs were lost, delayed, or learned from peers instead.
ChainsFollowProducer ==
    \A v \in Validators : IsPrefix(chain_file[v], producer_chain)

Holders(n) ==
    {v \in Validators : Len(chain_file[v]) >= n /\ chain_file[v][n] = producer_chain[n]}

\* The producer ignores the answers to COMMIT_BLOCK, and still every block
\* but its last is stored by a quorum: the next ACK quorum vouches for it.
DurableButTip ==
    \A n \in 1..(Len(producer_chain) - 1) : Cardinality(Holders(n)) >= QUORUM

\* A stored block is never changed or dropped: not by a late or repeated
\* COMMIT_BLOCK, not by the chain a synchronisation saves, not by a crash.
StoredBlocksStay ==
    [][\A v \in Validators : IsPrefix(chain_file[v], chain_file'[v])]_vars

\* The last block is committed in the producer's memory, no validator stored
\* it, and no COMMIT_BLOCK that carries it is left.
TipIsLost ==
    /\ step # "commit"
    /\ producer_chain # <<>>
    /\ \A v \in Validators : Len(chain_file[v]) < Len(producer_chain)
    /\ \A v \in Validators : \A n \in DOMAIN inbox[v] :
          inbox[v][n].type = "COMMIT_BLOCK" =>
             inbox[v][n].block.index < GetLatestIndex(producer_chain)

\* A lost tip is lost for good and nothing is committed after it: every
\* later proposal links to a block that no validator has.
LostTipBlocksTheLog ==
    [][TipIsLost => TipIsLost' /\ producer_chain' = producer_chain]_vars

Quorums == {Q \in SUBSET Validators : Cardinality(Q) >= QUORUM}

CommittedLog == INSTANCE CommittedLog WITH
    Replicas <- Validators,
    log <- producer_chain, replica <- chain_file

\* The protocol implements the abstract replicated log.
ImplementsCommittedLog == CommittedLog!Spec

-----------------------------------------------------------------------------
(* The inductive invariants behind the safety properties above.            *)

\* An answer never reaches another call than the one it was made for: a
\* caller waits for at most one request at a time, and for none outside its
\* call, although a request that timed out is still handled later.
OneCallAtATime ==
    \A r \in Callers : \A v \in Validators : \A n \in Pending(v, r) :
        /\ call[r] = Waiting
        /\ \A w \in Validators : \A m \in Pending(w, r) : w = v /\ m = n

\* The candidate continues the producer's chain; once committed it is in it.
CandidateInv ==
    /\ Indexed(producer_chain)
    /\ step = "propose" => /\ candidate.index = Len(producer_chain)
                           /\ candidate.current_hash = CalculateBlockHash(candidate)
    /\ step = "commit" => candidate \in Range(producer_chain)

\* Every block that a request in q asks to commit is in S.
CommitsAmong(q, S) ==
    \A n \in DOMAIN q : q[n].type = "COMMIT_BLOCK" => q[n].block \in S

\* Every block of a synchronisation answer is in S.
AnswersAmong(a, S) == a.type = "SYNC_RESPONSE" => a.blocks \subseteq S

\* All blocks that the network carries are.
InFlightAmong(S) ==
    /\ \A v \in Validators : CommitsAmong(inbox[v], S)
    /\ \A r \in Callers : AnswersAmong(call[r], S)

\* Blocks on their way to a chain file are the producer's: those to be
\* committed, those a peer returned, those a starting validator collected.
InFlightInv ==
    /\ InFlightAmong(Range(producer_chain))
    /\ \A v \in Validators :
          /\ \A n \in DOMAIN sync[v].peer_blocks :
                sync[v].peer_blocks[n].blocks \subseteq Range(producer_chain)
          /\ sync[v].blocks \subseteq Range(producer_chain)
          /\ IsPrefix(sync[v].working_chain, producer_chain)

\* A validator serves nobody while it synchronises, so the working chain it
\* is going to save stays an extension of its file.
SyncInv ==
    \A v \in Validators :
        /\ sync[v].stage # "none" => v \notin listening
        /\ sync[v].stage = "apply" => IsPrefix(chain_file[v], sync[v].working_chain)

\* What a start-up has collected comes from S, and what it has built too, as
\* far as it verifies.
StartUpAmong(s, S) ==
    /\ \A n \in DOMAIN s.peer_blocks : s.peer_blocks[n].blocks \subseteq S
    /\ s.blocks \subseteq S
    /\ VerifyChain(s.working_chain) => Range(s.working_chain) \subseteq S

\* So do the chain files, and those of U verify.
FilesAmong(S, U) ==
    \A v \in Validators :
        /\ VerifyChain(chain_file[v]) => Range(chain_file[v]) \subseteq S
        /\ StartUpAmong(sync[v], S)
        /\ v \in U => VerifyChain(chain_file[v]) /\ VerifyChain(sync[v].working_chain)

\* The ACKs counted so far are of different validators of G and name the
\* candidate; the one about to be read, if it will count, is of G too.
AcksFrom(G) ==
    /\ ~Proposing /\ ~Committing => call[PRODUCER] = Idle
    /\ step = "propose" =>
          /\ \A n \in DOMAIN acks :
                /\ acks[n].validator_id \in {VALIDATOR_IDS[m] : m \in 1..(turn - 1)}
                /\ acks[n].validator_id \in G
                /\ acks[n].block_index = candidate.index
                /\ acks[n].block_hash = candidate.current_hash
          /\ \A m, n \in DOMAIN acks :
                acks[m].validator_id = acks[n].validator_id => m = n
          /\ \A v \in Validators : ValidAck(call[PRODUCER], v) => v \in G

WholeChainHolders == {v \in Validators : chain_file[v] = producer_chain}

\* Whoever accepts the candidate has the whole chain before it.
AckInv == AcksFrom(WholeChainHolders)

\* Without producer restarts, all of this holds in every reachable state.
ReplicationInv ==
    /\ CandidateInv
    /\ ChainsFollowProducer
    /\ InFlightInv
    /\ SyncInv
    /\ AckInv

-----------------------------------------------------------------------------
(* Safety when the producer restarts with an empty chain.                  *)

\* Equal tip hashes mean equal chains: what the comparison of tips by
\* check_validators.py and by a synchronising validator relies on.
SameTipSameChain ==
    \A u, v \in Validators :
        (GetLatestHash(chain_file[u]) = GetLatestHash(chain_file[v]))
            => chain_file[u] = chain_file[v]

\* A validator's own chain passes the checks it makes before it serves a
\* SYNC_REQUEST, so an untampered validator never refuses to help a peer.
StoredChainsVerify ==
    \A v \in Validators :
        /\ VerifyChain(chain_file[v])
        /\ \A n \in DOMAIN chain_file[v] : ValidateCommitProof(chain_file[v][n])

\* A producer that forgot its chain can fork the log only at block 0, and
\* of two forked chains one never grows past that block: a block that has a
\* successor is stored by a quorum, which refuses any other.
ForkOnlyAtFirstBlock ==
    \A u, v \in Validators :
        \/ IsPrefix(chain_file[u], chain_file[v])
        \/ IsPrefix(chain_file[v], chain_file[u])
        \/ Len(chain_file[u]) = 1
        \/ Len(chain_file[v]) = 1

\* The blocks with a commit proof that are still somewhere: in a chain, in a
\* COMMIT_BLOCK, in an answer to a SYNC_REQUEST or in a start-up.
CommittedBlocks ==
    UNION ({Range(producer_chain)}
      \cup {Range(chain_file[v]) : v \in Validators}
      \cup {Range(sync[v].working_chain) : v \in Validators}
      \cup {sync[v].blocks : v \in Validators}
      \cup {ReturnedBlocks(sync[v].peer_blocks) : v \in Validators}
      \cup {{request.block : request \in {q \in Range(inbox[v]) : q.type = "COMMIT_BLOCK"}} :
               v \in Validators}
      \cup {answer.blocks : answer \in {a \in Range(call) : a.type = "SYNC_RESPONSE"}})

\* The chains of all processes, stored or in memory.
Chains == {producer_chain} \cup {chain_file[v] : v \in Validators}
                           \cup {sync[v].working_chain : v \in Validators}

\* A block links to block 0's predecessor or to an older block.
LinksBack(block) ==
    \/ block.previous_hash = GENESIS_PREVIOUS_HASH
    \/ /\ block.previous_hash.timestamp \in Int
       /\ block.previous_hash.timestamp < block.timestamp

\* The time of its creation tells a block from all others, and only one
\* block was ever committed after a block that is not the empty chain.
BlocksInv ==
    /\ \A b \in CommittedBlocks :
          /\ b.timestamp \in 0..(clock - 1)
          /\ b.current_hash = CalculateBlockHash(b)
          /\ ValidateCommitProof(b)
          /\ LinksBack(b)
    /\ \A b, c \in CommittedBlocks :
          (\/ b.timestamp = c.timestamp
           \/ b.previous_hash = c.previous_hash /\ b.previous_hash # GENESIS_PREVIOUS_HASH)
             => b = c

\* The candidate is newer than every committed block and would be the first
\* to continue the producer's chain.
NewCandidateInv ==
    /\ step = "propose" =>
          /\ candidate.timestamp \in 0..(clock - 1)
          /\ candidate.current_hash = CalculateBlockHash(candidate)
          /\ LinksBack(candidate)
          /\ VerifyBlock(candidate, producer_chain)
          /\ \A b \in CommittedBlocks : b.timestamp < candidate.timestamp
    /\ step = "commit" => candidate \in Range(producer_chain)
    /\ producer_chain # <<>> =>
          \A b \in CommittedBlocks : b.previous_hash # GetLatestHash(producer_chain)

\* v stores what the candidate continues.  After a restart the producer's
\* chain is empty, and v may meanwhile store an older block 0.
UpToDate(v) == producer_chain # <<>> => chain_file[v] = producer_chain

\* As AckInv, for a producer whose chain may have started anew.
NewAckInv == AcksFrom({v \in Validators : UpToDate(v)})

FirstBlockHolders(hash) ==
    {v \in Validators : chain_file[v] # <<>> /\ chain_file[v][1].current_hash = hash}

\* With producer restarts, this holds in every reachable state.
RestartInv ==
    /\ BlocksInv
    /\ NewCandidateInv
    /\ NewAckInv
    /\ SyncInv
    /\ \A chain \in Chains : VerifyChain(chain)
    /\ \A b \in CommittedBlocks :
          b.index = 1 => Cardinality(FirstBlockHolders(b.previous_hash)) >= QUORUM

-----------------------------------------------------------------------------
(* Liveness.                                                               *)

\* A starting validator leaves the synchronisation: it serves, or it died.
StartupEnds ==
    \A v \in Validators : sync[v].stage # "none" ~> sync[v].stage = "none"

\* Without timeouts, each block the producer commits is stored by every
\* validator that runs from the beginning, unless there is a fault.
CommitsReachEveryValidator ==
    \A n \in 1..MAX_CREATED : \A v \in STARTED :
        Len(producer_chain) >= n ~> Len(chain_file[v]) >= n \/ faults > 0

\* v has begun to start, nothing is being committed any more, no other
\* validator is starting, and those that listen, at least one, miss nothing.
StartsInQuiet(v) ==
    /\ sync[v].stage = "collect"
    /\ sync[v].turn = NextTurn(v, 0)
    /\ call[v] = Idle
    /\ step = "accept" /\ clock = MAX_CREATED /\ faults = MAX_FAULTS
    /\ listening # {}
    /\ \A w \in listening : chain_file[w] = producer_chain /\ inbox[w] = <<>>
    /\ \A w \in Validators \ {v} : sync[w].stage = "none"

\* A validator that restarts in such a quiet moment, with whatever part of
\* the chain it had stored, ends up with the whole chain.
QuietRestartCatchesUp ==
    \A v \in Validators : StartsInQuiet(v) ~> chain_file[v] = producer_chain

-----------------------------------------------------------------------------
(* What the README says of recovery, which the code does not do.           *)

\* "This handles a validator that restarts after missing committed blocks":
\* the start-up does not drop a block that two peers returned alike.
RestartRecoversAgreedBlocks ==
    [][\A v \in Validators :
        (sync[v].stage = "collect" /\ sync[v]'.stage = "bind") =>
            \A b \in ReturnedBlocks(sync[v].peer_blocks) :
                Cardinality(ReturnedBy(sync[v].peer_blocks, b.index)) < 2]_vars

=============================================================================
