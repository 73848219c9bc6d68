---------------------------- MODULE ValidatorNode ----------------------------
(***************************************************************************)
(* The validator processes of validator_node.py.  A process that starts    *)
(* first synchronises from its peers (sync_from_peers), then binds its     *)
(* socket and serves one request at a time.  Its chain file is the only    *)
(* thing a crash leaves behind; every handler loads it anew, so a handler  *)
(* is one step: nothing else touches the file between its load and save.   *)
(***************************************************************************)
EXTENDS Blockchain, Network, FiniteSets

CONSTANTS
    MAX_SYNC_BLOCKS, \* a SYNC_RESPONSE with more blocks exceeds MAX_MESSAGE_SIZE
    MAX_FAULTS       \* bound on crashes and failed writes in a behaviour

ASSUME ValidatorAssumption ==
    MAX_SYNC_BLOCKS \in Nat /\ MAX_FAULTS \in Nat

VARIABLES
    chain_file,  \* chain_file[v]: the chain stored in VALIDATOR_CHAIN_FILES[v]
    sync,        \* sync[v]: the local state of run_validator before it listens
    faults       \* crashes and failed writes so far

validatorVars == <<chain_file, sync, faults>>

\* The process is not in run_validator's start-up.
NoSync == [stage |-> "none", turn |-> 0, latest_index |-> -1,
           peer_blocks |-> <<>>, blocks |-> {}, working_chain |-> <<>>]

SyncStages == {"none", "collect", "apply", "bind"}

Down(v) == v \notin listening /\ sync[v].stage = "none"

ValidatorInit ==
    /\ chain_file = [v \in Validators |-> <<>>]
    /\ sync = [v \in Validators |-> NoSync]
    /\ faults = 0

-----------------------------------------------------------------------------
(* Serving: handle_connection and its handlers.                            *)

Received(v, type) ==
    /\ v \in listening
    /\ inbox[v] # <<>>
    /\ Head(inbox[v]).type = type

ErrorReply == [type |-> "ERROR"]
OkReply    == [type |-> "OK"]

\* Faulty variant: every proposal is accepted.
AckAlways(v, block, status) ==
    [type |-> "ACK", validator_id |-> v, block_index |-> block.index,
     block_hash |-> block.current_hash, status |-> "ACCEPT"]

AckMessage(v, block, status) ==
    [type |-> "ACK", validator_id |-> v, block_index |-> block.index,
     block_hash |-> block.current_hash, status |-> status]

\* Verify a proposed block against the stored chain; nothing is stored.
HandleProposeBlock(v) ==
    /\ Received(v, "PROPOSE_BLOCK")
    /\ LET block == Head(inbox[v]).block
       IN  Reply(v, AckMessage(v, block,
                        IF ValidateNextBlock(chain_file[v], block)
                        THEN "ACCEPT" ELSE "REJECT"))
    /\ UNCHANGED validatorVars

\* Check the proof, append idempotently, save, then answer.
HandleCommitBlock(v) ==
    /\ Received(v, "COMMIT_BLOCK")
    /\ LET block  == Head(inbox[v]).block
           action == AppendBlockIdempotent(chain_file[v], block)
       IN  IF ValidateCommitProof(block) /\ action \in {"appended", "skipped"}
           THEN /\ chain_file' = [chain_file EXCEPT ![v] = ChainAfterAppend(@, block)]
                /\ Reply(v, OkReply)
           ELSE /\ Reply(v, ErrorReply)
                /\ UNCHANGED chain_file
    /\ UNCHANGED <<sync, faults>>

\* save_chain raised: the file keeps its old content and the error is answered.
HandleCommitSaveFails(v) ==
    /\ Received(v, "COMMIT_BLOCK")
    /\ LET block == Head(inbox[v]).block
       IN  /\ ValidateCommitProof(block)
           /\ AppendBlockIdempotent(chain_file[v], block) = "appended"
    /\ Reply(v, ErrorReply)
    /\ faults < MAX_FAULTS
    /\ faults' = faults + 1
    /\ UNCHANGED <<chain_file, sync>>

SyncResponse(v, latest_index) ==
    LET chain == chain_file[v]
        missing_blocks == GetBlocksAfterIndex(chain, latest_index)
    IN  IF ~VerifyChain(chain) \/ \E n \in DOMAIN chain : ~ValidateCommitProof(chain[n])
        THEN [type |-> "SYNC_RESPONSE", error |-> "LOCAL_CHAIN_INVALID", blocks |-> {}]
        ELSE IF Cardinality(missing_blocks) > MAX_SYNC_BLOCKS THEN Closed
        ELSE [type |-> "SYNC_RESPONSE", error |-> "none", blocks |-> missing_blocks]

HandleSyncRequest(v) ==
    /\ Received(v, "SYNC_REQUEST")
    /\ Reply(v, SyncResponse(v, Head(inbox[v]).latest_index))
    /\ UNCHANGED validatorVars

\* A request that waited longer than max_age_seconds (300) fails
\* verify_message_signature; its caller gave up long before.
RejectExpired(v) ==
    /\ v \in listening
    /\ inbox[v] # <<>>
    /\ ~Head(inbox[v]).live
    /\ Reply(v, ErrorReply)
    /\ UNCHANGED validatorVars

-----------------------------------------------------------------------------
(* Starting: run_validator and sync_from_peers, before the socket exists.  *)

\* The position in VALIDATOR_IDS of the peer asked after position n.
NextTurn(v, n) ==
    IF n < Len(VALIDATOR_IDS) /\ VALIDATOR_IDS[n+1] = v THEN n + 2 ELSE n + 1

StartValidator(v) ==
    /\ Down(v)
    /\ sync' = [sync EXCEPT ![v] =
                   [NoSync EXCEPT !.stage = "collect",
                                  !.turn = NextTurn(v, 0),
                                  !.latest_index = GetLatestIndex(chain_file[v])]]
    /\ UNCHANGED <<chain_file, faults, networkVars>>

Asking(v) == sync[v].stage = "collect" /\ sync[v].turn <= Len(VALIDATOR_IDS)

RequestSync(v) ==
    /\ Asking(v)
    /\ Connect(v, VALIDATOR_IDS[sync[v].turn],
               [type |-> "SYNC_REQUEST", from |-> v, live |-> TRUE,
                latest_index |-> sync[v].latest_index])
    /\ UNCHANGED validatorVars

\* Faulty variant: a peer that does not answer is asked again.
RetryUnavailablePeer(v) ==
    /\ Asking(v)
    /\ Answered(v)
    /\ sync' = IF call[v] = Closed THEN sync
               ELSE [sync EXCEPT ![v].turn = NextTurn(v, @)]
    /\ call' = [call EXCEPT ![v] = Idle]
    /\ UNCHANGED <<chain_file, faults, listening, inbox>>

\* A peer that is unavailable, refuses, or answers nonsense is skipped.
CollectSyncResponse(v) ==
    LET peer     == VALIDATOR_IDS[sync[v].turn]
        response == call[v]
        usable   == response.type = "SYNC_RESPONSE" /\ response.error = "none"
    IN  /\ Asking(v)
        /\ Answered(v)
        /\ sync' = [sync EXCEPT ![v].turn = NextTurn(v, @),
                                ![v].peer_blocks =
                                   IF usable
                                   THEN Append(@, [peer |-> peer, blocks |-> response.blocks])
                                   ELSE @]
        /\ call' = [call EXCEPT ![v] = Idle]
        /\ UNCHANGED <<chain_file, faults, listening, inbox>>

ReturnedBlocks(peer_blocks) ==
    UNION {peer_blocks[n].blocks : n \in DOMAIN peer_blocks}

\* Positions of the answers that contain a block with this index.
ReturnedBy(peer_blocks, index) ==
    {n \in DOMAIN peer_blocks : \E b \in peer_blocks[n].blocks : b.index = index}

\* select_consistent_blocks returns a list: a single peer is believed, two
\* or more must agree on every index that any of them returned.
PeersAgree(peer_blocks) ==
    \/ Len(peer_blocks) = 1
    \/ /\ Len(peer_blocks) >= 2
       /\ \A b, c \in ReturnedBlocks(peer_blocks) :
             b.index = c.index => b.current_hash = c.current_hash
       /\ \A b \in ReturnedBlocks(peer_blocks) :
             Cardinality(ReturnedBy(peer_blocks, b.index)) >= 2

\* chosen_blocks: for each index the block of the peer that answered first.
ChosenBlocks(peer_blocks) ==
    UNION {{b \in peer_blocks[n].blocks :
               \A m \in ReturnedBy(peer_blocks, b.index) : n <= m} :
           n \in DOMAIN peer_blocks}

\* Faulty variant: the stored chain is not loaded before blocks are applied.
SelectWithoutLoading(v) ==
    /\ sync[v].stage = "collect"
    /\ sync[v].turn > Len(VALIDATOR_IDS)
    /\ sync' = [sync EXCEPT ![v] = [NoSync EXCEPT !.stage = "apply",
                   !.blocks = ChosenBlocks(sync[v].peer_blocks)]]
    /\ UNCHANGED <<chain_file, faults, networkVars>>

\* The collected answers are compared; "bind" follows when they disagree or
\* when no peer answered.
SelectConsistentBlocks(v) ==
    /\ sync[v].stage = "collect"
    /\ sync[v].turn > Len(VALIDATOR_IDS)
    /\ LET peer_blocks == sync[v].peer_blocks
       IN  sync' = [sync EXCEPT ![v] =
               IF PeersAgree(peer_blocks)
               THEN [NoSync EXCEPT !.stage = "apply",
                                   !.blocks = ChosenBlocks(peer_blocks),
                                   !.working_chain = chain_file[v]]
               ELSE [NoSync EXCEPT !.stage = "bind"]]
    /\ UNCHANGED <<chain_file, faults, networkVars>>

\* One turn of the loop in append_synced_blocks, lowest index first.  The
\* first block that fails ends the synchronisation and nothing is saved.
AppendSyncedBlock(v) ==
    /\ sync[v].stage = "apply"
    /\ \E block \in sync[v].blocks :
          /\ \A other \in sync[v].blocks : block.index <= other.index
          /\ sync' =
                IF /\ ValidateCommitProof(block)
                   /\ AppendBlockIdempotent(sync[v].working_chain, block)
                          \in {"appended", "skipped"}
                THEN [sync EXCEPT ![v].blocks = @ \ {block},
                                  ![v].working_chain = ChainAfterAppend(@, block)]
                ELSE [sync EXCEPT ![v] = [NoSync EXCEPT !.stage = "bind"]]
    /\ UNCHANGED <<chain_file, faults, networkVars>>

\* The working chain replaces the file.
SaveSyncedChain(v) ==
    /\ sync[v].stage = "apply"
    /\ sync[v].blocks = {}
    /\ chain_file' = [chain_file EXCEPT ![v] = sync[v].working_chain]
    /\ sync' = [sync EXCEPT ![v] = [NoSync EXCEPT !.stage = "bind"]]
    /\ UNCHANGED <<faults, networkVars>>

\* Bind and listen; from here on peers and the producer reach v.
Listen(v) ==
    /\ sync[v].stage = "bind"
    /\ listening' = listening \cup {v}
    /\ sync' = [sync EXCEPT ![v] = NoSync]
    /\ UNCHANGED <<chain_file, faults, inbox, call>>

\* The process stops at any point: killed, or, in SaveSyncedChain's place,
\* by the OSError of save_chain, which run_validator does not catch.
Crash(v) ==
    /\ ~Down(v)
    /\ faults < MAX_FAULTS
    /\ faults' = faults + 1
    /\ DropSockets(v)
    /\ sync' = [sync EXCEPT ![v] = NoSync]
    /\ UNCHANGED chain_file

=============================================================================
