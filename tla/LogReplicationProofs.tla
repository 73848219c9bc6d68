------------------------ MODULE LogReplicationProofs ------------------------
(***************************************************************************)
(* Proofs about LogReplication, for every value of its constants: the      *)
(* types, and that an answer reaches no call but the one it is for.        *)
(***************************************************************************)
EXTENDS LogReplication, ChainLemmas

-----------------------------------------------------------------------------
(* The types of the network.                                               *)

\* Abandoning a caller's requests touches nothing but their live flags.
LEMMA AbandonFacts ==
    ASSUME NEW q, IsSeq(q), \A n \in DOMAIN q : IsRequest(q[n]), NEW r
    PROVE  /\ IsSeq(Abandon(q, r))
           /\ Len(Abandon(q, r)) = Len(q)
           /\ DOMAIN Abandon(q, r) = DOMAIN q
           /\ \A n \in DOMAIN q : /\ IsRequest(Abandon(q, r)[n])
                                  /\ Abandon(q, r)[n].type = q[n].type
                                  /\ Abandon(q, r)[n].from = q[n].from
                                  /\ Abandon(q, r)[n].live <=> q[n].live /\ q[n].from # r
                                  /\ q[n].type # "SYNC_REQUEST" =>
                                        Abandon(q, r)[n].block = q[n].block
<1> DEFINE a == Abandon(q, r)
<1>1. Len(q) \in Nat /\ DOMAIN q = 1..Len(q)
    BY SeqFacts
<1>2. a = [n \in 1..Len(q) |-> a[n]]
    BY <1>1 DEF Abandon
<1>3. ASSUME NEW n \in DOMAIN q
      PROVE  /\ IsRequest(a[n])
             /\ a[n].type = q[n].type
             /\ a[n].from = q[n].from
             /\ a[n].live <=> q[n].live /\ q[n].from # r
             /\ q[n].type # "SYNC_REQUEST" => a[n].block = q[n].block
    <2>1. a[n] = IF q[n].from = r THEN [q[n] EXCEPT !.live = FALSE] ELSE q[n]
        BY <1>3 DEF Abandon
    <2>2. IsRequest(q[n])
        BY <1>3
    <2> HIDE DEF a
    <2> QED
        BY <2>1, <2>2 DEF IsRequest
<1>4. IsSeq(a) /\ Len(a) = Len(q)
    <2> HIDE DEF a
    <2> QED
        BY <1>1, <1>2, FunctionIsSeq
<1>5. DOMAIN a = DOMAIN q
    BY DEF Abandon
<1> QED
    BY <1>3, <1>4, <1>5

\* A connection adds one request, within the backlog.
LEMMA ConnectType ==
    ASSUME NetworkTypeOK, NEW r \in Callers, NEW v \in Validators,
           NEW request, IsRequest(request), Connect(r, v, request)
    PROVE  NetworkTypeOK'
<1>1. CASE Reachable(v)
    <2>1. inbox' = [inbox EXCEPT ![v] = Append(@, request)]
        BY <1>1 DEF Connect
    <2>2. call' = [call EXCEPT ![r] = Waiting]
        BY <1>1 DEF Connect
    <2> DEFINE longer == Append(inbox[v], request)
    <2>3. /\ IsSeq(longer)
          /\ Len(longer) = Len(inbox[v]) + 1
          /\ DOMAIN longer = 1..(Len(inbox[v]) + 1)
          /\ \A n \in 1..Len(inbox[v]) : longer[n] = inbox[v][n]
          /\ longer[Len(inbox[v]) + 1] = request
        BY AppendFacts DEF NetworkTypeOK
    <2>4. Len(inbox[v]) \in Nat /\ DOMAIN inbox[v] = 1..Len(inbox[v])
        BY SeqFacts DEF NetworkTypeOK
    <2>5. Len(longer) <= SOCKET_BACKLOG
        BY <1>1, <2>3, <2>4, NetworkAssumption DEF Reachable
    <2> HIDE DEF longer
    <2>6. \A n \in DOMAIN longer : IsRequest(longer[n])
        BY <2>3, <2>4 DEF NetworkTypeOK
    <2>7. inbox' = [inbox EXCEPT ![v] = longer]
        BY <2>1 DEF longer
    <2>8. \A w \in Callers : IsAnswer(call'[w])
        BY <2>2 DEF NetworkTypeOK, IsAnswer, Waiting
    <2> QED
        BY <2>2, <2>3, <2>5, <2>6, <2>7, <2>8 DEF NetworkTypeOK, Connect
<1>2. CASE ~Reachable(v)
    BY <1>2 DEF Connect, NetworkTypeOK, IsAnswer, Closed
<1> QED
    BY <1>1, <1>2

\* An oversize message changes nothing but the call.
LEMMA FailToSendType ==
    ASSUME NetworkTypeOK, NEW r \in Callers, FailToSend(r)
    PROVE  NetworkTypeOK'
BY DEF FailToSend, NetworkTypeOK, IsAnswer, Closed

\* Giving up changes live flags and one call.
LEMMA GiveUpType ==
    ASSUME NetworkTypeOK, NEW r \in Callers, GiveUp(r)
    PROVE  NetworkTypeOK'
<1>1. ASSUME NEW v \in Validators
      PROVE  /\ IsSeq(inbox'[v])
             /\ Len(inbox'[v]) <= SOCKET_BACKLOG
             /\ \A n \in DOMAIN inbox'[v] : IsRequest(inbox'[v][n])
    <2>1. inbox'[v] = Abandon(inbox[v], r)
        BY DEF GiveUp
    <2> QED
        BY <2>1, AbandonFacts DEF NetworkTypeOK
<1>2. \A w \in Callers : IsAnswer(call'[w])
    BY DEF GiveUp, NetworkTypeOK, IsAnswer, Closed
<1> QED
    BY <1>1, <1>2 DEF GiveUp, NetworkTypeOK

\* Answering removes the head request.
LEMMA ReplyType ==
    ASSUME NetworkTypeOK, NEW v \in Validators, inbox[v] # <<>>,
           NEW response, IsAnswer(response), Reply(v, response)
    PROVE  NetworkTypeOK'
<1>1. /\ IsSeq(Tail(inbox[v]))
      /\ Len(Tail(inbox[v])) = Len(inbox[v]) - 1
      /\ DOMAIN Tail(inbox[v]) = 1..(Len(inbox[v]) - 1)
      /\ \A n \in 1..(Len(inbox[v]) - 1) : Tail(inbox[v])[n] = inbox[v][n + 1]
      /\ Head(inbox[v]) = inbox[v][1]
      /\ 1 \in DOMAIN inbox[v]
    BY TailFacts DEF NetworkTypeOK
<1> DEFINE shorter == Tail(inbox[v])
<1>2. Len(inbox[v]) \in Nat /\ DOMAIN inbox[v] = 1..Len(inbox[v])
    BY SeqFacts DEF NetworkTypeOK
<1>3. inbox' = [inbox EXCEPT ![v] = shorter]
    BY DEF Reply
<1>4. Head(inbox[v]).from \in Callers
    BY <1>1 DEF NetworkTypeOK, IsRequest
<1>5. /\ call' = [w \in Callers |-> call'[w]]
      /\ \A w \in Callers : IsAnswer(call'[w])
    BY <1>4 DEF Reply, NetworkTypeOK
<1>6. IsSeq(shorter) /\ Len(shorter) <= SOCKET_BACKLOG
    BY <1>1, <1>2, NetworkAssumption DEF NetworkTypeOK
<1>7. \A n \in DOMAIN shorter : IsRequest(shorter[n])
    BY <1>1, <1>2 DEF NetworkTypeOK
<1> HIDE DEF shorter
<1> QED
    BY <1>3, <1>5, <1>6, <1>7 DEF NetworkTypeOK, Reply

\* A crash empties an inbox and abandons requests elsewhere.
LEMMA DropSocketsType ==
    ASSUME NetworkTypeOK, NEW v \in Validators, DropSockets(v)
    PROVE  NetworkTypeOK'
<1>1. ASSUME NEW w \in Validators
      PROVE  /\ IsSeq(inbox'[w])
             /\ Len(inbox'[w]) <= SOCKET_BACKLOG
             /\ \A n \in DOMAIN inbox'[w] : IsRequest(inbox'[w][n])
    <2>1. inbox'[w] = IF w = v THEN <<>> ELSE Abandon(inbox[w], v)
        BY DEF DropSockets
    <2> QED
        BY <2>1, AbandonFacts, EmptyIsSeq, NetworkAssumption DEF NetworkTypeOK
<1>2. \A w \in Callers : IsAnswer(call'[w])
    BY DEF DropSockets, NetworkTypeOK, IsAnswer, Idle
<1> QED
    BY <1>1, <1>2 DEF DropSockets, NetworkTypeOK

\* Only the state of one call changes.
LEMMA CallSetIdleType ==
    ASSUME NetworkTypeOK, NEW r \in Callers,
           call' = [call EXCEPT ![r] = Idle], UNCHANGED <<listening, inbox>>
    PROVE  NetworkTypeOK'
BY DEF NetworkTypeOK, IsAnswer, Idle

-----------------------------------------------------------------------------
(* The types of the validators.                                            *)

\* The next peer is a position of VALIDATOR_IDS or the one after it.
LEMMA TurnBounds ==
    ASSUME NEW v, NEW n \in 0..Len(VALIDATOR_IDS)
    PROVE  NextTurn(v, n) \in 1..(Len(VALIDATOR_IDS) + 1)
<1>1. Len(VALIDATOR_IDS) \in Nat
    BY NetworkAssumption, LenProperties
<1> QED
    BY <1>1 DEF NextTurn

\* A process outside its start-up is well typed.
LEMMA NoSyncType == IsSync(NoSync)
<1>1. Len(VALIDATOR_IDS) \in Nat
    BY NetworkAssumption, LenProperties
<1> QED
    BY <1>1, EmptyIsSeq DEF IsSync, NoSync, SyncStages, IsChain

\* So is one that is about to listen.
LEMMA BindType == IsSync([NoSync EXCEPT !.stage = "bind"])
BY NoSyncType DEF IsSync, NoSync, SyncStages

\* One validator's sync state changes, nothing else of the validators.
LEMMA SyncChangeType ==
    ASSUME ValidatorTypeOK, NEW v \in Validators, NEW s, IsSync(s),
           sync' = [sync EXCEPT ![v] = s], UNCHANGED chain_file,
           faults' \in 0..MAX_FAULTS
    PROVE  ValidatorTypeOK'
BY DEF ValidatorTypeOK

\* StartValidator.
LEMMA StartType ==
    ASSUME ValidatorTypeOK, NEW v \in Validators, StartValidator(v)
    PROVE  ValidatorTypeOK'
<1> DEFINE s == [NoSync EXCEPT !.stage = "collect", !.turn = NextTurn(v, 0),
                               !.latest_index = GetLatestIndex(chain_file[v])]
<1>1. GetLatestIndex(chain_file[v]) \in Int
    BY LatestIndexType DEF ValidatorTypeOK
<1>2. NextTurn(v, 0) \in 1..(Len(VALIDATOR_IDS) + 1)
    BY TurnBounds, NetworkAssumption, LenProperties
<1>3. IsSync(s)
    BY <1>1, <1>2, NoSyncType DEF IsSync, NoSync, SyncStages
<1>4. sync' = [sync EXCEPT ![v] = s] /\ UNCHANGED <<chain_file, faults>>
    BY DEF StartValidator
<1>5. faults' \in 0..MAX_FAULTS
    BY <1>4 DEF ValidatorTypeOK
<1> HIDE DEF s
<1> QED
    BY <1>3, <1>4, <1>5, SyncChangeType

\* CollectSyncResponse: the answer's blocks are blocks.
LEMMA CollectType ==
    ASSUME NetworkTypeOK, ValidatorTypeOK, NEW v \in Validators, CollectSyncResponse(v)
    PROVE  NetworkTypeOK' /\ ValidatorTypeOK'
<1> DEFINE peer == VALIDATOR_IDS[sync[v].turn]
           usable == call[v].type = "SYNC_RESPONSE" /\ call[v].error = "none"
           answer == [peer |-> peer, blocks |-> call[v].blocks]
           old == sync[v].peer_blocks
           answers == IF usable THEN Append(old, answer) ELSE old
           s == [sync[v] EXCEPT !.turn = NextTurn(v, sync[v].turn), !.peer_blocks = answers]
<1>1. v \in Callers
    BY DEF Callers
<1>2. IsSync(sync[v]) /\ Asking(v)
    BY DEF ValidatorTypeOK, CollectSyncResponse
<1>3. NextTurn(v, sync[v].turn) \in 1..(Len(VALIDATOR_IDS) + 1)
    <2>1. sync[v].turn \in 0..Len(VALIDATOR_IDS)
        BY <1>2, NetworkAssumption, LenProperties DEF IsSync, Asking
    <2> QED
        BY <2>1, TurnBounds
<1>4. usable => \A b \in answer.blocks : IsBlock(b)
    BY <1>1 DEF NetworkTypeOK, IsAnswer
<1>5. IsSeq(old) /\ DOMAIN old = 1..Len(old) /\ Len(old) \in Nat
      /\ \A n \in DOMAIN old : \A b \in old[n].blocks : IsBlock(b)
    BY <1>2, SeqFacts DEF IsSync
<1>6. IsSeq(answers) /\ \A n \in DOMAIN answers : \A b \in answers[n].blocks : IsBlock(b)
    <2> HIDE DEF answer, old, usable
    <2>1. CASE usable
        <3> DEFINE more == Append(old, answer)
        <3>1. /\ IsSeq(more)
              /\ DOMAIN more = 1..(Len(old) + 1)
              /\ \A n \in 1..Len(old) : more[n] = old[n]
              /\ more[Len(old) + 1] = answer
            BY <1>5, AppendFacts
        <3>2. answers = more
            BY <2>1
        <3> HIDE DEF more, answers
        <3> QED
            BY <1>4, <1>5, <2>1, <3>1, <3>2
    <2>2. CASE ~usable
        BY <1>5, <2>2
    <2> QED
        BY <2>1, <2>2
<1>7. sync' = [sync EXCEPT ![v] = s]
    BY DEF CollectSyncResponse
<1> HIDE DEF answers
<1>8. IsSync(s)
    BY <1>2, <1>3, <1>6 DEF IsSync, NoSync
<1>9. UNCHANGED chain_file /\ faults' \in 0..MAX_FAULTS
    BY DEF CollectSyncResponse, ValidatorTypeOK
<1>10. NetworkTypeOK'
    BY <1>1, CallSetIdleType DEF CollectSyncResponse
<1> HIDE DEF s
<1> QED
    BY <1>7, <1>8, <1>9, <1>10, SyncChangeType

\* The chosen blocks are among the returned ones.
LEMMA ChosenAreReturned ==
    ASSUME NEW pb, NEW b \in ChosenBlocks(pb)
    PROVE  \E n \in DOMAIN pb : b \in pb[n].blocks
BY DEF ChosenBlocks

\* SelectConsistentBlocks: the chosen blocks are.
LEMMA SelectType ==
    ASSUME ValidatorTypeOK, NEW v \in Validators, SelectConsistentBlocks(v)
    PROVE  ValidatorTypeOK'
<1> DEFINE pb == sync[v].peer_blocks
           s == [NoSync EXCEPT !.stage = "apply", !.blocks = ChosenBlocks(pb),
                               !.working_chain = chain_file[v]]
           bind == [NoSync EXCEPT !.stage = "bind"]
<1>1. \A b \in ChosenBlocks(pb) : IsBlock(b)
    BY ChosenAreReturned DEF ValidatorTypeOK, IsSync
<1>2. IsSync(s)
    BY <1>1, NoSyncType DEF IsSync, NoSync, SyncStages, ValidatorTypeOK
<1>3. sync' = [sync EXCEPT ![v] = IF PeersAgree(pb) THEN s ELSE bind]
    BY DEF SelectConsistentBlocks
<1>4. UNCHANGED chain_file /\ faults' \in 0..MAX_FAULTS
    BY DEF SelectConsistentBlocks, ValidatorTypeOK
<1>5. IsSync(bind)
    BY BindType
<1> HIDE DEF s, bind
<1>6. IsSync(IF PeersAgree(pb) THEN s ELSE bind)
    BY <1>2, <1>5
<1> QED
    BY <1>3, <1>4, <1>6, SyncChangeType

\* AppendSyncedBlock: the working chain stays a chain.
LEMMA AppendSyncedType ==
    ASSUME ValidatorTypeOK, NEW v \in Validators, AppendSyncedBlock(v)
    PROVE  ValidatorTypeOK'
<1>1. PICK b \in sync[v].blocks :
         sync' = IF /\ ValidateCommitProof(b)
                    /\ AppendBlockIdempotent(sync[v].working_chain, b)
                           \in {"appended", "skipped"}
                 THEN [sync EXCEPT ![v].blocks = @ \ {b},
                                   ![v].working_chain = ChainAfterAppend(@, b)]
                 ELSE [sync EXCEPT ![v] = [NoSync EXCEPT !.stage = "bind"]]
    BY DEF AppendSyncedBlock
<1> DEFINE s == [sync[v] EXCEPT !.blocks = sync[v].blocks \ {b},
                                !.working_chain = ChainAfterAppend(sync[v].working_chain, b)]
           bind == [NoSync EXCEPT !.stage = "bind"]
<1>2. IsSync(sync[v])
    BY DEF ValidatorTypeOK
<1>3. IsChain(ChainAfterAppend(sync[v].working_chain, b))
    BY <1>2, ChainAfterAppendIsChain DEF IsSync
<1>4. IsSync(s)
    BY <1>2, <1>3 DEF IsSync, NoSync
<1>5. UNCHANGED chain_file /\ faults' \in 0..MAX_FAULTS
    BY DEF AppendSyncedBlock, ValidatorTypeOK
<1>6. sync' = [sync EXCEPT ![v] = s] \/ sync' = [sync EXCEPT ![v] = bind]
    BY <1>1
<1>7. IsSync(bind)
    BY BindType
<1> HIDE DEF s, bind
<1> QED
    BY <1>4, <1>5, <1>6, <1>7, SyncChangeType

\* SaveSyncedChain: what is saved is a chain.
LEMMA SaveSyncedType ==
    ASSUME ValidatorTypeOK, NEW v \in Validators, SaveSyncedChain(v)
    PROVE  ValidatorTypeOK'
<1> DEFINE bind == [NoSync EXCEPT !.stage = "bind"]
<1>1. IsChain(sync[v].working_chain)
    BY DEF ValidatorTypeOK, IsSync
<1>2. IsSync(bind)
    BY BindType
<1>3. /\ sync' = [sync EXCEPT ![v] = bind]
      /\ chain_file' = [chain_file EXCEPT ![v] = sync[v].working_chain]
      /\ UNCHANGED faults
    BY DEF SaveSyncedChain
<1> HIDE DEF bind
<1> QED
    BY <1>1, <1>2, <1>3 DEF ValidatorTypeOK

\* The handlers of a listening validator.
LEMMA ServeType ==
    ASSUME NetworkTypeOK, ValidatorTypeOK, NEW v \in Validators,
           \/ HandleProposeBlock(v)
           \/ HandleCommitBlock(v)
           \/ HandleCommitSaveFails(v)
           \/ HandleSyncRequest(v)
           \/ RejectExpired(v)
    PROVE  NetworkTypeOK' /\ ValidatorTypeOK'
<1>1. CASE HandleProposeBlock(v)
    <2>1. inbox[v] # <<>>
        BY <1>1 DEF HandleProposeBlock, Received
    <2>2. PICK status : Reply(v, AckMessage(v, Head(inbox[v]).block, status))
        BY <1>1 DEF HandleProposeBlock
    <2>3. IsAnswer(AckMessage(v, Head(inbox[v]).block, status))
        BY DEF IsAnswer, AckMessage
    <2>4. NetworkTypeOK'
        BY <2>1, <2>2, <2>3, ReplyType
    <2> QED
        BY <1>1, <2>4 DEF HandleProposeBlock, validatorVars, ValidatorTypeOK
<1>2. CASE HandleCommitBlock(v)
    <2> DEFINE block == Head(inbox[v]).block
    <2>1. inbox[v] # <<>> /\ Head(inbox[v]).type = "COMMIT_BLOCK"
        BY <1>2 DEF HandleCommitBlock, Received
    <2>2. Reply(v, OkReply) \/ Reply(v, ErrorReply)
        BY <1>2 DEF HandleCommitBlock
    <2>3. NetworkTypeOK'
        BY <2>1, <2>2, ReplyType DEF IsAnswer, OkReply, ErrorReply
    <2>4. IsBlock(block)
        BY <2>1, TailFacts DEF NetworkTypeOK, IsRequest
    <2>5. IsChain(ChainAfterAppend(chain_file[v], block))
        BY <2>4, ChainAfterAppendIsChain DEF ValidatorTypeOK
    <2>6. \/ UNCHANGED chain_file
          \/ chain_file' = [chain_file EXCEPT ![v] = ChainAfterAppend(chain_file[v], block)]
        BY <1>2 DEF HandleCommitBlock
    <2>7. UNCHANGED <<sync, faults>>
        BY <1>2 DEF HandleCommitBlock
    <2> HIDE DEF block
    <2> QED
        BY <2>3, <2>5, <2>6, <2>7 DEF ValidatorTypeOK
<1>3. CASE HandleCommitSaveFails(v)
    <2>1. NetworkTypeOK'
        BY <1>3, ReplyType DEF HandleCommitSaveFails, Received, IsAnswer, ErrorReply
    <2> QED
        BY <1>3, <2>1, ValidatorAssumption DEF HandleCommitSaveFails, ValidatorTypeOK
<1>4. CASE HandleSyncRequest(v)
    <2> DEFINE latest == Head(inbox[v]).latest_index
    <2>1. IsAnswer(SyncResponse(v, latest))
        BY DEF IsAnswer, SyncResponse, Closed, GetBlocksAfterIndex, ValidatorTypeOK, IsChain
    <2>2. inbox[v] # <<>> /\ Reply(v, SyncResponse(v, latest))
        BY <1>4 DEF HandleSyncRequest, Received
    <2> HIDE DEF latest
    <2>3. NetworkTypeOK'
        BY <2>1, <2>2, ReplyType
    <2> QED
        BY <1>4, <2>3 DEF HandleSyncRequest, validatorVars, ValidatorTypeOK
<1>5. CASE RejectExpired(v)
    <2>1. NetworkTypeOK'
        BY <1>5, ReplyType DEF RejectExpired, IsAnswer, ErrorReply
    <2> QED
        BY <1>5, <2>1 DEF RejectExpired, validatorVars, ValidatorTypeOK
<1> QED
    BY <1>1, <1>2, <1>3, <1>4, <1>5

\* The remaining steps of a starting or dying validator.
LEMMA StartUpType ==
    ASSUME NetworkTypeOK, ValidatorTypeOK, NEW v \in Validators,
           \/ RequestSync(v)
           \/ Listen(v)
           \/ Crash(v)
    PROVE  NetworkTypeOK' /\ ValidatorTypeOK'
<1>1. CASE RequestSync(v)
    <2> DEFINE request == [type |-> "SYNC_REQUEST", from |-> v, live |-> TRUE,
                           latest_index |-> sync[v].latest_index]
    <2>1. IsRequest(request)
        BY DEF IsRequest, Callers, ValidatorTypeOK, IsSync
    <2>2. VALIDATOR_IDS[sync[v].turn] \in Validators
        <3>1. sync[v].turn \in 1..Len(VALIDATOR_IDS)
            BY <1>1, NetworkAssumption, LenProperties
               DEF RequestSync, Asking, ValidatorTypeOK, IsSync
        <3> QED
            BY <3>1, NetworkAssumption, ElementOfSeq DEF Validators
    <2>3. Connect(v, VALIDATOR_IDS[sync[v].turn], request)
        BY <1>1 DEF RequestSync
    <2> HIDE DEF request
    <2>4. NetworkTypeOK'
        BY <2>1, <2>2, <2>3, ConnectType DEF Callers
    <2> QED
        BY <1>1, <2>4 DEF RequestSync, validatorVars, ValidatorTypeOK
<1>2. CASE Listen(v)
    <2>1. NetworkTypeOK'
        BY <1>2 DEF Listen, NetworkTypeOK
    <2>2. faults' \in 0..MAX_FAULTS /\ UNCHANGED chain_file
        BY <1>2 DEF Listen, ValidatorTypeOK
    <2>3. sync' = [sync EXCEPT ![v] = NoSync]
        BY <1>2 DEF Listen
    <2> QED
        BY <2>1, <2>2, <2>3, NoSyncType, SyncChangeType
<1>3. CASE Crash(v)
    <2>1. NetworkTypeOK'
        BY <1>3, DropSocketsType DEF Crash
    <2>2. faults' \in 0..MAX_FAULTS /\ UNCHANGED chain_file
        BY <1>3, ValidatorAssumption DEF Crash, ValidatorTypeOK
    <2>3. sync' = [sync EXCEPT ![v] = NoSync]
        BY <1>3 DEF Crash
    <2> QED
        BY <2>1, <2>2, <2>3, NoSyncType, SyncChangeType
<1> QED
    BY <1>1, <1>2, <1>3

-----------------------------------------------------------------------------
(* The types of the producer.                                              *)

\* The locals of an idle producer are well typed.
LEMMA NoBlockType == IsBlock(NoBlock)
BY NoProofIsProof DEF NoBlock, IsBlock, BlockFields

\* Going back to accept keeps the producer's types.
LEMMA AcceptNextType ==
    ASSUME ProducerTypeOK, AcceptNext, IsChain(producer_chain'),
           clock' \in 0..MAX_CREATED, restarts' \in 0..MAX_RESTARTS
    PROVE  ProducerTypeOK'
<1>1. IsBlock(candidate') /\ IsSeq(acks') /\ step' = "accept" /\ turn' = 0
    BY NoBlockType, EmptyIsSeq DEF AcceptNext
<1>2. 0 \in 0..(Len(VALIDATOR_IDS) + 1)
    BY NetworkAssumption, LenProperties
<1> QED
    BY <1>1, <1>2 DEF ProducerTypeOK, ProducerSteps

\* In both loops of the producer, turn names a validator.
LEMMA TurnInBounds ==
    ASSUME ProducerTypeOK, Proposing \/ Committing
    PROVE  /\ turn \in 1..Len(VALIDATOR_IDS)
           /\ turn + 1 \in 1..(Len(VALIDATOR_IDS) + 1)
           /\ VALIDATOR_IDS[turn] \in Validators
<1>1. turn \in 1..Len(VALIDATOR_IDS) /\ Len(VALIDATOR_IDS) \in Nat
    BY NetworkAssumption, LenProperties DEF ProducerTypeOK, Proposing, Committing
<1> QED
    BY <1>1, NetworkAssumption, ElementOfSeq DEF Validators

\* What the producer sends is a request.
LEMMA RequestType ==
    ASSUME ProducerTypeOK, NEW type \in {"PROPOSE_BLOCK", "COMMIT_BLOCK"}
    PROVE  IsRequest(Request(type))
BY DEF Request, IsRequest, Callers, ProducerTypeOK

\* create_block_from_log makes a block.
LEMMA ReceiveLogType ==
    ASSUME ProducerTypeOK, NEW log, ReceiveLog(log)
    PROVE  ProducerTypeOK'
<1>1. Len(producer_chain) \in Int
    BY SeqFacts DEF ProducerTypeOK, IsChain
<1>2. IsBlock(candidate')
    BY <1>1, CreateBlockFacts DEF ReceiveLog
<1>3. clock' \in 0..MAX_CREATED
    BY ProducerAssumption DEF ReceiveLog, ProducerTypeOK
<1>4. 1 \in 0..(Len(VALIDATOR_IDS) + 1)
    BY NetworkAssumption, LenProperties
<1> QED
    BY <1>2, <1>3, <1>4, EmptyIsSeq DEF ReceiveLog, ProducerTypeOK, ProducerSteps

\* The steps of handle_log_connection.
LEMMA HandleLogType ==
    ASSUME NetworkTypeOK, ProducerTypeOK, HandleLog
    PROVE  NetworkTypeOK' /\ ProducerTypeOK'
<1>1. PRODUCER \in Callers
    BY DEF Callers
<1>2. CASE ProposeBlock
    <2>1. NetworkTypeOK'
        BY <1>1, <1>2, ConnectType, RequestType, TurnInBounds DEF ProposeBlock
    <2> QED
        BY <1>2, <2>1 DEF ProposeBlock, producerVars, ProducerTypeOK
<1>3. CASE CollectAck
    <2> DEFINE ack == [validator_id |-> call[PRODUCER].validator_id,
                       block_index  |-> call[PRODUCER].block_index,
                       block_hash   |-> call[PRODUCER].block_hash]
    <2>1. NetworkTypeOK'
        BY <1>1, <1>3, CallSetIdleType DEF CollectAck
    <2>2. acks' = Append(acks, ack) \/ acks' = acks
        BY <1>3 DEF CollectAck
    <2> HIDE DEF ack
    <2>3. IsSeq(acks) /\ IsSeq(Append(acks, ack))
        BY AppendFacts DEF ProducerTypeOK
    <2>4. IsSeq(acks')
        BY <2>2, <2>3
    <2>5. turn' \in 1..(Len(VALIDATOR_IDS) + 1)
        BY <1>3, TurnInBounds DEF CollectAck
    <2> QED
        BY <1>3, <2>1, <2>4, <2>5 DEF CollectAck, ProducerTypeOK
<1>4. CASE AbortCommit
    BY <1>4, AcceptNextType DEF AbortCommit, networkVars, NetworkTypeOK, ProducerTypeOK
<1>5. CASE AppendCandidate
    <2>1. IsBlock(candidate')
        BY <1>5, AddCommitProofFacts DEF AppendCandidate, ProducerTypeOK
    <2>2. IsChain(producer_chain')
        BY <1>5, <2>1, AppendIsChain DEF AppendCandidate, ProducerTypeOK
    <2>3. 1 \in 0..(Len(VALIDATOR_IDS) + 1)
        BY NetworkAssumption, LenProperties
    <2> QED
        BY <1>5, <2>1, <2>2, <2>3
           DEF AppendCandidate, networkVars, NetworkTypeOK, ProducerTypeOK, ProducerSteps
<1>6. CASE CommitBlock
    <2>1. NetworkTypeOK'
        BY <1>1, <1>6, ConnectType, FailToSendType, RequestType, TurnInBounds DEF CommitBlock
    <2> QED
        BY <1>6, <2>1 DEF CommitBlock, producerVars, ProducerTypeOK
<1>7. CASE IgnoreCommitReply
    <2>1. NetworkTypeOK'
        BY <1>1, <1>7, CallSetIdleType DEF IgnoreCommitReply
    <2>2. turn' \in 1..(Len(VALIDATOR_IDS) + 1)
        BY <1>7, TurnInBounds DEF IgnoreCommitReply
    <2> QED
        BY <1>7, <2>1, <2>2 DEF IgnoreCommitReply, ProducerTypeOK
<1>8. CASE FinishCommit
    BY <1>8, AcceptNextType DEF FinishCommit, networkVars, NetworkTypeOK, ProducerTypeOK
<1> QED
    BY <1>2, <1>3, <1>4, <1>5, <1>6, <1>7, <1>8 DEF HandleLog

\* A producer restart.
LEMMA RestartType ==
    ASSUME NetworkTypeOK, ProducerTypeOK, RestartProducer
    PROVE  NetworkTypeOK' /\ ProducerTypeOK'
<1>1. ASSUME NEW v \in Validators
      PROVE  /\ IsSeq(inbox'[v])
             /\ Len(inbox'[v]) <= SOCKET_BACKLOG
             /\ \A n \in DOMAIN inbox'[v] : IsRequest(inbox'[v][n])
    <2>1. inbox'[v] = Abandon(inbox[v], PRODUCER)
        BY DEF RestartProducer
    <2> QED
        BY <2>1, AbandonFacts DEF NetworkTypeOK
<1>2. \A w \in Callers : IsAnswer(call'[w])
    BY DEF RestartProducer, NetworkTypeOK, IsAnswer, Idle
<1>3. NetworkTypeOK'
    BY <1>1, <1>2 DEF RestartProducer, NetworkTypeOK
<1>4. IsChain(producer_chain') /\ clock' \in 0..MAX_CREATED /\ restarts' \in 0..MAX_RESTARTS
    BY EmptyIsSeq, ProducerAssumption DEF RestartProducer, IsChain, ProducerTypeOK
<1> QED
    BY <1>3, <1>4, AcceptNextType DEF RestartProducer

-----------------------------------------------------------------------------
(* Type correctness.                                                       *)

\* The initial states are well typed.
LEMMA InitType == Init => TypeOK
<1> SUFFICES ASSUME Init PROVE TypeOK
    OBVIOUS
<1>1. NetworkTypeOK
    BY EmptyIsSeq, StartedAssumption, NetworkAssumption
       DEF Init, NetworkInit, NetworkTypeOK, IsAnswer, Idle
<1>2. ValidatorTypeOK
    BY EmptyIsSeq, NoSyncType, ValidatorAssumption
       DEF Init, ValidatorInit, ValidatorTypeOK, IsChain
<1>3. 0 \in 0..(Len(VALIDATOR_IDS) + 1)
    BY NetworkAssumption, LenProperties
<1>4. ProducerTypeOK
    BY <1>3, EmptyIsSeq, NoBlockType, ProducerAssumption
       DEF Init, ProducerInit, ProducerTypeOK, ProducerSteps, IsChain
<1> QED
    BY <1>1, <1>2, <1>4 DEF TypeOK

\* Every step keeps the types.
LEMMA NextType ==
    ASSUME TypeOK, [NextWithRestarts]_vars
    PROVE  TypeOK'
<1> USE DEF TypeOK
<1>1. CASE \E log \in LOGS : AcceptLog(log)
    <2>1. PICK log \in LOGS : ReceiveLog(log) /\ UNCHANGED <<networkVars, validatorVars>>
        BY <1>1 DEF AcceptLog, ReceiveLog
    <2>2. ProducerTypeOK'
        BY <2>1, ReceiveLogType
    <2> QED
        BY <2>1, <2>2 DEF networkVars, validatorVars, NetworkTypeOK, ValidatorTypeOK
<1>2. CASE HandleLog
    BY <1>2, HandleLogType DEF HandleLog, validatorVars, ValidatorTypeOK
<1>3. ASSUME NEW v \in Validators, Serve(v) \/ Synchronise(v) \/ Environment(v)
      PROVE  TypeOK'
    <2>1. ProducerTypeOK'
        BY <1>3 DEF Serve, Synchronise, Environment, producerVars, ProducerTypeOK
    <2>2. NetworkTypeOK' /\ ValidatorTypeOK'
        <3>1. CASE StartValidator(v)
            BY <3>1, StartType DEF StartValidator, networkVars, NetworkTypeOK
        <3>2. CASE SelectConsistentBlocks(v)
            BY <3>2, SelectType DEF SelectConsistentBlocks, networkVars, NetworkTypeOK
        <3>3. CASE AppendSyncedBlock(v)
            BY <3>3, AppendSyncedType DEF AppendSyncedBlock, networkVars, NetworkTypeOK
        <3>4. CASE SaveSyncedChain(v)
            BY <3>4, SaveSyncedType DEF SaveSyncedChain, networkVars, NetworkTypeOK
        <3>5. CASE CollectSyncResponse(v)
            BY <3>5, CollectType
        <3>6. CASE RequestSync(v) \/ Listen(v) \/ Crash(v)
            BY <3>6, StartUpType
        <3>7. CASE \/ HandleProposeBlock(v) \/ HandleCommitBlock(v)
                   \/ HandleCommitSaveFails(v) \/ HandleSyncRequest(v) \/ RejectExpired(v)
            BY <3>7, ServeType
        <3> QED
            BY <1>3, <3>1, <3>2, <3>3, <3>4, <3>5, <3>6, <3>7
               DEF Serve, Synchronise, Environment
    <2> QED
        BY <2>1, <2>2
<1>4. ASSUME NEW r \in Callers, CallEnds(r)
      PROVE  TypeOK'
    BY <1>4, GiveUpType
       DEF CallEnds, validatorVars, producerVars, ValidatorTypeOK, ProducerTypeOK
<1>5. CASE RestartProducer /\ UNCHANGED validatorVars
    BY <1>5, RestartType DEF validatorVars, ValidatorTypeOK
<1>6. CASE UNCHANGED vars
    BY <1>6 DEF vars, networkVars, validatorVars, producerVars,
                NetworkTypeOK, ValidatorTypeOK, ProducerTypeOK
<1> QED
    BY <1>1, <1>2, <1>3, <1>4, <1>5, <1>6 DEF NextWithRestarts, Next

\* Every variable keeps its type, also when the producer restarts.
THEOREM TypeCorrectWithRestarts == SpecWithRestarts => []TypeOK
<1>1. TypeOK /\ [NextWithRestarts]_vars => TypeOK'
    BY NextType
<1> QED
    BY <1>1, InitType, PTL DEF SpecWithRestarts

\* Every variable keeps its type; a loop over VALIDATOR_IDS stays in bounds.
THEOREM TypeCorrect == Spec => []TypeOK
<1>1. TypeOK /\ [Next]_vars => TypeOK'
    BY NextType DEF NextWithRestarts
<1> QED
    BY <1>1, InitType, PTL DEF Spec

-----------------------------------------------------------------------------
(* Calls: an answer reaches the call it was made for.                      *)


\* A caller that is not blocked in a call has no request that is waited for.
LEMMA NotWaiting ==
    ASSUME OneCallAtATime, NEW r \in Callers, call[r] # Waiting, NEW v \in Validators
    PROVE  Pending(v, r) = {}
BY DEF OneCallAtATime, Pending

\* Opening a call adds the caller's only pending request.
LEMMA ConnectCalls ==
    ASSUME NetworkTypeOK, OneCallAtATime, NEW r \in Callers, NEW v \in Validators,
           NEW request, request.from = r, Connect(r, v, request)
    PROVE  OneCallAtATime'
<1>1. call[r] # Waiting /\ Waiting # Closed
    BY DEF Connect, Idle, Waiting, Closed
<1>2. \A w \in Validators : Pending(w, r) = {}
    BY <1>1, NotWaiting
<1>3. CASE Reachable(v)
    <2> DEFINE longer == Append(inbox[v], request)
    <2>1. /\ DOMAIN longer = 1..(Len(inbox[v]) + 1)
          /\ \A n \in 1..Len(inbox[v]) : longer[n] = inbox[v][n]
          /\ longer[Len(inbox[v]) + 1] = request
        BY AppendFacts DEF NetworkTypeOK
    <2>2. Len(inbox[v]) \in Nat /\ DOMAIN inbox[v] = 1..Len(inbox[v])
        BY SeqFacts DEF NetworkTypeOK
    <2>3. inbox' = [inbox EXCEPT ![v] = longer] /\ call' = [call EXCEPT ![r] = Waiting]
        BY <1>3 DEF Connect
    <2> HIDE DEF longer
    <2>4. \A w \in Validators : inbox'[w] = IF w = v THEN longer ELSE inbox[w]
        BY <2>3 DEF NetworkTypeOK
    <2>5. \A q \in Callers : call'[q] = IF q = r THEN Waiting ELSE call[q]
        BY <2>3 DEF NetworkTypeOK
    <2>6. \A q \in Callers \ {r} : \A w \in Validators : Pending(w, q)' = Pending(w, q)
        BY <2>1, <2>2, <2>4 DEF Pending
    <2>7. \A w \in Validators : \A n \in Pending(w, r)' : w = v /\ n = Len(inbox[v]) + 1
        BY <1>2, <2>1, <2>2, <2>4 DEF Pending
    <2> QED
        BY <2>5, <2>6, <2>7 DEF OneCallAtATime
<1>4. CASE ~Reachable(v)
    <2>1. inbox' = inbox /\ call' = [call EXCEPT ![r] = Closed]
        BY <1>4 DEF Connect
    <2>2. \A q \in Callers : \A w \in Validators : Pending(w, q)' = Pending(w, q)
        BY <2>1 DEF Pending
    <2>3. \A q \in Callers \ {r} : call'[q] = call[q]
        BY <2>1 DEF NetworkTypeOK
    <2> QED
        BY <1>2, <2>2, <2>3 DEF OneCallAtATime
<1> QED
    BY <1>3, <1>4

\* A call that is not waited in can be closed, reset or answered.
LEMMA SettledCalls ==
    ASSUME NetworkTypeOK, OneCallAtATime, NEW r \in Callers, call[r] # Waiting,
           NEW c, call' = [call EXCEPT ![r] = c], UNCHANGED inbox
    PROVE  OneCallAtATime'
<1>1. \A q \in Callers : \A w \in Validators : Pending(w, q)' = Pending(w, q)
    BY DEF Pending
<1>2. \A w \in Validators : Pending(w, r) = {}
    BY NotWaiting
<1>3. \A q \in Callers \ {r} : call'[q] = call[q]
    BY DEF NetworkTypeOK
<1> QED
    BY <1>1, <1>2, <1>3 DEF OneCallAtATime

\* After Abandon nobody waits for r's requests; the others are unaffected.
LEMMA AbandonCalls ==
    ASSUME NetworkTypeOK, NEW r, NEW v \in Validators, inbox'[v] = Abandon(inbox[v], r)
    PROVE  /\ Pending(v, r)' = {}
           /\ \A q \in Callers \ {r} : Pending(v, q)' = Pending(v, q)
<1>1. IsSeq(inbox[v]) /\ \A n \in DOMAIN inbox[v] : IsRequest(inbox[v][n])
    BY DEF NetworkTypeOK
<1>2. /\ DOMAIN inbox'[v] = DOMAIN inbox[v]
      /\ \A n \in DOMAIN inbox[v] :
            /\ inbox'[v][n].from = inbox[v][n].from
            /\ inbox'[v][n].live <=> inbox[v][n].live /\ inbox[v][n].from # r
    BY <1>1, AbandonFacts
<1> QED
    BY <1>2 DEF Pending

\* A call that ends leaves no request pending.
LEMMA GiveUpCalls ==
    ASSUME NetworkTypeOK, OneCallAtATime, NEW r \in Callers, GiveUp(r)
    PROVE  OneCallAtATime'
<1>1. \A v \in Validators : /\ Pending(v, r)' = {}
                            /\ \A q \in Callers \ {r} : Pending(v, q)' = Pending(v, q)
    BY AbandonCalls DEF GiveUp
<1>2. \A q \in Callers \ {r} : call'[q] = call[q]
    BY DEF GiveUp, NetworkTypeOK
<1> QED
    BY <1>1, <1>2 DEF OneCallAtATime

\* An answer ends the one call it was made for.
LEMMA ReplyCalls ==
    ASSUME NetworkTypeOK, OneCallAtATime, NEW v \in Validators, inbox[v] # <<>>,
           NEW response, Reply(v, response)
    PROVE  OneCallAtATime'
<1> DEFINE request == Head(inbox[v])
           shorter == Tail(inbox[v])
<1>1. /\ DOMAIN shorter = 1..(Len(inbox[v]) - 1)
      /\ \A n \in 1..(Len(inbox[v]) - 1) : shorter[n] = inbox[v][n + 1]
      /\ request = inbox[v][1]
      /\ 1 \in DOMAIN inbox[v]
    BY TailFacts DEF NetworkTypeOK
<1>2. Len(inbox[v]) \in Nat /\ DOMAIN inbox[v] = 1..Len(inbox[v])
    BY SeqFacts DEF NetworkTypeOK
<1>3. inbox' = [inbox EXCEPT ![v] = shorter]
    BY DEF Reply
<1>4. call' = IF request.live THEN [call EXCEPT ![request.from] = response] ELSE call
    BY DEF Reply
<1> HIDE DEF request, shorter
<1>5. \A w \in Validators \ {v} : \A q \in Callers : Pending(w, q)' = Pending(w, q)
    BY <1>3 DEF Pending, NetworkTypeOK
<1>6. \A q \in Callers : \A n \in Pending(v, q)' : n \in Nat \ {0} /\ n + 1 \in Pending(v, q)
    BY <1>1, <1>2, <1>3 DEF Pending, NetworkTypeOK
<1>7. ASSUME NEW q \in Callers, request.live, request.from = q, NEW w \in Validators
      PROVE  Pending(w, q)' = {}
    <2>1. 1 \in Pending(v, q)
        BY <1>1, <1>7 DEF Pending
    <2>2. \A u \in Validators : \A n \in Pending(u, q) : u = v /\ n = 1
        BY <2>1 DEF OneCallAtATime
    <2>3. CASE w = v
        BY <1>6, <2>2, <2>3
    <2>4. CASE w # v
        BY <1>5, <2>2, <2>4
    <2> QED
        BY <2>3, <2>4
<1>8. ASSUME NEW q \in Callers, ~(request.live /\ request.from = q)
      PROVE  call'[q] = call[q]
    BY <1>4, <1>8 DEF NetworkTypeOK
<1>9. ASSUME NEW q \in Callers, NEW u \in Validators, NEW n \in Pending(u, q)'
      PROVE  /\ call'[q] = Waiting
             /\ \A w \in Validators : \A m \in Pending(w, q)' : w = u /\ m = n
    <2>1. ~(request.live /\ request.from = q)
        BY <1>7, <1>9
    <2>2. n \in Pending(u, q) \/ (u = v /\ n + 1 \in Pending(u, q))
        BY <1>5, <1>6, <1>9
    <2>3. call'[q] = Waiting
        BY <1>8, <2>1, <2>2 DEF OneCallAtATime
    <2>4. ASSUME NEW w \in Validators, NEW m \in Pending(w, q)'
          PROVE  w = u /\ m = n
        <3>1. w = v => m \in Nat /\ m + 1 \in Pending(w, q)
            BY <1>6, <2>4
        <3>2. u = v => n \in Nat /\ n + 1 \in Pending(u, q)
            BY <1>6, <1>9
        <3>3. w # v => m \in Pending(w, q)
            BY <1>5, <2>4
        <3>4. u # v => n \in Pending(u, q)
            BY <1>5, <1>9
        <3>5. w = u
            BY <3>1, <3>2, <3>3, <3>4 DEF OneCallAtATime
        <3>6. CASE u = v
            <4>1. m + 1 = n + 1 /\ m \in Nat /\ n \in Nat
                BY <3>1, <3>2, <3>5, <3>6 DEF OneCallAtATime
            <4> QED
                BY <3>5, <4>1
        <3>7. CASE u # v
            BY <3>3, <3>4, <3>5, <3>7 DEF OneCallAtATime
        <3> QED
            BY <3>6, <3>7
    <2> QED
        BY <2>3, <2>4
<1> QED
    BY <1>9 DEF OneCallAtATime

\* A crash ends the dead process's call and empties its inbox.
LEMMA DropSocketsCalls ==
    ASSUME NetworkTypeOK, OneCallAtATime, NEW v \in Validators, DropSockets(v)
    PROVE  OneCallAtATime'
<1>1. inbox'[v] = <<>> /\ \A w \in Validators \ {v} : inbox'[w] = Abandon(inbox[w], v)
    BY DEF DropSockets
<1>2. \A q \in Callers : Pending(v, q)' = {}
    BY <1>1, EmptyIsSeq DEF Pending
<1>3. \A w \in Validators \ {v} : /\ Pending(w, v)' = {}
                                  /\ \A q \in Callers \ {v} : Pending(w, q)' = Pending(w, q)
    BY <1>1, AbandonCalls
<1>4. \A q \in Callers \ {v} : call'[q] = call[q]
    BY DEF DropSockets, NetworkTypeOK
<1>5. ASSUME NEW q \in Callers, NEW u \in Validators, NEW n \in Pending(u, q)'
      PROVE  u # v /\ q # v /\ n \in Pending(u, q)
    BY <1>2, <1>3, <1>5
<1> QED
    BY <1>4, <1>5 DEF OneCallAtATime

-----------------------------------------------------------------------------
(* Every step.                                                             *)

\* A step that leaves inboxes and calls alone keeps the invariant.
LEMMA UnchangedCalls ==
    ASSUME OneCallAtATime, UNCHANGED <<inbox, call>>
    PROVE  OneCallAtATime'
BY DEF OneCallAtATime, Pending

\* So does every step of the producer.
LEMMA HandleLogCalls ==
    ASSUME NetworkTypeOK, ProducerTypeOK, OneCallAtATime, HandleLog
    PROVE  OneCallAtATime'
<1>1. PRODUCER \in Callers
    BY DEF Callers
<1>2. CASE ProposeBlock
    <2>1. Request("PROPOSE_BLOCK").from = PRODUCER
        BY DEF Request
    <2> QED
        BY <1>1, <1>2, <2>1, TurnInBounds, ConnectCalls DEF ProposeBlock
<1>3. CASE CommitBlock
    <2>1. Request("COMMIT_BLOCK").from = PRODUCER
        BY DEF Request
    <2>2. CASE Connect(PRODUCER, VALIDATOR_IDS[turn], Request("COMMIT_BLOCK"))
        BY <1>1, <1>3, <2>1, <2>2, TurnInBounds, ConnectCalls DEF CommitBlock
    <2>3. CASE FailToSend(PRODUCER)
        <3>1. call[PRODUCER] # Waiting
            BY <2>3 DEF FailToSend, Idle, Waiting
        <3>2. call' = [call EXCEPT ![PRODUCER] = Closed] /\ UNCHANGED inbox
            BY <2>3 DEF FailToSend
        <3> QED
            BY <1>1, <3>1, <3>2, SettledCalls
    <2> QED
        BY <1>3, <2>2, <2>3 DEF CommitBlock
<1>4. CASE CollectAck \/ IgnoreCommitReply
    BY <1>1, <1>4, SettledCalls DEF CollectAck, IgnoreCommitReply, Answered
<1>5. CASE AbortCommit \/ AppendCandidate \/ FinishCommit
    BY <1>5, UnchangedCalls DEF AbortCommit, AppendCandidate, FinishCommit, networkVars
<1> QED
    BY <1>2, <1>3, <1>4, <1>5 DEF HandleLog

\* So does every step of a validator.
LEMMA ValidatorCalls ==
    ASSUME NetworkTypeOK, ValidatorTypeOK, OneCallAtATime, NEW v \in Validators,
           Serve(v) \/ Synchronise(v) \/ Environment(v)
    PROVE  OneCallAtATime'
<1>1. v \in Callers
    BY DEF Callers
<1>2. CASE \E response : inbox[v] # <<>> /\ Reply(v, response)
    BY <1>2, ReplyCalls
<1>3. CASE \/ HandleProposeBlock(v) \/ HandleCommitBlock(v) \/ HandleSyncRequest(v)
           \/ HandleCommitSaveFails(v) \/ RejectExpired(v)
    BY <1>2, <1>3 DEF HandleProposeBlock, HandleCommitBlock, HandleSyncRequest,
                      HandleCommitSaveFails, RejectExpired, Received
<1>4. CASE RequestSync(v)
    <2>1. sync[v].turn \in 1..Len(VALIDATOR_IDS)
        BY <1>4, NetworkAssumption, LenProperties
           DEF RequestSync, Asking, ValidatorTypeOK, IsSync
    <2>2. VALIDATOR_IDS[sync[v].turn] \in Validators
        BY <2>1, NetworkAssumption, ElementOfSeq DEF Validators
    <2> QED
        BY <1>1, <1>4, <2>2, ConnectCalls DEF RequestSync
<1>5. CASE CollectSyncResponse(v)
    BY <1>1, <1>5, SettledCalls DEF CollectSyncResponse, Answered
<1>6. CASE Crash(v)
    BY <1>6, DropSocketsCalls DEF Crash
<1>7. CASE \/ StartValidator(v) \/ SelectConsistentBlocks(v) \/ AppendSyncedBlock(v)
           \/ SaveSyncedChain(v) \/ Listen(v)
    BY <1>7, UnchangedCalls DEF StartValidator, SelectConsistentBlocks, AppendSyncedBlock,
                                SaveSyncedChain, Listen, networkVars
<1> QED
    BY <1>3, <1>4, <1>5, <1>6, <1>7 DEF Serve, Synchronise, Environment

\* A producer that dies is not waited for any more.
LEMMA RestartCalls ==
    ASSUME NetworkTypeOK, OneCallAtATime, RestartProducer
    PROVE  OneCallAtATime'
<1>1. \A v \in Validators :
         /\ Pending(v, PRODUCER)' = {}
         /\ \A q \in Callers \ {PRODUCER} : Pending(v, q)' = Pending(v, q)
    BY AbandonCalls DEF RestartProducer
<1>2. \A q \in Callers \ {PRODUCER} : call'[q] = call[q]
    BY DEF RestartProducer, NetworkTypeOK
<1> QED
    BY <1>1, <1>2 DEF OneCallAtATime

\* Every step, a restart of the producer included, keeps calls apart.
LEMMA NextCalls ==
    ASSUME TypeOK, OneCallAtATime, [NextWithRestarts]_vars
    PROVE  OneCallAtATime'
<1> USE DEF TypeOK
<1>1. CASE \E log \in LOGS : AcceptLog(log)
    BY <1>1, UnchangedCalls DEF AcceptLog, ReceiveLog, networkVars
<1>2. CASE HandleLog
    BY <1>2, HandleLogCalls
<1>3. CASE \E v \in Validators : Serve(v) \/ Synchronise(v) \/ Environment(v)
    BY <1>3, ValidatorCalls
<1>4. CASE \E r \in Callers : CallEnds(r)
    BY <1>4, GiveUpCalls DEF CallEnds
<1>5. CASE RestartProducer
    BY <1>5, RestartCalls
<1>6. CASE UNCHANGED vars
    BY <1>6, UnchangedCalls DEF vars, networkVars
<1> QED
    BY <1>1, <1>2, <1>3, <1>4, <1>5, <1>6 DEF NextWithRestarts, Next

\* No call is open when the processes start.
LEMMA InitCalls == Init => OneCallAtATime
BY EmptyIsSeq DEF Init, NetworkInit, OneCallAtATime, Pending

\* An answer never reaches another call than its own, also when the producer
\* restarts.
THEOREM OneCallAtATimeWithRestarts == SpecWithRestarts => []OneCallAtATime
<1>1. TypeOK /\ OneCallAtATime /\ [NextWithRestarts]_vars => OneCallAtATime'
    BY NextCalls
<1> QED
    BY <1>1, InitCalls, TypeCorrectWithRestarts, PTL DEF SpecWithRestarts

\* An answer never reaches another call than its own.
THEOREM OneCallAtATimeHolds == Spec => []OneCallAtATime
<1>1. TypeOK /\ OneCallAtATime /\ [Next]_vars => OneCallAtATime'
    BY NextCalls DEF NextWithRestarts
<1> QED
    BY <1>1, InitCalls, TypeCorrect, PTL DEF Spec

=============================================================================
