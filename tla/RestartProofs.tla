---------------------------- MODULE RestartProofs ----------------------------
(***************************************************************************)
(* RestartInv is an invariant of SpecWithRestarts, for every value of the  *)
(* constants, and the safety properties that follow from it.  The proof    *)
(* keeps track of one set S that holds every committed block: a step of a  *)
(* validator or of the network brings no new ones, and the one step of the *)
(* producer that does is looked at by itself.  The last section returns to *)
(* a producer that does not restart: the same account of where blocks are  *)
(* shows that a last block that nobody stored is lost for good.            *)
(***************************************************************************)
EXTENDS ReplicationSafetyProofs

-----------------------------------------------------------------------------
(* Chain files and start-ups that verify hold blocks of S; those of U do.  *)

\* No chain file loses or changes a block.
FilesGrow == \A v \in Validators : IsPrefix(chain_file[v], chain_file'[v])

\* The empty chain verifies.
LEMMA EmptyVerifies == VerifyChain(<<>>) /\ Range(<<>>) = {}
BY EmptyIsSeq DEF VerifyChain, Range

\* A block of S is appended to a chain of blocks of S.
LEMMA AppendRange ==
    ASSUME NEW S, NEW chain, IsSeq(chain), Range(chain) \subseteq S, NEW b \in S
    PROVE  Range(Append(chain, b)) \subseteq S
<1> DEFINE longer == Append(chain, b)
<1>1. Len(chain) \in Nat /\ DOMAIN chain = 1..Len(chain)
    BY SeqFacts
<1>2. /\ DOMAIN longer = 1..(Len(chain) + 1)
      /\ \A n \in 1..Len(chain) : longer[n] = chain[n]
      /\ longer[Len(chain) + 1] = b
    BY AppendFacts
<1> HIDE DEF longer
<1>3. \A n \in DOMAIN longer : longer[n] \in S
    BY <1>1, <1>2 DEF Range
<1>4. Range(longer) \subseteq S
    BY <1>3 DEF Range
<1> QED
    BY <1>4 DEF longer

\* A block of S that is appended, or not, leaves a chain of blocks of S, or
\* one that does not verify.
LEMMA AppendAmong ==
    ASSUME NEW S, NEW chain, IsSeq(chain), NEW b \in S,
           VerifyChain(chain) => Range(chain) \subseteq S,
           VerifyChain(ChainAfterAppend(chain, b))
    PROVE  Range(ChainAfterAppend(chain, b)) \subseteq S
<1>1. CASE ChainAfterAppend(chain, b) = chain
    BY <1>1
<1>2. CASE ChainAfterAppend(chain, b) = Append(chain, b)
    <2>1. IsSeq(Append(chain, b)) /\ IsPrefix(chain, Append(chain, b))
        BY AppendFacts, PrefixOrder
    <2>2. VerifyChain(chain)
        BY <1>2, <2>1, VerifiedPrefix
    <2> QED
        BY <1>2, <2>2, AppendRange
<1> QED
    BY <1>1, <1>2 DEF ChainAfterAppend

\* v's start-up changes; chain files do not, and nobody else starts to listen.
LEMMA SyncChangeAmong ==
    ASSUME ValidatorTypeOK, NEW S, NEW U, FilesAmong(S, U), SyncInv, NEW v \in Validators,
           NEW s, sync' = [sync EXCEPT ![v] = s], UNCHANGED chain_file,
           StartUpAmong(s, S), v \in U => VerifyChain(s.working_chain),
           s.stage # "none" => v \notin listening',
           s.stage = "apply" => IsPrefix(chain_file[v], s.working_chain),
           listening' \subseteq listening \cup {v}
    PROVE  FilesAmong(S, U)' /\ SyncInv' /\ FilesGrow
<1>1. \A w \in Validators : sync'[w] = IF w = v THEN s ELSE sync[w]
    BY DEF ValidatorTypeOK
<1>2. FilesAmong(S, U)'
    BY <1>1 DEF FilesAmong
<1>3. SyncInv'
    BY <1>1 DEF SyncInv
<1>4. FilesGrow
    BY PrefixOrder DEF FilesGrow, ValidatorTypeOK, IsChain
<1> QED
    BY <1>2, <1>3, <1>4

\* A start-up that holds no blocks.
LEMMA NoStartUpAmong ==
    ASSUME NEW S
    PROVE  /\ StartUpAmong(NoSync, S) /\ VerifyChain(NoSync.working_chain)
           /\ \A stage : LET s == [NoSync EXCEPT !.stage = stage]
                         IN  /\ StartUpAmong(s, S) /\ VerifyChain(s.working_chain)
                             /\ s.stage = stage
BY EmptyVerifies, EmptyIsSeq DEF NoSync, StartUpAmong

\* Steps of a start-up that send and receive nothing.
LEMMA LocalSyncAmong ==
    ASSUME ValidatorTypeOK, NEW S, NEW U, FilesAmong(S, U), SyncInv, NEW v \in Validators,
           \/ StartValidator(v)
           \/ SelectConsistentBlocks(v)
           \/ AppendSyncedBlock(v)
           \/ Listen(v)
    PROVE  FilesAmong(S, U)' /\ SyncInv' /\ FilesGrow /\ UNCHANGED <<inbox, call>>
<1>1. /\ IsSeq(chain_file[v]) /\ IsSeq(sync[v].working_chain)
      /\ VerifyChain(chain_file[v]) => Range(chain_file[v]) \subseteq S
      /\ StartUpAmong(sync[v], S)
      /\ v \in U => VerifyChain(chain_file[v]) /\ VerifyChain(sync[v].working_chain)
    BY DEF ValidatorTypeOK, IsSync, IsChain, FilesAmong
<1>2. UNCHANGED <<chain_file, inbox, call>>
    BY DEF StartValidator, SelectConsistentBlocks, AppendSyncedBlock, Listen, networkVars
<1> DEFINE bind == [NoSync EXCEPT !.stage = "bind"]
<1>3. StartUpAmong(bind, S) /\ VerifyChain(bind.working_chain) /\ bind.stage = "bind"
    BY NoStartUpAmong
<1> HIDE DEF bind
<1>4. CASE StartValidator(v)
    <2> DEFINE s == [NoSync EXCEPT !.stage = "collect", !.turn = NextTurn(v, 0),
                                   !.latest_index = GetLatestIndex(chain_file[v])]
    <2>1. sync' = [sync EXCEPT ![v] = s] /\ listening' = listening /\ v \notin listening
        BY <1>4 DEF StartValidator, networkVars, Down
    <2>2. StartUpAmong(s, S) /\ VerifyChain(s.working_chain) /\ s.stage = "collect"
        BY EmptyVerifies, EmptyIsSeq DEF NoSync, StartUpAmong
    <2> HIDE DEF s
    <2> QED
        BY <1>2, <2>1, <2>2, SyncChangeAmong
<1>5. CASE SelectConsistentBlocks(v)
    <2> DEFINE pb == sync[v].peer_blocks
               s == [NoSync EXCEPT !.stage = "apply", !.blocks = ChosenBlocks(pb),
                                   !.working_chain = chain_file[v]]
    <2>1. /\ sync' = [sync EXCEPT ![v] = s] \/ sync' = [sync EXCEPT ![v] = bind]
          /\ listening' = listening
          /\ sync[v].stage = "collect"
        BY <1>5 DEF SelectConsistentBlocks, networkVars, bind
    <2>2. v \notin listening
        BY <2>1 DEF SyncInv
    <2>3. ChosenBlocks(pb) \subseteq S
        BY <1>1, ChosenAreReturned DEF StartUpAmong
    <2>4. /\ StartUpAmong(s, S)
          /\ s.stage = "apply" /\ s.working_chain = chain_file[v]
        BY <1>1, <2>3, EmptyIsSeq DEF NoSync, StartUpAmong
    <2>5. IsPrefix(chain_file[v], chain_file[v])
        BY <1>1, PrefixOrder
    <2> HIDE DEF s
    <2> QED
        BY <1>1, <1>2, <1>3, <2>1, <2>2, <2>4, <2>5, SyncChangeAmong
<1>6. CASE AppendSyncedBlock(v)
    <2>1. PICK b \in sync[v].blocks :
             sync' = IF /\ ValidateCommitProof(b)
                        /\ AppendBlockIdempotent(sync[v].working_chain, b)
                               \in {"appended", "skipped"}
                     THEN [sync EXCEPT ![v].blocks = @ \ {b},
                                       ![v].working_chain = ChainAfterAppend(@, b)]
                     ELSE [sync EXCEPT ![v] = [NoSync EXCEPT !.stage = "bind"]]
        BY <1>6 DEF AppendSyncedBlock
    <2> DEFINE longer == ChainAfterAppend(sync[v].working_chain, b)
               s == [sync[v] EXCEPT !.blocks = sync[v].blocks \ {b}, !.working_chain = longer]
    <2>2. sync' = [sync EXCEPT ![v] = s] \/ sync' = [sync EXCEPT ![v] = bind]
        BY <2>1 DEF bind
    <2>3. sync[v].stage = "apply" /\ listening' = listening
        BY <1>6 DEF AppendSyncedBlock, networkVars
    <2>4. v \notin listening /\ IsPrefix(chain_file[v], sync[v].working_chain)
        BY <2>3 DEF SyncInv
    <2>5. b \in S /\ (VerifyChain(sync[v].working_chain) => Range(sync[v].working_chain) \subseteq S)
        BY <1>1, <2>1 DEF StartUpAmong
    <2>6. /\ IsPrefix(sync[v].working_chain, longer)
          /\ v \in U => VerifyChain(longer)
          /\ VerifyChain(longer) => Range(longer) \subseteq S
        BY <1>1, <2>5, ChainAfterAppendGrows, VerifiedAfterAppend, AppendAmong
    <2>7. IsSeq(longer)
        BY <2>1, ChainAfterAppendIsChain DEF ValidatorTypeOK, IsSync, IsChain
    <2>8. IsPrefix(chain_file[v], longer)
        BY <1>1, <2>4, <2>6, <2>7, PrefixTransitive
    <2> HIDE DEF longer
    <2>9. /\ StartUpAmong(s, S)
          /\ s.stage = "apply" /\ s.working_chain = longer
        BY <1>1, <2>3, <2>6 DEF StartUpAmong, ValidatorTypeOK, IsSync, NoSync
    <2> HIDE DEF s
    <2> QED
        BY <1>2, <1>3, <2>2, <2>3, <2>4, <2>6, <2>8, <2>9, SyncChangeAmong
<1>7. CASE Listen(v)
    <2>1. sync' = [sync EXCEPT ![v] = NoSync] /\ listening' = listening \cup {v}
        BY <1>7 DEF Listen
    <2>2. StartUpAmong(NoSync, S) /\ VerifyChain(NoSync.working_chain) /\ NoSync.stage = "none"
        BY NoStartUpAmong DEF NoSync
    <2> QED
        BY <1>2, <2>1, <2>2, SyncChangeAmong
<1> QED
    BY <1>4, <1>5, <1>6, <1>7

\* The answer of a peer brings blocks of S only.
LEMMA CollectAmong ==
    ASSUME ValidatorTypeOK, NEW S, NEW U, FilesAmong(S, U), SyncInv,
           NEW v \in Validators, AnswersAmong(call[v], S), CollectSyncResponse(v)
    PROVE  FilesAmong(S, U)' /\ SyncInv' /\ FilesGrow
<1> DEFINE usable == call[v].type = "SYNC_RESPONSE" /\ call[v].error = "none"
           answer == [peer |-> VALIDATOR_IDS[sync[v].turn], blocks |-> call[v].blocks]
           old == sync[v].peer_blocks
           answers == IF usable THEN Append(old, answer) ELSE old
           s == [sync[v] EXCEPT !.turn = NextTurn(v, sync[v].turn), !.peer_blocks = answers]
<1>1. /\ sync' = [sync EXCEPT ![v] = s]
      /\ sync[v].stage = "collect"
      /\ call' = [call EXCEPT ![v] = Idle]
      /\ UNCHANGED <<chain_file, listening, inbox>>
    BY DEF CollectSyncResponse, Asking
<1>2. /\ StartUpAmong(sync[v], S) /\ v \notin listening
      /\ v \in U => VerifyChain(sync[v].working_chain)
    BY <1>1 DEF FilesAmong, SyncInv
<1>3. usable => answer.blocks \subseteq S
    BY DEF AnswersAmong
<1>4. \A n \in DOMAIN answers : answers[n].blocks \subseteq S
    <2>1. IsSeq(old) /\ \A n \in DOMAIN old : old[n].blocks \subseteq S
        BY <1>2 DEF ValidatorTypeOK, IsSync, StartUpAmong
    <2>2. Len(old) \in Nat /\ DOMAIN old = 1..Len(old)
        BY <2>1, SeqFacts
    <2> HIDE DEF answer, old, usable
    <2> DEFINE more == Append(old, answer)
    <2>3. /\ DOMAIN more = 1..(Len(old) + 1)
          /\ \A n \in 1..Len(old) : more[n] = old[n]
          /\ more[Len(old) + 1] = answer
        BY <2>1, AppendFacts
    <2>4. answers = IF usable THEN more ELSE old
        OBVIOUS
    <2> HIDE DEF more, answers
    <2> QED
        BY <1>3, <2>1, <2>2, <2>3, <2>4
<1> HIDE DEF answers
<1>5. /\ StartUpAmong(s, S) /\ s.stage = "collect"
      /\ s.working_chain = sync[v].working_chain
    BY <1>1, <1>2, <1>4 DEF StartUpAmong, ValidatorTypeOK, IsSync, NoSync
<1> HIDE DEF s
<1> QED
    BY <1>1, <1>2, <1>5, SyncChangeAmong

\* v's file grows by blocks of S, if it verifies.
LEMMA FileChangeAmong ==
    ASSUME ValidatorTypeOK, NEW S, NEW U, FilesAmong(S, U), NEW v \in Validators,
           NEW c, chain_file' = [chain_file EXCEPT ![v] = c],
           IsPrefix(chain_file[v], c),
           VerifyChain(c) => Range(c) \subseteq S, v \in U => VerifyChain(c),
           \A w \in Validators : /\ StartUpAmong(sync'[w], S)
                                 /\ w \in U => VerifyChain(sync'[w].working_chain)
    PROVE  FilesAmong(S, U)' /\ FilesGrow
<1>1. \A w \in Validators : chain_file'[w] = IF w = v THEN c ELSE chain_file[w]
    BY DEF ValidatorTypeOK
<1>2. FilesAmong(S, U)'
    BY <1>1 DEF FilesAmong
<1>3. FilesGrow
    BY <1>1, PrefixOrder DEF FilesGrow, ValidatorTypeOK, IsChain
<1> QED
    BY <1>2, <1>3

\* A COMMIT_BLOCK brings a block of S into a chain file.
LEMMA HandleCommitAmong ==
    ASSUME NetworkTypeOK, ValidatorTypeOK, NEW S, NEW U, FilesAmong(S, U), InFlightAmong(S), SyncInv,
           NEW v \in Validators, HandleCommitBlock(v)
    PROVE  FilesAmong(S, U)' /\ InFlightAmong(S)' /\ SyncInv' /\ FilesGrow
<1> DEFINE block == Head(inbox[v]).block
           longer == ChainAfterAppend(chain_file[v], block)
<1>1. /\ inbox[v] # <<>> /\ Head(inbox[v]).type = "COMMIT_BLOCK"
      /\ v \in listening /\ UNCHANGED sync
    BY DEF HandleCommitBlock, Received
<1>2. PICK response \in {OkReply, ErrorReply} : Reply(v, response)
    BY DEF HandleCommitBlock
<1>3. InFlightAmong(S)' /\ listening' = listening
    <2>1. AnswersAmong(response, S)
        BY <1>2 DEF AnswersAmong, OkReply, ErrorReply
    <2>2. /\ \A w \in Validators : CommitsAmong(inbox'[w], S)
          /\ \A w \in Callers : AnswersAmong(call'[w], S)
        BY <1>1, <1>2, <2>1, ReplyKeeps
    <2> QED
        BY <1>2, <2>2 DEF InFlightAmong, CommitsAmong, AnswersAmong, Reply
<1>4. block \in S
    BY <1>1, TailFacts DEF InFlightAmong, CommitsAmong, NetworkTypeOK
<1>5. /\ IsSeq(chain_file[v])
      /\ VerifyChain(chain_file[v]) => Range(chain_file[v]) \subseteq S
      /\ v \in U => VerifyChain(chain_file[v])
    BY DEF ValidatorTypeOK, IsChain, FilesAmong
<1>6. chain_file' = [chain_file EXCEPT ![v] = longer] \/ chain_file' = chain_file
    BY DEF HandleCommitBlock
<1> HIDE DEF block
<1>7. /\ IsPrefix(chain_file[v], longer)
      /\ VerifyChain(longer) => Range(longer) \subseteq S
      /\ v \in U => VerifyChain(longer)
    BY <1>4, <1>5, ChainAfterAppendGrows, VerifiedAfterAppend, AppendAmong
<1> HIDE DEF longer
<1>8. FilesAmong(S, U)' /\ FilesGrow
    <2>1. CASE chain_file' = [chain_file EXCEPT ![v] = longer]
        <3>1. \A w \in Validators : /\ StartUpAmong(sync'[w], S)
                                    /\ w \in U => VerifyChain(sync'[w].working_chain)
            BY <1>1 DEF FilesAmong
        <3> QED
            BY <1>7, <2>1, <3>1, FileChangeAmong
    <2>2. CASE chain_file' = chain_file
        BY <1>1, <2>2, PrefixOrder DEF FilesAmong, FilesGrow, ValidatorTypeOK, IsChain
    <2> QED
        BY <1>6, <2>1, <2>2
<1>9. SyncInv'
    <2>1. \A w \in Validators \ {v} : chain_file'[w] = chain_file[w]
        BY <1>6 DEF ValidatorTypeOK
    <2>2. sync[v].stage = "none"
        BY <1>1 DEF SyncInv
    <2> QED
        BY <1>1, <1>3, <2>1, <2>2 DEF SyncInv
<1> QED
    BY <1>3, <1>8, <1>9

\* The working chain of a start-up becomes the file.
LEMMA SaveAmong ==
    ASSUME ValidatorTypeOK, NEW S, NEW U, FilesAmong(S, U), SyncInv,
           NEW v \in Validators, SaveSyncedChain(v)
    PROVE  FilesAmong(S, U)' /\ SyncInv' /\ FilesGrow /\ UNCHANGED <<inbox, call>>
<1> DEFINE bind == [NoSync EXCEPT !.stage = "bind"]
           saved == sync[v].working_chain
<1>1. /\ sync' = [sync EXCEPT ![v] = bind]
      /\ chain_file' = [chain_file EXCEPT ![v] = saved]
      /\ sync[v].stage = "apply"
      /\ UNCHANGED <<listening, inbox, call>>
    BY DEF SaveSyncedChain, networkVars
<1>2. IsPrefix(chain_file[v], saved) /\ v \notin listening
    BY <1>1 DEF SyncInv
<1>3. (VerifyChain(saved) => Range(saved) \subseteq S) /\ (v \in U => VerifyChain(saved))
    BY DEF FilesAmong, StartUpAmong
<1>4. StartUpAmong(bind, S) /\ VerifyChain(bind.working_chain) /\ bind.stage = "bind"
    BY NoStartUpAmong
<1> HIDE DEF bind, saved
<1>5. \A w \in Validators : sync'[w] = IF w = v THEN bind ELSE sync[w]
    BY <1>1 DEF ValidatorTypeOK
<1>6. FilesAmong(S, U)' /\ FilesGrow
    <2>1. \A w \in Validators : /\ StartUpAmong(sync'[w], S)
                                /\ w \in U => VerifyChain(sync'[w].working_chain)
        BY <1>4, <1>5 DEF FilesAmong
    <2> QED
        BY <1>1, <1>2, <1>3, <2>1, FileChangeAmong
<1>7. SyncInv'
    <2>1. \A w \in Validators \ {v} : chain_file'[w] = chain_file[w]
        BY <1>1 DEF ValidatorTypeOK
    <2> QED
        BY <1>1, <1>2, <1>4, <1>5, <2>1 DEF SyncInv
<1> QED
    BY <1>1, <1>6, <1>7

\* A handler that answers with blocks of S, and leaves files and start-ups alone.
LEMMA ReplyAmong ==
    ASSUME NetworkTypeOK, ValidatorTypeOK, NEW S, NEW U, FilesAmong(S, U), InFlightAmong(S), SyncInv,
           NEW v \in Validators, inbox[v] # <<>>,
           NEW response, AnswersAmong(response, S), Reply(v, response),
           UNCHANGED <<chain_file, sync>>
    PROVE  FilesAmong(S, U)' /\ InFlightAmong(S)' /\ SyncInv' /\ FilesGrow
<1>1. InFlightAmong(S)'
    <2>1. /\ \A w \in Validators : CommitsAmong(inbox'[w], S)
          /\ \A w \in Callers : AnswersAmong(call'[w], S)
        BY ReplyKeeps
    <2> QED
        BY <2>1 DEF InFlightAmong, CommitsAmong, AnswersAmong
<1>2. FilesAmong(S, U)' /\ SyncInv'
    BY DEF FilesAmong, SyncInv, Reply
<1>3. FilesGrow
    BY PrefixOrder DEF FilesGrow, ValidatorTypeOK, IsChain
<1> QED
    BY <1>1, <1>2, <1>3

\* A validator's step brings no block from outside S anywhere, breaks no
\* chain, and only lets chain files grow.
LEMMA ValidatorAmong ==
    ASSUME NetworkTypeOK, ValidatorTypeOK, NEW S, NEW U, FilesAmong(S, U), InFlightAmong(S), SyncInv,
           NEW v \in Validators, Serve(v) \/ Synchronise(v) \/ Environment(v)
    PROVE  FilesAmong(S, U)' /\ InFlightAmong(S)' /\ SyncInv' /\ FilesGrow
<1>1. CASE \/ StartValidator(v) \/ SelectConsistentBlocks(v) \/ AppendSyncedBlock(v)
           \/ Listen(v) \/ SaveSyncedChain(v)
    <2>1. FilesAmong(S, U)' /\ SyncInv' /\ FilesGrow /\ UNCHANGED <<inbox, call>>
        BY <1>1, LocalSyncAmong, SaveAmong
    <2> QED
        BY <2>1 DEF InFlightAmong, CommitsAmong, AnswersAmong
<1>2. CASE HandleCommitBlock(v)
    BY <1>2, HandleCommitAmong
<1>3. CASE CollectSyncResponse(v)
    <2>1. v \in Callers /\ UNCHANGED inbox /\ call' = [call EXCEPT ![v] = Idle]
        BY <1>3 DEF CollectSyncResponse, Callers
    <2>2. \A r \in Callers : call'[r] = IF r = v THEN Idle ELSE call[r]
        BY <2>1 DEF NetworkTypeOK
    <2>3. InFlightAmong(S)'
        BY <2>1, <2>2 DEF InFlightAmong, CommitsAmong, AnswersAmong, Idle
    <2>4. AnswersAmong(call[v], S)
        BY <2>1 DEF InFlightAmong
    <2> QED
        BY <1>3, <2>3, <2>4, CollectAmong
<1>4. CASE HandleProposeBlock(v)
    <2> DEFINE block == Head(inbox[v]).block
               response == AckMessage(v, block, IF ValidateNextBlock(chain_file[v], block)
                                                THEN "ACCEPT" ELSE "REJECT")
    <2>1. inbox[v] # <<>> /\ Reply(v, response) /\ UNCHANGED <<chain_file, sync>>
        BY <1>4 DEF HandleProposeBlock, Received, validatorVars
    <2>2. AnswersAmong(response, S)
        BY DEF AnswersAmong, AckMessage
    <2> HIDE DEF response
    <2> QED
        BY <2>1, <2>2, ReplyAmong
<1>5. CASE HandleSyncRequest(v)
    <2> DEFINE response == SyncResponse(v, Head(inbox[v]).latest_index)
    <2>1. inbox[v] # <<>> /\ Reply(v, response) /\ UNCHANGED <<chain_file, sync>>
        BY <1>5 DEF HandleSyncRequest, Received, validatorVars
    <2>2. AnswersAmong(response, S)
        BY DEF AnswersAmong, SyncResponse, Closed, GetBlocksAfterIndex, Range, FilesAmong
    <2> HIDE DEF response
    <2> QED
        BY <2>1, <2>2, ReplyAmong
<1>6. CASE HandleCommitSaveFails(v) \/ RejectExpired(v)
    <2>1. inbox[v] # <<>> /\ Reply(v, ErrorReply) /\ UNCHANGED <<chain_file, sync>>
        BY <1>6 DEF HandleCommitSaveFails, RejectExpired, Received, validatorVars
    <2>2. AnswersAmong(ErrorReply, S)
        BY DEF AnswersAmong, ErrorReply
    <2> QED
        BY <2>1, <2>2, ReplyAmong
<1>7. CASE RequestSync(v)
    <2> DEFINE peer == VALIDATOR_IDS[sync[v].turn]
               request == [type |-> "SYNC_REQUEST", from |-> v, live |-> TRUE,
                           latest_index |-> sync[v].latest_index]
    <2>1. Connect(v, peer, request) /\ UNCHANGED <<chain_file, sync>>
        BY <1>7 DEF RequestSync, validatorVars
    <2>2. peer \in Validators
        <3>1. sync[v].turn \in 1..Len(VALIDATOR_IDS)
            BY <1>7, NetworkAssumption, LenProperties
               DEF RequestSync, Asking, ValidatorTypeOK, IsSync
        <3> QED
            BY <3>1, NetworkAssumption, ElementOfSeq DEF Validators
    <2>3. v \in Callers /\ request.type # "COMMIT_BLOCK"
        BY DEF Callers
    <2> HIDE DEF request, peer
    <2>4. /\ \A w \in Validators : CommitsAmong(inbox'[w], S)
          /\ \A r \in Callers : AnswersAmong(call'[r], S)
        BY <2>1, <2>2, <2>3, ConnectKeeps
    <2>5. FilesAmong(S, U)' /\ SyncInv'
        BY <2>1 DEF FilesAmong, SyncInv, Connect
    <2> QED
        BY <2>1, <2>4, <2>5, PrefixOrder
           DEF FilesGrow, ValidatorTypeOK, IsChain, InFlightAmong, CommitsAmong, AnswersAmong
<1>8. CASE Crash(v)
    <2>1. /\ DropSockets(v)
          /\ sync' = [sync EXCEPT ![v] = NoSync]
          /\ UNCHANGED chain_file
        BY <1>8 DEF Crash
    <2>2. /\ \A w \in Validators : CommitsAmong(inbox'[w], S)
          /\ \A r \in Callers : AnswersAmong(call'[r], S)
        BY <2>1, DropSocketsKeeps
    <2>3. listening' \subseteq listening
        BY <2>1 DEF DropSockets
    <2>4. StartUpAmong(NoSync, S) /\ VerifyChain(NoSync.working_chain) /\ NoSync.stage = "none"
        BY NoStartUpAmong DEF NoSync
    <2>5. FilesAmong(S, U)' /\ SyncInv' /\ FilesGrow
        BY <2>1, <2>3, <2>4, SyncChangeAmong
    <2> QED
        BY <2>2, <2>5 DEF InFlightAmong, CommitsAmong, AnswersAmong
<1> QED
    BY <1>1, <1>2, <1>3, <1>4, <1>5, <1>6, <1>7, <1>8 DEF Serve, Synchronise, Environment

\* Nor does a step of the producer, a timeout, or a restart; the COMMIT_BLOCKs
\* carry a candidate that is in S.
LEMMA ProducerAmong ==
    ASSUME NetworkTypeOK, ValidatorTypeOK, ProducerTypeOK,
           NEW S, NEW U, FilesAmong(S, U), InFlightAmong(S), SyncInv,
           step = "commit" => candidate \in S,
           UNCHANGED validatorVars,
           \/ \E log \in LOGS : ReceiveLog(log)
           \/ HandleLog
           \/ \E r \in Callers : GiveUp(r)
           \/ RestartProducer
    PROVE  FilesAmong(S, U)' /\ InFlightAmong(S)' /\ SyncInv' /\ FilesGrow
<1>1. FilesAmong(S, U)' /\ FilesGrow
    BY PrefixOrder DEF FilesAmong, FilesGrow, ValidatorTypeOK, IsChain, validatorVars
<1>2. listening' = listening
    BY DEF ReceiveLog, HandleLog, ProposeBlock, CollectAck, AbortCommit, AppendCandidate,
           CommitBlock, IgnoreCommitReply, FinishCommit, GiveUp, RestartProducer,
           Connect, FailToSend, networkVars
<1>3. SyncInv'
    BY <1>2 DEF SyncInv, validatorVars
<1>4. PRODUCER \in Callers
    BY DEF Callers
<1>5. /\ \A w \in Validators : CommitsAmong(inbox'[w], S)
      /\ \A r \in Callers : AnswersAmong(call'[r], S)
    <2>1. CASE UNCHANGED networkVars
        BY <2>1 DEF networkVars, InFlightAmong
    <2>2. CASE ProposeBlock
        <3>1. VALIDATOR_IDS[turn] \in Validators
            BY <2>2, TurnInBounds DEF ProposeBlock
        <3>2. Connect(PRODUCER, VALIDATOR_IDS[turn], Request("PROPOSE_BLOCK"))
              /\ Request("PROPOSE_BLOCK").type # "COMMIT_BLOCK"
            BY <2>2 DEF ProposeBlock, Request
        <3> QED
            BY <1>4, <3>1, <3>2, ConnectKeeps
    <2>3. CASE CommitBlock /\ ~FailToSend(PRODUCER)
        <3>1. VALIDATOR_IDS[turn] \in Validators
            BY <2>3, TurnInBounds DEF CommitBlock
        <3>2. Connect(PRODUCER, VALIDATOR_IDS[turn], Request("COMMIT_BLOCK"))
              /\ Request("COMMIT_BLOCK").block \in S
            BY <2>3 DEF CommitBlock, Committing, Request
        <3> QED
            BY <1>4, <3>1, <3>2, ConnectKeeps
    <2>4. CASE FailToSend(PRODUCER)
        <3>1. \A w \in Callers : call'[w] = IF w = PRODUCER THEN Closed ELSE call[w]
            BY <2>4 DEF FailToSend, NetworkTypeOK
        <3> QED
            BY <2>4, <3>1 DEF FailToSend, InFlightAmong, AnswersAmong, Closed
    <2>5. CASE CollectAck \/ IgnoreCommitReply
        <3>1. UNCHANGED inbox /\ call' = [call EXCEPT ![PRODUCER] = Idle]
            BY <2>5 DEF CollectAck, IgnoreCommitReply
        <3>2. \A w \in Callers : call'[w] = IF w = PRODUCER THEN Idle ELSE call[w]
            BY <3>1 DEF NetworkTypeOK
        <3> QED
            BY <3>1, <3>2 DEF InFlightAmong, AnswersAmong, Idle
    <2>6. CASE \E r \in Callers : GiveUp(r)
        BY <2>6, GiveUpKeeps
    <2>7. CASE RestartProducer
        <3>1. \A w \in Validators : inbox'[w] = Abandon(inbox[w], PRODUCER)
            BY <2>7 DEF RestartProducer
        <3>2. \A w \in Validators : CommitsAmong(inbox'[w], S)
            BY <3>1, AbandonKeeps DEF InFlightAmong, NetworkTypeOK
        <3>3. \A w \in Callers : call'[w] = IF w = PRODUCER THEN Idle ELSE call[w]
            BY <2>7 DEF RestartProducer, NetworkTypeOK
        <3> QED
            BY <3>2, <3>3 DEF InFlightAmong, AnswersAmong, Idle
    <2> QED
        BY <2>1, <2>2, <2>3, <2>4, <2>5, <2>6, <2>7
           DEF ReceiveLog, HandleLog, AbortCommit, AppendCandidate, FinishCommit
<1> QED
    BY <1>1, <1>3, <1>5 DEF InFlightAmong, CommitsAmong, AnswersAmong

\* The same for every step.
LEMMA StepAmong ==
    ASSUME TypeOK, NEW S, NEW U, FilesAmong(S, U), InFlightAmong(S), SyncInv,
           step = "commit" => candidate \in S,
           [NextWithRestarts]_vars
    PROVE  FilesAmong(S, U)' /\ InFlightAmong(S)' /\ SyncInv' /\ FilesGrow
<1>1. CASE \E v \in Validators : Serve(v) \/ Synchronise(v) \/ Environment(v)
    BY <1>1, ValidatorAmong DEF TypeOK
<1>2. CASE \/ \E log \in LOGS : AcceptLog(log)
           \/ HandleLog
           \/ \E r \in Callers : CallEnds(r)
           \/ RestartProducer /\ UNCHANGED validatorVars
    <2>1. UNCHANGED validatorVars
        BY <1>2 DEF AcceptLog, HandleLog, CallEnds
    <2> QED
        BY <1>2, <2>1, ProducerAmong DEF AcceptLog, CallEnds, TypeOK
<1>3. CASE UNCHANGED vars
    BY <1>3, PrefixOrder
       DEF vars, networkVars, validatorVars, FilesAmong, FilesGrow, InFlightAmong, CommitsAmong,
           AnswersAmong, SyncInv, TypeOK, ValidatorTypeOK, IsChain
<1> QED
    BY <1>1, <1>2, <1>3 DEF NextWithRestarts, Next

-----------------------------------------------------------------------------
(* S and CommittedBlocks.                                                  *)

\* All committed blocks that are anywhere are committed blocks.
LEMMA CommittedParts ==
    ASSUME NetworkTypeOK, ValidatorTypeOK, \A chain \in Chains : VerifyChain(chain)
    PROVE  /\ FilesAmong(CommittedBlocks, Validators)
           /\ InFlightAmong(CommittedBlocks)
           /\ Range(producer_chain) \subseteq CommittedBlocks
           /\ VerifyChain(producer_chain)
<1>1. ASSUME NEW v \in Validators
      PROVE  /\ Range(chain_file[v]) \subseteq CommittedBlocks
             /\ Range(sync[v].working_chain) \subseteq CommittedBlocks
             /\ sync[v].blocks \subseteq CommittedBlocks
             /\ ReturnedBlocks(sync[v].peer_blocks) \subseteq CommittedBlocks
             /\ CommitsAmong(inbox[v], CommittedBlocks)
             /\ VerifyChain(chain_file[v]) /\ VerifyChain(sync[v].working_chain)
    <2>1. /\ Range(chain_file[v]) \subseteq CommittedBlocks
          /\ Range(sync[v].working_chain) \subseteq CommittedBlocks
          /\ sync[v].blocks \subseteq CommittedBlocks
          /\ ReturnedBlocks(sync[v].peer_blocks) \subseteq CommittedBlocks
        BY DEF CommittedBlocks
    <2>2. CommitsAmong(inbox[v], CommittedBlocks)
        <3>1. SUFFICES ASSUME NEW n \in DOMAIN inbox[v], inbox[v][n].type = "COMMIT_BLOCK"
                       PROVE  inbox[v][n].block \in CommittedBlocks
            BY DEF CommitsAmong
        <3>2. inbox[v][n] \in {q \in Range(inbox[v]) : q.type = "COMMIT_BLOCK"}
            BY <3>1 DEF Range
        <3>3. inbox[v][n].block
                 \in {request.block : request \in {q \in Range(inbox[v]) : q.type = "COMMIT_BLOCK"}}
            BY <3>2
        <3> QED
            BY <3>3 DEF CommittedBlocks
    <2>3. VerifyChain(chain_file[v]) /\ VerifyChain(sync[v].working_chain)
        BY DEF Chains
    <2> QED
        BY <2>1, <2>2, <2>3
<1>2. ASSUME NEW r \in Callers, call[r].type = "SYNC_RESPONSE"
      PROVE  call[r].blocks \subseteq CommittedBlocks
    <2>1. call[r] \in {a \in Range(call) : a.type = "SYNC_RESPONSE"}
        BY <1>2 DEF Range, NetworkTypeOK
    <2>2. call[r].blocks \in {answer.blocks : answer \in {a \in Range(call) : a.type = "SYNC_RESPONSE"}}
        BY <2>1
    <2> QED
        BY <2>2 DEF CommittedBlocks
<1>3. FilesAmong(CommittedBlocks, Validators)
    BY <1>1 DEF FilesAmong, StartUpAmong, ReturnedBlocks
<1>4. InFlightAmong(CommittedBlocks)
    BY <1>1, <1>2 DEF InFlightAmong, AnswersAmong
<1>5. Range(producer_chain) \subseteq CommittedBlocks /\ VerifyChain(producer_chain)
    BY DEF CommittedBlocks, Chains
<1> QED
    BY <1>3, <1>4, <1>5

\* And they are nowhere else, after a step.
LEMMA CommittedWithin ==
    ASSUME NetworkTypeOK', NEW S, FilesAmong(S, Validators)', InFlightAmong(S)',
           Range(producer_chain') \subseteq S
    PROVE  /\ CommittedBlocks' \subseteq S
           /\ VerifyChain(producer_chain') => \A chain \in Chains' : VerifyChain(chain)
<1>1. \A v \in Validators :
          /\ Range(chain_file'[v]) \subseteq S
          /\ Range(sync'[v].working_chain) \subseteq S
          /\ sync'[v].blocks \subseteq S
          /\ ReturnedBlocks(sync'[v].peer_blocks) \subseteq S
    BY DEF FilesAmong, StartUpAmong, ReturnedBlocks
<1>2. \A v \in Validators :
         {request.block : request \in {q \in Range(inbox'[v]) : q.type = "COMMIT_BLOCK"}} \subseteq S
    BY DEF InFlightAmong, CommitsAmong, Range
<1>3. \A answer \in {a \in Range(call') : a.type = "SYNC_RESPONSE"} : answer.blocks \subseteq S
    BY DEF InFlightAmong, AnswersAmong, Range, NetworkTypeOK
<1>4. CommittedBlocks' \subseteq S
    BY <1>1, <1>2, <1>3 DEF CommittedBlocks
<1>5. VerifyChain(producer_chain') => \A chain \in Chains' : VerifyChain(chain)
    BY DEF Chains, FilesAmong, StartUpAmong
<1> QED
    BY <1>4, <1>5

-----------------------------------------------------------------------------
(* What BlocksInv says of chains of committed blocks.                      *)

\* A hash names one committed block.
LEMMA UniqueHash ==
    ASSUME BlocksInv, NEW b \in CommittedBlocks, NEW c \in CommittedBlocks,
           b.current_hash = c.current_hash
    PROVE  b = c
<1>1. CalculateBlockHash(b) = CalculateBlockHash(c)
    BY DEF BlocksInv
<1>2. b.timestamp = c.timestamp
    BY <1>1 DEF CalculateBlockHash
<1> QED
    BY <1>2 DEF BlocksInv

\* The hash of its tip names one chain of committed blocks.
LEMMA SameTip ==
    ASSUME BlocksInv,
           NEW s, IsSeq(s), VerifyChain(s), Range(s) \subseteq CommittedBlocks,
           NEW t, IsSeq(t), VerifyChain(t), Range(t) \subseteq CommittedBlocks,
           GetLatestHash(s) = GetLatestHash(t)
    PROVE  s = t
<1>1. Len(s) = Len(t) /\ \A k \in 1..Len(s) : s[k].current_hash = t[k].current_hash
    BY SameTipSameHashes
<1>2. DOMAIN s = 1..Len(s) /\ DOMAIN t = 1..Len(t)
    BY SeqFacts
<1>3. \A k \in 1..Len(s) : s[k] \in CommittedBlocks /\ t[k] \in CommittedBlocks
    BY <1>1, <1>2 DEF Range
<1>4. \A k \in 1..Len(s) : s[k] = t[k]
    BY <1>1, <1>3, UniqueHash
<1> QED
    BY <1>1, <1>4, SeqFacts

\* No chain continues a tip that no block links to.
LEMMA NothingAfterTip ==
    ASSUME NEW S, NEW s, IsSeq(s), s # <<>>,
           \A b \in S : b.previous_hash # GetLatestHash(s),
           NEW t, IsSeq(t), VerifyChain(t), Range(t) \subseteq S, IsPrefix(s, t)
    PROVE  t = s
<1>1. /\ Len(s) \in Nat /\ Len(t) \in Nat /\ Len(s) # 0
      /\ DOMAIN t = 1..Len(t)
    BY SeqFacts
<1>2. Len(s) <= Len(t) /\ \A n \in 1..Len(s) : s[n] = t[n]
    BY PrefixFacts
<1>3. ASSUME Len(t) # Len(s)
      PROVE  FALSE
    <2>1. Len(s) + 1 \in 1..Len(t) /\ Len(s) + 1 # 1 /\ Len(s) + 1 - 1 = Len(s)
          /\ Len(s) \in 1..Len(s)
        BY <1>1, <1>2, <1>3
    <2>2. t[Len(s) + 1].previous_hash
             = IF Len(s) + 1 = 1 THEN GENESIS_PREVIOUS_HASH ELSE t[Len(s) + 1 - 1].current_hash
        BY <2>1, VerifyChainParts
    <2>3. t[Len(s) + 1].previous_hash = s[Len(s)].current_hash
        BY <1>2, <2>1, <2>2
    <2>4. t[Len(s) + 1] \in S
        BY <1>1, <2>1 DEF Range
    <2> QED
        BY <2>3, <2>4 DEF GetLatestHash
<1> QED
    BY <1>3, PrefixOfSameLength

\* A file that equals the producer's chain keeps doing so.
LEMMA UpToDateStays ==
    ASSUME TypeOK, TypeOK', NewCandidateInv, NEW v \in Validators, UpToDate(v),
           FilesGrow, UNCHANGED producer_chain,
           VerifyChain(chain_file'[v]), Range(chain_file'[v]) \subseteq CommittedBlocks
    PROVE  UpToDate(v)'
<1> SUFFICES ASSUME producer_chain # <<>>
             PROVE  chain_file'[v] = producer_chain
    BY DEF UpToDate
<1>1. IsSeq(producer_chain) /\ IsSeq(chain_file'[v])
    BY DEF TypeOK, ProducerTypeOK, ValidatorTypeOK, IsChain
<1>2. IsPrefix(producer_chain, chain_file'[v])
    BY DEF UpToDate, FilesGrow
<1>3. \A b \in CommittedBlocks : b.previous_hash # GetLatestHash(producer_chain)
    BY DEF NewCandidateInv
<1> QED
    BY <1>1, <1>2, <1>3, NothingAfterTip

\* A later clock.
LEMMA LongerInterval ==
    ASSUME NEW m \in Int, NEW n \in Int, m <= n
    PROVE  \A k \in 0..(m - 1) : k \in 0..(n - 1)
OBVIOUS

\* Fewer blocks and a later clock.
LEMMA BlocksInvStays ==
    ASSUME BlocksInv, CommittedBlocks' \subseteq CommittedBlocks,
           clock \in Int, clock' \in Int, clock <= clock'
    PROVE  BlocksInv'
<1>1. \A b \in CommittedBlocks' :
          /\ b.timestamp \in 0..(clock - 1)
          /\ b.current_hash = CalculateBlockHash(b)
          /\ ValidateCommitProof(b)
          /\ LinksBack(b)
    BY DEF BlocksInv
<1>2. \A n \in 0..(clock - 1) : n \in 0..(clock' - 1)
    BY LongerInterval
<1>3. \A b, c \in CommittedBlocks' :
          (\/ b.timestamp = c.timestamp
           \/ b.previous_hash = c.previous_hash /\ b.previous_hash # GENESIS_PREVIOUS_HASH)
             => b = c
    BY DEF BlocksInv
<1> QED
    BY <1>1, <1>2, <1>3 DEF BlocksInv

\* A first block keeps its holders.
LEMMA HoldersStay ==
    ASSUME ValidatorTypeOK, ValidatorTypeOK', FilesGrow, NEW hash,
           Cardinality(FirstBlockHolders(hash)) >= QUORUM
    PROVE  Cardinality(FirstBlockHolders(hash)') >= QUORUM
<1>1. ASSUME NEW v \in FirstBlockHolders(hash)
      PROVE  v \in FirstBlockHolders(hash)'
    <2>1. v \in Validators /\ chain_file[v] # <<>> /\ chain_file[v][1].current_hash = hash
        BY <1>1 DEF FirstBlockHolders
    <2>2. IsSeq(chain_file[v]) /\ IsSeq(chain_file'[v])
        BY <2>1 DEF ValidatorTypeOK, IsChain
    <2>3. /\ Len(chain_file[v]) \in Nat /\ Len(chain_file'[v]) \in Nat
          /\ Len(chain_file[v]) # 0
          /\ chain_file'[v] = <<>> <=> Len(chain_file'[v]) = 0
        BY <2>1, <2>2, SeqFacts
    <2>4. Len(chain_file[v]) <= Len(chain_file'[v])
          /\ \A n \in 1..Len(chain_file[v]) : chain_file[v][n] = chain_file'[v][n]
        BY <2>1, <2>2, PrefixFacts DEF FilesGrow
    <2>5. chain_file'[v] # <<>> /\ chain_file'[v][1] = chain_file[v][1]
        BY <2>3, <2>4
    <2> QED
        BY <2>1, <2>5 DEF FirstBlockHolders
<1>2. FirstBlockHolders(hash) \in SUBSET FirstBlockHolders(hash)'
      /\ FirstBlockHolders(hash)' \in SUBSET Validators
    BY <1>1 DEF FirstBlockHolders
<1> QED
    BY <1>2, MoreValidators

\* All parts of RestartInv but the producer's, for a step that commits nothing.
LEMMA NoCommitStep ==
    ASSUME TypeOK, TypeOK', RestartInv, [NextWithRestarts]_vars,
           producer_chain' = producer_chain \/ producer_chain' = <<>>, clock <= clock'
    PROVE  /\ CommittedBlocks' \subseteq CommittedBlocks
           /\ BlocksInv' /\ SyncInv' /\ FilesGrow
           /\ \A chain \in Chains' : VerifyChain(chain)
           /\ \A v \in Validators : /\ Range(chain_file'[v]) \subseteq CommittedBlocks
                                    /\ VerifyChain(chain_file'[v])
           /\ \A b \in CommittedBlocks' :
                 b.index = 1 => Cardinality(FirstBlockHolders(b.previous_hash)') >= QUORUM
<1> PICK S : S = CommittedBlocks
    OBVIOUS
<1>1. /\ FilesAmong(S, Validators) /\ InFlightAmong(S) /\ SyncInv
      /\ Range(producer_chain) \subseteq S /\ VerifyChain(producer_chain)
    BY CommittedParts DEF TypeOK, RestartInv
<1>2. step = "commit" => candidate \in S
    BY <1>1 DEF RestartInv, NewCandidateInv
<1>3. FilesAmong(S, Validators)' /\ InFlightAmong(S)' /\ SyncInv' /\ FilesGrow
    BY <1>1, <1>2, StepAmong
<1>4. Range(producer_chain') \subseteq S /\ VerifyChain(producer_chain')
    BY <1>1, EmptyVerifies
<1>5. CommittedBlocks' \subseteq S /\ \A chain \in Chains' : VerifyChain(chain)
    BY <1>3, <1>4, CommittedWithin DEF TypeOK
<1>6. BlocksInv'
    <2>1. clock \in Int /\ clock' \in Int
        BY DEF TypeOK, ProducerTypeOK
    <2> QED
        BY <1>5, <2>1, BlocksInvStays DEF RestartInv
<1>7. \A b \in CommittedBlocks' :
         b.index = 1 => Cardinality(FirstBlockHolders(b.previous_hash)') >= QUORUM
    <2> SUFFICES ASSUME NEW b \in CommittedBlocks', b.index = 1
                 PROVE  Cardinality(FirstBlockHolders(b.previous_hash)') >= QUORUM
        OBVIOUS
    <2>1. PICK hash : hash = b.previous_hash
        OBVIOUS
    <2>2. Cardinality(FirstBlockHolders(hash)) >= QUORUM
        BY <1>5, <2>1 DEF RestartInv
    <2> QED
        BY <1>3, <2>1, <2>2, HoldersStay DEF TypeOK
<1> QED
    BY <1>3, <1>5, <1>6, <1>7 DEF FilesAmong

-----------------------------------------------------------------------------
(* The candidate.                                                          *)

\* create_block_from_log makes a block that continues the producer's chain.
LEMMA ReceiveLogCandidate ==
    ASSUME TypeOK, RestartInv, NEW log, ReceiveLog(log),
           CommittedBlocks' \subseteq CommittedBlocks
    PROVE  NewCandidateInv'
<1> DEFINE prev == GetLatestHash(producer_chain)
<1>1. IsSeq(producer_chain) /\ clock \in Nat /\ clock' = clock + 1
    BY DEF TypeOK, ProducerTypeOK, IsChain, ReceiveLog
<1>2. Len(producer_chain) \in Nat /\ (producer_chain = <<>> <=> Len(producer_chain) = 0)
      /\ DOMAIN producer_chain = 1..Len(producer_chain)
    BY <1>1, SeqFacts
<1>3. VerifyChain(producer_chain) /\ Range(producer_chain) \subseteq CommittedBlocks
    BY CommittedParts DEF TypeOK, RestartInv
<1>4. GetLatestIndex(producer_chain) = Len(producer_chain) - 1
    BY <1>1, <1>3, VerifiedIsIndexed, LatestIndexOfIndexed
<1>5. candidate' = CreateBlock(Len(producer_chain), clock, log, prev)
      /\ producer_chain' = producer_chain /\ step' = "propose"
    BY DEF ReceiveLog
<1>6. /\ candidate'.index = Len(producer_chain)
      /\ candidate'.previous_hash = prev
      /\ candidate'.current_hash = CalculateBlockHash(candidate')
      /\ candidate'.timestamp = clock
    <2>1. candidate'.timestamp = clock
        BY <1>5 DEF CreateBlock
    <2> QED
        BY <1>2, <1>5, <2>1, CreateBlockFacts
<1>7. VerifyBlock(candidate', producer_chain)
    BY <1>2, <1>4, <1>6 DEF VerifyBlock
<1>8. LinksBack(candidate')
    <2>1. CASE producer_chain = <<>>
        BY <1>6, <2>1 DEF LinksBack, GetLatestHash
    <2>2. CASE producer_chain # <<>>
        <3> DEFINE tip == producer_chain[Len(producer_chain)]
        <3>1. tip \in CommittedBlocks
            BY <1>2, <1>3, <2>2 DEF Range
        <3>2. tip.timestamp \in 0..(clock - 1) /\ tip.current_hash = CalculateBlockHash(tip)
            BY <3>1 DEF RestartInv, BlocksInv
        <3>3. prev.timestamp = tip.timestamp
            BY <2>2, <3>2 DEF GetLatestHash, CalculateBlockHash
        <3>4. candidate'.previous_hash.timestamp = tip.timestamp
            BY <1>6, <3>3
        <3>5. tip.timestamp \in Int /\ tip.timestamp < clock
            BY <1>1, <3>2
        <3> QED
            BY <1>6, <3>4, <3>5 DEF LinksBack
    <2> QED
        BY <2>1, <2>2
<1>9. candidate'.timestamp \in 0..(clock' - 1)
    BY <1>1, <1>6
<1>10. \A b \in CommittedBlocks' : b.timestamp < candidate'.timestamp
    <2>1. \A b \in CommittedBlocks' : b.timestamp \in 0..(clock - 1)
        BY DEF RestartInv, BlocksInv
    <2> QED
        BY <1>1, <1>6, <2>1
<1>11. producer_chain' # <<>> =>
          \A b \in CommittedBlocks' : b.previous_hash # GetLatestHash(producer_chain')
    BY <1>5 DEF RestartInv, NewCandidateInv
<1> QED
    BY <1>5, <1>6, <1>7, <1>8, <1>9, <1>10, <1>11 DEF NewCandidateInv

\* Any other step that commits nothing.
LEMMA OtherCandidate ==
    ASSUME TypeOK, RestartInv, CommittedBlocks' \subseteq CommittedBlocks,
           \/ UNCHANGED <<producer_chain, step, candidate, clock>>
           \/ step' = "accept" /\ (producer_chain' = producer_chain \/ producer_chain' = <<>>)
    PROVE  NewCandidateInv'
<1>1. producer_chain' # <<>> =>
          \A b \in CommittedBlocks' : b.previous_hash # GetLatestHash(producer_chain')
    BY DEF RestartInv, NewCandidateInv
<1>2. CASE step' = "accept"
    BY <1>1, <1>2 DEF NewCandidateInv
<1>3. CASE UNCHANGED <<producer_chain, step, candidate, clock>>
    <2>1. step' = "propose" =>
              /\ candidate'.timestamp \in 0..(clock' - 1)
              /\ candidate'.current_hash = CalculateBlockHash(candidate')
              /\ LinksBack(candidate')
              /\ VerifyBlock(candidate', producer_chain')
              /\ \A b \in CommittedBlocks' : b.timestamp < candidate'.timestamp
        BY <1>3 DEF RestartInv, NewCandidateInv
    <2>2. step' = "commit" => candidate' \in Range(producer_chain')
        BY <1>3 DEF RestartInv, NewCandidateInv
    <2> QED
        BY <1>1, <2>1, <2>2 DEF NewCandidateInv
<1> QED
    BY <1>2, <1>3

-----------------------------------------------------------------------------
(* The ACKs.                                                               *)

\* An ACCEPT of the candidate comes from a validator that is up to date:
\* equal hashes mean equal links, and a link names one chain.
LEMMA AcceptIsUpToDate ==
    ASSUME TypeOK, RestartInv, step = "propose", NEW v \in Validators,
           NEW block, block.current_hash = candidate.current_hash,
           ValidateNextBlock(chain_file[v], block)
    PROVE  UpToDate(v)
<1> SUFFICES ASSUME producer_chain # <<>>
             PROVE  chain_file[v] = producer_chain
    BY DEF UpToDate
<1>1. /\ candidate.current_hash = CalculateBlockHash(candidate)
      /\ candidate.previous_hash = GetLatestHash(producer_chain)
    BY DEF RestartInv, NewCandidateInv, VerifyBlock
<1>2. /\ block.current_hash = CalculateBlockHash(block)
      /\ block.previous_hash = GetLatestHash(chain_file[v])
    BY DEF ValidateNextBlock, VerifyBlock
<1>3. block.previous_hash = candidate.previous_hash
    BY <1>1, <1>2 DEF CalculateBlockHash
<1>4. GetLatestHash(chain_file[v]) = GetLatestHash(producer_chain)
    BY <1>1, <1>2, <1>3
<1>5. /\ IsSeq(chain_file[v]) /\ VerifyChain(chain_file[v])
      /\ Range(chain_file[v]) \subseteq CommittedBlocks
      /\ IsSeq(producer_chain) /\ VerifyChain(producer_chain)
      /\ Range(producer_chain) \subseteq CommittedBlocks
    BY CommittedParts
       DEF TypeOK, ProducerTypeOK, ValidatorTypeOK, IsChain, RestartInv, FilesAmong
<1> QED
    BY <1>4, <1>5, SameTip DEF RestartInv

\* What a validator's step does to the producer's call: nothing, or an answer
\* to the waiting producer, which is a valid ACK only of a validator that
\* accepted a block like the candidate.
LEMMA ValidatorAnswers ==
    ASSUME NetworkTypeOK, OneCallAtATime, NEW v \in Validators,
           Serve(v) \/ Synchronise(v) \/ Environment(v)
    PROVE  \/ call'[PRODUCER] = call[PRODUCER]
           \/ /\ call[PRODUCER] # Idle
              /\ \A w \in Validators : ValidAck(call'[PRODUCER], w) =>
                    \E block : /\ block.index = candidate.index
                              /\ block.current_hash = candidate.current_hash
                              /\ ValidateNextBlock(chain_file[w], block)
<1>1. v \in Callers /\ PRODUCER \in Callers /\ v # PRODUCER
    BY NetworkAssumption DEF Callers, Validators
<1>2. CASE HandleProposeBlock(v)
    <2> DEFINE block == Head(inbox[v]).block
               accepted == ValidateNextBlock(chain_file[v], block)
               response == AckMessage(v, block, IF accepted THEN "ACCEPT" ELSE "REJECT")
    <2>1. inbox[v] # <<>> /\ Reply(v, response)
        BY <1>2 DEF HandleProposeBlock, Received
    <2>2. ASSUME NEW w \in Validators, ValidAck(response, w)
          PROVE  /\ w = v /\ accepted
                 /\ block.index = candidate.index
                 /\ block.current_hash = candidate.current_hash
        BY <2>2 DEF ValidAck, AckMessage
    <2> HIDE DEF response, block
    <2>3. \/ call'[PRODUCER] = call[PRODUCER]
          \/ call[PRODUCER] # Idle /\ call'[PRODUCER] = response
        BY <2>1, ReplyToProducer
    <2> QED
        BY <2>2, <2>3
<1>3. CASE HandleCommitBlock(v) \/ HandleSyncRequest(v)
           \/ HandleCommitSaveFails(v) \/ RejectExpired(v)
    <2>1. inbox[v] # <<>> /\ \E response \in {OkReply, ErrorReply,
                                SyncResponse(v, Head(inbox[v]).latest_index)} :
                                Reply(v, response)
        BY <1>3 DEF HandleCommitBlock, HandleSyncRequest, HandleCommitSaveFails, RejectExpired,
                    Received
    <2>2. PICK response \in {OkReply, ErrorReply, SyncResponse(v, Head(inbox[v]).latest_index)} :
             Reply(v, response)
        BY <2>1
    <2>3. \A w \in Validators : ~ValidAck(response, w)
        BY <2>2 DEF ValidAck, OkReply, ErrorReply, SyncResponse, Closed
    <2>4. \/ call'[PRODUCER] = call[PRODUCER]
          \/ call[PRODUCER] # Idle /\ call'[PRODUCER] = response
        BY <2>1, <2>2, ReplyToProducer
    <2> QED
        BY <2>3, <2>4
<1>4. CASE RequestSync(v) \/ CollectSyncResponse(v) \/ Crash(v)
    BY <1>1, <1>4 DEF RequestSync, CollectSyncResponse, Crash, Connect, DropSockets,
                      NetworkTypeOK
<1>5. CASE \/ StartValidator(v) \/ SelectConsistentBlocks(v) \/ AppendSyncedBlock(v)
           \/ Listen(v) \/ SaveSyncedChain(v)
    BY <1>5 DEF StartValidator, SelectConsistentBlocks, AppendSyncedBlock, Listen,
                SaveSyncedChain, networkVars
<1> QED
    BY <1>2, <1>3, <1>4, <1>5 DEF Serve, Synchronise, Environment

\* So it is an ACK of a validator that is up to date.
LEMMA AcceptedIsUpToDate ==
    ASSUME TypeOK, RestartInv, OneCallAtATime, NEW v \in Validators,
           Serve(v) \/ Synchronise(v) \/ Environment(v)
    PROVE  \/ call'[PRODUCER] = call[PRODUCER]
           \/ /\ call[PRODUCER] # Idle
              /\ \A w \in Validators :
                    step = "propose" /\ ValidAck(call'[PRODUCER], w) => UpToDate(w)
<1>1. ASSUME NEW w \in Validators, step = "propose",
             \E block : /\ block.index = candidate.index
                       /\ block.current_hash = candidate.current_hash
                       /\ ValidateNextBlock(chain_file[w], block)
      PROVE  UpToDate(w)
    BY <1>1, AcceptIsUpToDate
<1> QED
    BY <1>1, ValidatorAnswers DEF TypeOK

\* Whoever is up to date after a step can have accepted the candidate.
LEMMA NewAckInvAfter ==
    ASSUME NEW G, AcksFrom(G)',
           step' = "propose" => \A v \in G : v \in Validators /\ UpToDate(v)'
    PROVE  NewAckInv'
<1>1. PICK H : H = {v \in Validators : UpToDate(v)}'
    OBVIOUS
<1>2. AcksFrom(H)'
    BY <1>1 DEF AcksFrom
<1> QED
    BY <1>1, <1>2 DEF NewAckInv, AcksFrom

\* A step that leaves the producer's variables alone, and what was accepted.
LEMMA OtherAcks ==
    ASSUME TypeOK, TypeOK', RestartInv, UNCHANGED producerVars, FilesGrow,
           \A v \in Validators : /\ Range(chain_file'[v]) \subseteq CommittedBlocks
                                 /\ VerifyChain(chain_file'[v]),
           \/ call'[PRODUCER] = call[PRODUCER]
           \/ /\ call[PRODUCER] # Idle
              /\ \A w \in Validators :
                    step = "propose" /\ ValidAck(call'[PRODUCER], w) => UpToDate(w)
    PROVE  NewAckInv'
<1>1. PICK G : G = {v \in Validators : UpToDate(v)}
    OBVIOUS
<1>2. AcksFrom(G)
    BY <1>1 DEF RestartInv, NewAckInv
<1>3. AcksFrom(G)'
    BY <1>1, <1>2, AnswerFrom
<1>4. ASSUME NEW w \in G
      PROVE  w \in Validators /\ UpToDate(w)'
    BY <1>1, <1>4, UpToDateStays DEF RestartInv, producerVars
<1> QED
    BY <1>3, <1>4, NewAckInvAfter

\* The steps of the producer leave the files alone, and it only appends once
\* the ACKs are counted.
LEMMA ProducerAcks ==
    ASSUME TypeOK, RestartInv, UNCHANGED validatorVars,
           (\E log \in LOGS : ReceiveLog(log)) \/ HandleLog \/ RestartProducer
    PROVE  NewAckInv'
<1>1. PICK G : G = {v \in Validators : UpToDate(v)}
    OBVIOUS
<1>2. AcksFrom(G)
    BY <1>1 DEF RestartInv, NewAckInv
<1>3. AcksFrom(G)'
    BY <1>2, ProducerAcksFrom DEF TypeOK
<1>4. step' = "propose" => UNCHANGED <<producer_chain, chain_file>>
    BY DEF HandleLog, ReceiveLog, ProposeBlock, CollectAck, AbortCommit, AppendCandidate,
           CommitBlock, IgnoreCommitReply, FinishCommit, RestartProducer, AcceptNext,
           producerVars, validatorVars
<1>5. step' = "propose" => \A v \in G : v \in Validators /\ UpToDate(v)'
    BY <1>1, <1>4 DEF UpToDate
<1> QED
    BY <1>3, <1>5, NewAckInvAfter

\* A closed call is no ACK.
LEMMA CallEndsAnswers ==
    ASSUME TypeOK, NEW r \in Callers, CallEnds(r)
    PROVE  \/ call'[PRODUCER] = call[PRODUCER]
           \/ /\ call[PRODUCER] # Idle
              /\ \A w \in Validators : ~ValidAck(call'[PRODUCER], w)
<1>1. \/ call'[PRODUCER] = call[PRODUCER]
      \/ call[PRODUCER] # Idle /\ call'[PRODUCER] = Closed
    BY DEF CallEnds, GiveUp, TypeOK, NetworkTypeOK, Callers, Waiting, Idle
<1> QED
    BY <1>1 DEF ValidAck, Closed

\* Every step that commits nothing.
LEMMA NoCommitInv ==
    ASSUME TypeOK, TypeOK', RestartInv, OneCallAtATime, [NextWithRestarts]_vars,
           ~(HandleLog /\ AppendCandidate)
    PROVE  RestartInv' /\ FilesGrow
<1>1. CASE \/ \E log \in LOGS : ReceiveLog(log) /\ UNCHANGED validatorVars
           \/ HandleLog
           \/ RestartProducer /\ UNCHANGED validatorVars
    <2>1. UNCHANGED validatorVars
        BY <1>1 DEF HandleLog
    <2>2. \/ \E log \in LOGS : ReceiveLog(log)
          \/ HandleLog /\ ~AppendCandidate
          \/ RestartProducer
        BY <1>1
    <2>3. NewAckInv'
        BY <2>1, <2>2, ProducerAcks
    <2>4. /\ producer_chain' = producer_chain \/ producer_chain' = <<>>
          /\ \/ \E log \in LOGS : ReceiveLog(log)
             \/ UNCHANGED <<producer_chain, step, candidate, clock>>
             \/ step' = "accept" /\ clock' = clock
        BY <2>2 DEF HandleLog, ReceiveLog, RestartProducer, AcceptNext, ProposeBlock, CollectAck,
                    AbortCommit, CommitBlock, IgnoreCommitReply, FinishCommit, producerVars
    <2>5. clock <= clock'
        BY <2>4 DEF ReceiveLog, TypeOK, ProducerTypeOK
    <2>6. /\ CommittedBlocks' \subseteq CommittedBlocks
          /\ BlocksInv' /\ SyncInv' /\ FilesGrow
          /\ \A chain \in Chains' : VerifyChain(chain)
          /\ \A b \in CommittedBlocks' :
                b.index = 1 => Cardinality(FirstBlockHolders(b.previous_hash)') >= QUORUM
        BY <2>4, <2>5, NoCommitStep
    <2>7. NewCandidateInv'
        BY <2>4, <2>6, ReceiveLogCandidate, OtherCandidate
    <2> QED
        BY <2>3, <2>6, <2>7 DEF RestartInv
<1>2. CASE \/ \E v \in Validators : Serve(v) \/ Synchronise(v) \/ Environment(v)
           \/ \E r \in Callers : CallEnds(r)
           \/ UNCHANGED vars
    <2>1. UNCHANGED producerVars
        BY <1>2, OwnFileOnly DEF TypeOK, CallEnds, vars
    <2>2. UNCHANGED <<producer_chain, step, candidate, clock>> /\ clock <= clock'
        BY <2>1 DEF producerVars, TypeOK, ProducerTypeOK
    <2>3. /\ CommittedBlocks' \subseteq CommittedBlocks
          /\ BlocksInv' /\ SyncInv' /\ FilesGrow
          /\ \A chain \in Chains' : VerifyChain(chain)
          /\ \A v \in Validators : /\ Range(chain_file'[v]) \subseteq CommittedBlocks
                                   /\ VerifyChain(chain_file'[v])
          /\ \A b \in CommittedBlocks' :
                b.index = 1 => Cardinality(FirstBlockHolders(b.previous_hash)') >= QUORUM
        BY <2>2, NoCommitStep
    <2>4. NewCandidateInv'
        BY <2>2, <2>3, OtherCandidate
    <2>5. \/ call'[PRODUCER] = call[PRODUCER]
          \/ /\ call[PRODUCER] # Idle
             /\ \A w \in Validators :
                   step = "propose" /\ ValidAck(call'[PRODUCER], w) => UpToDate(w)
        BY <1>2, AcceptedIsUpToDate, CallEndsAnswers DEF vars, networkVars
    <2>6. NewAckInv'
        BY <2>1, <2>3, <2>5, OtherAcks
    <2> QED
        BY <2>3, <2>4, <2>6 DEF RestartInv
<1> QED
    BY <1>1, <1>2 DEF NextWithRestarts, Next, AcceptLog

-----------------------------------------------------------------------------
(* The one step that commits a block.                                      *)

\* What joins the producer's chain: the candidate with a valid proof, newer
\* than every committed block and the first to continue its predecessor.
LEMMA CommittedCandidate ==
    ASSUME TypeOK, RestartInv, AppendCandidate
    PROVE  /\ candidate'.timestamp = candidate.timestamp
           /\ candidate'.timestamp \in 0..(clock - 1)
           /\ candidate'.previous_hash = GetLatestHash(producer_chain)
           /\ candidate'.index = GetLatestIndex(producer_chain) + 1
           /\ candidate'.current_hash = CalculateBlockHash(candidate')
           /\ ValidateCommitProof(candidate')
           /\ LinksBack(candidate')
           /\ VerifyBlock(candidate', producer_chain)
           /\ \A b \in CommittedBlocks : b.timestamp < candidate'.timestamp
<1>1. /\ step = "propose" /\ candidate' = AddCommitProof(candidate, acks)
      /\ IsBlock(candidate) /\ IsSeq(acks) /\ Len(acks) >= QUORUM
    BY DEF AppendCandidate, TypeOK, ProducerTypeOK
<1>2. /\ candidate.timestamp \in 0..(clock - 1)
      /\ candidate.current_hash = CalculateBlockHash(candidate)
      /\ LinksBack(candidate)
      /\ VerifyBlock(candidate, producer_chain)
      /\ \A b \in CommittedBlocks : b.timestamp < candidate.timestamp
    BY <1>1 DEF RestartInv, NewCandidateInv
<1>3. /\ candidate'.index = candidate.index
      /\ candidate'.timestamp = candidate.timestamp
      /\ candidate'.log_data = candidate.log_data
      /\ candidate'.previous_hash = candidate.previous_hash
      /\ candidate'.current_hash = candidate.current_hash
      /\ candidate'.commit_proof = [quorum |-> QUORUM, acks |-> acks]
    BY <1>1 DEF AddCommitProof, IsBlock, BlockFields
<1>4. candidate'.current_hash = CalculateBlockHash(candidate')
    BY <1>2, <1>3 DEF CalculateBlockHash
<1>5. ValidateCommitProof(candidate')
    <2>1. /\ \A n \in DOMAIN acks : /\ acks[n].block_index = candidate.index
                                    /\ acks[n].block_hash = candidate.current_hash
          /\ \A m, n \in DOMAIN acks : acks[m].validator_id = acks[n].validator_id => m = n
        BY <1>1 DEF RestartInv, NewAckInv, AcksFrom
    <2>2. QUORUM >= QUORUM
        BY QuorumAssumption
    <2> QED
        BY <1>1, <1>3, <2>1, <2>2 DEF ValidateCommitProof
<1>6. LinksBack(candidate')
    BY <1>2, <1>3 DEF LinksBack
<1>7. VerifyBlock(candidate', producer_chain)
    BY <1>2, <1>3, <1>4 DEF VerifyBlock
<1>8. \A b \in CommittedBlocks : b.timestamp < candidate'.timestamp
    BY <1>2, <1>3
<1> QED
    BY <1>2, <1>3, <1>4, <1>5, <1>6, <1>7, <1>8 DEF VerifyBlock

\* The predecessor of a second block is stored by a quorum.
LEMMA FirstBlockQuorum ==
    ASSUME TypeOK, RestartInv, AppendCandidate, candidate'.index = 1
    PROVE  Cardinality(FirstBlockHolders(candidate'.previous_hash)) >= QUORUM
<1> PICK hash : hash = candidate'.previous_hash
    OBVIOUS
<1>1. hash = GetLatestHash(producer_chain) /\ GetLatestIndex(producer_chain) = 0
    <2>1. GetLatestIndex(producer_chain) \in Int
        BY LatestIndexType DEF TypeOK, ProducerTypeOK
    <2>2. /\ candidate'.previous_hash = GetLatestHash(producer_chain)
          /\ candidate'.index = GetLatestIndex(producer_chain) + 1
        BY CommittedCandidate
    <2> QED
        BY <2>1, <2>2
<1>2. IsSeq(producer_chain) /\ VerifyChain(producer_chain)
    BY CommittedParts DEF TypeOK, ProducerTypeOK, IsChain, RestartInv
<1>3. GetLatestIndex(producer_chain) = Len(producer_chain) - 1 /\ Len(producer_chain) \in Nat
    BY <1>2, VerifiedIsIndexed, LatestIndexOfIndexed, SeqFacts
<1>4. Len(producer_chain) = 1
    <2>1. Len(producer_chain) - 1 = 0
        BY <1>1, <1>3
    <2> QED
        BY <1>3, <2>1
<1>5. producer_chain # <<>> /\ hash = producer_chain[1].current_hash
    <2>1. producer_chain # <<>>
        BY <1>4, EmptyIsSeq
    <2> QED
        BY <1>1, <1>4, <2>1 DEF GetLatestHash
<1>6. ASSUME NEW n \in DOMAIN acks
      PROVE  acks[n].validator_id \in FirstBlockHolders(hash)
    <2>1. acks[n].validator_id \in {v \in Validators : UpToDate(v)}
        BY <1>6 DEF AppendCandidate, RestartInv, NewAckInv, AcksFrom
    <2> QED
        BY <1>5, <2>1 DEF FirstBlockHolders, UpToDate
<1>7. /\ IsSeq(acks) /\ Len(acks) >= QUORUM
      /\ \A m, n \in DOMAIN acks : acks[m].validator_id = acks[n].validator_id => m = n
    BY DEF AppendCandidate, TypeOK, ProducerTypeOK, RestartInv, NewAckInv, AcksFrom
<1>8. FirstBlockHolders(hash) \in SUBSET Validators
    BY DEF FirstBlockHolders
<1>9. Cardinality(FirstBlockHolders(hash)) >= QUORUM
    BY <1>6, <1>7, <1>8, DistinctAckers
<1> QED
    BY <1>9

\* The candidate joins the producer's chain and the committed blocks.
LEMMA CommitInv ==
    ASSUME TypeOK, TypeOK', RestartInv, AppendCandidate, UNCHANGED validatorVars
    PROVE  RestartInv' /\ FilesGrow
<1> DEFINE tip == candidate'
<1>1. /\ producer_chain' = Append(producer_chain, tip)
      /\ step' = "commit" /\ UNCHANGED <<clock, listening, inbox, call, chain_file, sync>>
    BY DEF AppendCandidate, networkVars, validatorVars
<1>2. /\ FilesAmong(CommittedBlocks, Validators) /\ InFlightAmong(CommittedBlocks) /\ SyncInv
      /\ Range(producer_chain) \subseteq CommittedBlocks /\ VerifyChain(producer_chain)
    BY CommittedParts DEF TypeOK, RestartInv
<1>3. /\ tip.timestamp \in 0..(clock - 1)
      /\ tip.previous_hash = GetLatestHash(producer_chain)
      /\ tip.current_hash = CalculateBlockHash(tip)
      /\ ValidateCommitProof(tip)
      /\ LinksBack(tip)
      /\ VerifyBlock(tip, producer_chain)
      /\ \A b \in CommittedBlocks : b.timestamp < tip.timestamp
    BY CommittedCandidate
<1>4. IsSeq(producer_chain)
    BY DEF TypeOK, ProducerTypeOK, IsChain
<1>5. /\ Len(producer_chain') = Len(producer_chain) + 1
      /\ Len(producer_chain) \in Nat
      /\ producer_chain'[Len(producer_chain) + 1] = tip
      /\ DOMAIN producer_chain' = 1..(Len(producer_chain) + 1)
    BY <1>1, <1>4, AppendFacts, SeqFacts
<1> HIDE DEF tip
<1>6. VerifyChain(producer_chain')
    BY <1>1, <1>2, <1>3, <1>4, VerifiedAppend DEF ValidateNextBlock
<1>7. /\ \A b \in CommittedBlocks' : b \in CommittedBlocks \/ b = tip
      /\ \A chain \in Chains' : VerifyChain(chain)
    <2> PICK S : S = CommittedBlocks \cup {tip}
        OBVIOUS
    <2>1. FilesAmong(S, Validators)' /\ InFlightAmong(S)'
        BY <1>1, <1>2 DEF FilesAmong, StartUpAmong, InFlightAmong, CommitsAmong, AnswersAmong
    <2>2. Range(producer_chain') \subseteq S
        <3>1. Range(producer_chain) \subseteq S /\ tip \in S
            BY <1>2
        <3> QED
            BY <1>1, <1>4, <3>1, AppendRange
    <2> QED
        BY <1>6, <2>1, <2>2, CommittedWithin DEF TypeOK
<1>8. BlocksInv'
    <2>1. ASSUME NEW b \in CommittedBlocks'
          PROVE  /\ b.timestamp \in 0..(clock' - 1)
                 /\ b.current_hash = CalculateBlockHash(b)
                 /\ ValidateCommitProof(b)
                 /\ LinksBack(b)
        BY <1>1, <1>3, <1>7 DEF RestartInv, BlocksInv
    <2>2. ASSUME NEW b \in CommittedBlocks,
                 \/ b.timestamp = tip.timestamp
                 \/ b.previous_hash = tip.previous_hash /\ b.previous_hash # GENESIS_PREVIOUS_HASH
          PROVE  FALSE
        <3>1. b.timestamp \in Int /\ b.timestamp < tip.timestamp /\ tip.timestamp \in Int
            BY <1>3, <2>2 DEF RestartInv, BlocksInv
        <3>2. b.previous_hash = tip.previous_hash /\ b.previous_hash # GENESIS_PREVIOUS_HASH
            BY <2>2, <3>1
        <3>3. producer_chain # <<>>
            BY <1>3, <3>2 DEF GetLatestHash
        <3> QED
            BY <1>3, <2>2, <3>2, <3>3 DEF RestartInv, NewCandidateInv
    <2>3. \A b, c \in CommittedBlocks :
              (\/ b.timestamp = c.timestamp
               \/ b.previous_hash = c.previous_hash /\ b.previous_hash # GENESIS_PREVIOUS_HASH)
                 => b = c
        BY DEF RestartInv, BlocksInv
    <2>4. \A b, c \in CommittedBlocks' :
              (\/ b.timestamp = c.timestamp
               \/ b.previous_hash = c.previous_hash /\ b.previous_hash # GENESIS_PREVIOUS_HASH)
                 => b = c
        BY <1>7, <2>2, <2>3
    <2> QED
        BY <2>1, <2>4 DEF BlocksInv
<1>9. NewCandidateInv'
    <2>1. tip \in Range(producer_chain')
        BY <1>5 DEF Range
    <2>2. GetLatestHash(producer_chain') = tip.current_hash
        <3>1. producer_chain' # <<>>
            BY <1>5, EmptyIsSeq
        <3> QED
            BY <1>5, <3>1 DEF GetLatestHash
    <2>3. ASSUME NEW b \in CommittedBlocks'
          PROVE  b.previous_hash # tip.current_hash
        <3>1. /\ LinksBack(b)
              /\ tip.timestamp \in Int
              /\ b.timestamp \in Int /\ b.timestamp <= tip.timestamp
            BY <1>3, <1>7 DEF RestartInv, BlocksInv
        <3>2. tip.current_hash.timestamp = tip.timestamp
            BY <1>3 DEF CalculateBlockHash
        <3>3. tip.current_hash # GENESIS_PREVIOUS_HASH
            BY <1>3, NoHashIsGenesis
        <3>4. CASE b.previous_hash = GENESIS_PREVIOUS_HASH
            BY <3>3, <3>4
        <3>5. CASE b.previous_hash.timestamp \in Int /\ b.previous_hash.timestamp < b.timestamp
            <4>1. b.previous_hash.timestamp # tip.current_hash.timestamp
                BY <3>1, <3>2, <3>5
            <4> QED
                BY <4>1
        <3> QED
            BY <3>1, <3>4, <3>5 DEF LinksBack
    <2> QED
        BY <1>1, <2>1, <2>2, <2>3 DEF NewCandidateInv, tip
<1>10. NewAckInv'
    <2>1. HandleLog
        BY DEF HandleLog
    <2> QED
        BY <2>1, ProducerAcks
<1>11. SyncInv' /\ FilesGrow
    BY <1>1, <1>2, PrefixOrder DEF SyncInv, FilesGrow, TypeOK, ValidatorTypeOK, IsChain
<1>12. ASSUME NEW b \in CommittedBlocks', b.index = 1
       PROVE  Cardinality(FirstBlockHolders(b.previous_hash)') >= QUORUM
    <2> PICK hash : hash = b.previous_hash
        OBVIOUS
    <2>1. FirstBlockHolders(hash)' = FirstBlockHolders(hash)
        BY <1>1 DEF FirstBlockHolders
    <2>2. Cardinality(FirstBlockHolders(hash)) >= QUORUM
        BY <1>7, <1>12, FirstBlockQuorum DEF RestartInv, tip
    <2> QED
        BY <2>1, <2>2
<1> QED
    BY <1>7, <1>8, <1>9, <1>10, <1>11, <1>12 DEF RestartInv

-----------------------------------------------------------------------------
(* The invariant and the properties of all validators.                     *)

\* The inductive invariant holds initially: there are no blocks.
LEMMA InitRestartInv == Init => RestartInv
<1> SUFFICES ASSUME Init PROVE RestartInv
    OBVIOUS
<1>1. /\ producer_chain = <<>> /\ step = "accept" /\ call = [r \in Callers |-> Idle]
      /\ \A v \in Validators : chain_file[v] = <<>> /\ sync[v] = NoSync /\ inbox[v] = <<>>
    BY DEF Init, NetworkInit, ValidatorInit, ProducerInit
<1>2. CommittedBlocks = {}
    <2>1. ASSUME NEW v \in Validators
          PROVE  /\ Range(chain_file[v]) = {}
                 /\ Range(sync[v].working_chain) = {}
                 /\ sync[v].blocks = {}
                 /\ ReturnedBlocks(sync[v].peer_blocks) = {}
                 /\ Range(inbox[v]) = {}
        BY <1>1, EmptyVerifies, EmptyIsSeq DEF NoSync, ReturnedBlocks
    <2>2. {a \in Range(call) : a.type = "SYNC_RESPONSE"} = {}
        BY <1>1 DEF Range, Idle
    <2>3. /\ {{request.block : request \in {q \in Range(inbox[v]) : q.type = "COMMIT_BLOCK"}} :
                 v \in Validators} \subseteq {{}}
          /\ {answer.blocks : answer \in {a \in Range(call) : a.type = "SYNC_RESPONSE"}} = {}
        BY <2>1, <2>2
    <2>4. /\ Range(producer_chain) = {}
          /\ {Range(chain_file[v]) : v \in Validators} \subseteq {{}}
          /\ {Range(sync[v].working_chain) : v \in Validators} \subseteq {{}}
          /\ {sync[v].blocks : v \in Validators} \subseteq {{}}
          /\ {ReturnedBlocks(sync[v].peer_blocks) : v \in Validators} \subseteq {{}}
        BY <1>1, <2>1, EmptyVerifies
    <2> QED
        BY <2>3, <2>4 DEF CommittedBlocks
<1>3. BlocksInv /\ NewCandidateInv
    BY <1>1, <1>2 DEF BlocksInv, NewCandidateInv
<1>4. NewAckInv
    BY <1>1 DEF NewAckInv, AcksFrom, Callers
<1>5. SyncInv
    BY <1>1 DEF SyncInv, NoSync
<1>6. \A chain \in Chains : VerifyChain(chain)
    BY <1>1, EmptyVerifies DEF Chains, NoSync
<1> QED
    BY <1>2, <1>3, <1>4, <1>5, <1>6 DEF RestartInv

\* It is inductive, and no step changes or drops a stored block.
LEMMA NextRestartInv ==
    ASSUME TypeOK, TypeOK', RestartInv, OneCallAtATime, [NextWithRestarts]_vars
    PROVE  RestartInv' /\ FilesGrow
<1>1. CASE HandleLog /\ AppendCandidate
    BY <1>1, CommitInv DEF HandleLog
<1>2. CASE ~(HandleLog /\ AppendCandidate)
    BY <1>2, NoCommitInv
<1> QED
    BY <1>1, <1>2

\* The inductive invariant holds, for every value of the constants, however
\* often the producer restarts.
THEOREM RestartInvHolds == SpecWithRestarts => []RestartInv
<1>1. TypeOK /\ TypeOK' /\ OneCallAtATime /\ RestartInv /\ [NextWithRestarts]_vars => RestartInv'
    BY NextRestartInv
<1> QED
    BY <1>1, InitRestartInv, TypeCorrectWithRestarts, OneCallAtATimeWithRestarts, PTL
       DEF SpecWithRestarts

\* No step, and no restart of the producer, changes or drops a stored block.
THEOREM StoredBlocksStayWithRestarts == SpecWithRestarts => StoredBlocksStay
<1>1. TypeOK /\ TypeOK' /\ OneCallAtATime /\ RestartInv /\ [NextWithRestarts]_vars
         => [\A v \in Validators : IsPrefix(chain_file[v], chain_file'[v])]_vars
    BY NextRestartInv DEF FilesGrow
<1> QED
    BY <1>1, TypeCorrectWithRestarts, OneCallAtATimeWithRestarts, RestartInvHolds, PTL
       DEF SpecWithRestarts, StoredBlocksStay

\* What every chain file is, under RestartInv.
LEMMA FileFacts ==
    ASSUME TypeOK, RestartInv, NEW v \in Validators
    PROVE  /\ IsSeq(chain_file[v])
           /\ VerifyChain(chain_file[v])
           /\ Range(chain_file[v]) \subseteq CommittedBlocks
BY CommittedParts DEF TypeOK, ValidatorTypeOK, IsChain, RestartInv, FilesAmong

\* An untampered chain passes every check its validator makes before it
\* serves a SYNC_REQUEST.
THEOREM StoredChainsVerifyHolds == SpecWithRestarts => []StoredChainsVerify
<1>1. ASSUME TypeOK, RestartInv
      PROVE  StoredChainsVerify
    <2> SUFFICES ASSUME NEW v \in Validators, NEW n \in DOMAIN chain_file[v]
                 PROVE  VerifyChain(chain_file[v]) /\ ValidateCommitProof(chain_file[v][n])
        BY <1>1, FileFacts DEF StoredChainsVerify
    <2>1. chain_file[v][n] \in CommittedBlocks
        BY <1>1, FileFacts DEF Range
    <2> QED
        BY <1>1, <2>1, FileFacts DEF RestartInv, BlocksInv
<1> QED
    BY <1>1, TypeCorrectWithRestarts, RestartInvHolds, PTL

\* Equal tip hashes mean equal chains, however often the producer restarts.
THEOREM SameTipSameChainHolds == SpecWithRestarts => []SameTipSameChain
<1>1. ASSUME TypeOK, RestartInv
      PROVE  SameTipSameChain
    <2> SUFFICES ASSUME NEW u \in Validators, NEW v \in Validators,
                        GetLatestHash(chain_file[u]) = GetLatestHash(chain_file[v])
                 PROVE  chain_file[u] = chain_file[v]
        BY DEF SameTipSameChain
    <2>1. BlocksInv
        BY <1>1 DEF RestartInv
    <2> QED
        BY <1>1, <2>1, FileFacts, SameTip
<1> QED
    BY <1>1, TypeCorrectWithRestarts, RestartInvHolds, PTL

-----------------------------------------------------------------------------
(* Forks.                                                                  *)

\* Two quorums share a validator.
LEMMA SharedValidator ==
    ASSUME NEW P \in SUBSET Validators, Cardinality(P) >= QUORUM,
           NEW Q \in SUBSET Validators, Cardinality(Q) >= QUORUM
    PROVE  \E v \in P : v \in Q
<1> SUFFICES ASSUME P \cap Q = {} PROVE FALSE
    OBVIOUS
<1>1. IsFiniteSet(Validators) /\ IsFiniteSet(P) /\ IsFiniteSet(Q) /\ IsFiniteSet(P \cup Q)
    BY ValidatorsAreFinite, FS_Subset
<1>2. Cardinality(P \cap Q) = 0
    BY FS_EmptySet
<1>3. /\ Cardinality(P) \in Nat /\ Cardinality(Q) \in Nat
      /\ Cardinality(Validators) \in Nat /\ Cardinality(P \cup Q) \in Nat
    BY <1>1, FS_CardinalityType
<1>4. Cardinality(P \cup Q) = Cardinality(P) + Cardinality(Q) - Cardinality(P \cap Q)
    BY <1>1, FS_Union
<1>5. Cardinality(P \cup Q) <= Cardinality(Validators)
    BY <1>1, FS_Subset
<1>6. Cardinality(P) + Cardinality(Q) <= Cardinality(Validators)
    BY <1>2, <1>3, <1>4, <1>5
<1> QED
    BY <1>3, <1>6, QuorumsIntersect, QuorumAssumption

\* Verified chains of committed blocks that start alike go on alike: a block
\* has one successor.
LEMMA SameStart ==
    ASSUME BlocksInv,
           NEW c, IsSeq(c), VerifyChain(c), Range(c) \subseteq CommittedBlocks,
           NEW d, IsSeq(d), VerifyChain(d), Range(d) \subseteq CommittedBlocks,
           c[1] = d[1]
    PROVE  \A n \in Nat : n + 1 <= Len(c) /\ n + 1 <= Len(d) => c[n + 1] = d[n + 1]
<1> DEFINE S == {n \in Nat : n + 1 <= Len(c) /\ n + 1 <= Len(d) => c[n + 1] = d[n + 1]}
<1>1. /\ Len(c) \in Nat /\ DOMAIN c = 1..Len(c)
      /\ Len(d) \in Nat /\ DOMAIN d = 1..Len(d)
    BY SeqFacts
<1>2. S \in SUBSET Nat /\ 0 \in S
    OBVIOUS
<1>3. ASSUME NEW n \in S
      PROVE  n + 1 \in S
    <2>1. n \in Nat
        OBVIOUS
    <2> SUFFICES ASSUME n + 2 <= Len(c), n + 2 <= Len(d)
                 PROVE  c[n + 2] = d[n + 2]
        BY <2>1
    <2>2. c[n + 1] = d[n + 1]
        BY <1>1, <2>1
    <2>3. /\ n + 1 \in 1..Len(c) /\ n + 2 \in 1..Len(c)
          /\ n + 1 \in 1..Len(d) /\ n + 2 \in 1..Len(d)
          /\ n + 2 # 1 /\ n + 2 - 1 = n + 1
        BY <1>1, <2>1
    <2>4. /\ c[n + 2].previous_hash
                = IF n + 2 = 1 THEN GENESIS_PREVIOUS_HASH ELSE c[n + 2 - 1].current_hash
          /\ d[n + 2].previous_hash
                = IF n + 2 = 1 THEN GENESIS_PREVIOUS_HASH ELSE d[n + 2 - 1].current_hash
        BY <2>3, VerifyChainParts
    <2>5. /\ c[n + 2].previous_hash = c[n + 1].current_hash
          /\ d[n + 2].previous_hash = c[n + 1].current_hash
        BY <2>2, <2>3, <2>4
    <2>6. c[n + 1] \in CommittedBlocks /\ c[n + 2] \in CommittedBlocks
          /\ d[n + 2] \in CommittedBlocks
        BY <1>1, <2>3 DEF Range
    <2>7. c[n + 1].current_hash # GENESIS_PREVIOUS_HASH
        BY <2>6, NoHashIsGenesis DEF BlocksInv
    <2> QED
        BY <2>5, <2>6, <2>7 DEF BlocksInv
<1> HIDE DEF S
<1>4. S = Nat
    BY <1>2, <1>3, Induction
<1> QED
    BY <1>4 DEF S

\* Forked chains of committed blocks: one of them ends with its first block.
LEMMA NoFork ==
    ASSUME TypeOK, RestartInv,
           NEW u \in Validators, Len(chain_file[u]) >= 2,
           NEW v \in Validators, Len(chain_file[v]) >= 2
    PROVE  \/ IsPrefix(chain_file[u], chain_file[v])
           \/ IsPrefix(chain_file[v], chain_file[u])
<1> DEFINE c == chain_file[u]
           d == chain_file[v]
<1>1. /\ IsSeq(c) /\ VerifyChain(c) /\ Range(c) \subseteq CommittedBlocks
      /\ IsSeq(d) /\ VerifyChain(d) /\ Range(d) \subseteq CommittedBlocks
    BY FileFacts
<1>2. Len(c) >= 2 /\ Len(d) >= 2
    OBVIOUS
<1> HIDE DEF c, d
<1>3. ASSUME NEW e, IsSeq(e), VerifyChain(e), Range(e) \subseteq CommittedBlocks, Len(e) >= 2
      PROVE  /\ e[1] \in CommittedBlocks
             /\ Cardinality(FirstBlockHolders(e[1].current_hash)) >= QUORUM
    <2>1. Len(e) \in Nat /\ DOMAIN e = 1..Len(e) /\ 1 \in 1..Len(e) /\ 2 \in 1..Len(e)
        BY <1>3, SeqFacts
    <2>2. e[1] \in CommittedBlocks /\ e[2] \in CommittedBlocks
        BY <1>3, <2>1 DEF Range
    <2>3. e[2].index = 1
        BY <1>3, <2>1, VerifiedIsIndexed DEF Indexed
    <2>4. e[2].previous_hash = IF 2 = 1 THEN GENESIS_PREVIOUS_HASH ELSE e[2 - 1].current_hash
        BY <1>3, <2>1, VerifyChainParts
    <2>5. e[2].previous_hash = e[1].current_hash
        BY <2>4
    <2> QED
        BY <2>2, <2>3, <2>5 DEF RestartInv
<1>4. c[1] \in CommittedBlocks /\ d[1] \in CommittedBlocks
    BY <1>1, <1>2, <1>3
<1>5. \E w \in FirstBlockHolders(c[1].current_hash) : w \in FirstBlockHolders(d[1].current_hash)
    <2>1. /\ Cardinality(FirstBlockHolders(c[1].current_hash)) >= QUORUM
          /\ Cardinality(FirstBlockHolders(d[1].current_hash)) >= QUORUM
        BY <1>1, <1>2, <1>3
    <2>2. \A hash : FirstBlockHolders(hash) \in SUBSET Validators
        BY DEF FirstBlockHolders
    <2> QED
        BY <2>1, <2>2, SharedValidator
<1>6. c[1] = d[1]
    <2>1. c[1].current_hash = d[1].current_hash
        BY <1>5 DEF FirstBlockHolders
    <2> QED
        BY <1>4, <2>1, UniqueHash DEF RestartInv
<1>7. \A n \in Nat : n + 1 <= Len(c) /\ n + 1 <= Len(d) => c[n + 1] = d[n + 1]
    BY <1>1, <1>6, SameStart DEF RestartInv
<1>8. Len(c) \in Nat /\ Len(d) \in Nat
    BY <1>1, SeqFacts
<1>9. ASSUME NEW n \in Nat \ {0}, n <= Len(c), n <= Len(d)
      PROVE  c[n] = d[n]
    <2>1. n - 1 \in Nat /\ n - 1 + 1 = n
        OBVIOUS
    <2> QED
        BY <1>7, <1>9, <2>1
<1>10. IsPrefix(c, d) \/ IsPrefix(d, c)
    <2>1. CASE Len(c) <= Len(d)
        BY <1>1, <1>8, <1>9, <2>1, PrefixFacts
    <2>2. CASE Len(d) <= Len(c)
        BY <1>1, <1>8, <1>9, <2>2, PrefixFacts
    <2> QED
        BY <1>8, <2>1, <2>2
<1> QED
    BY <1>10 DEF c, d

\* Neither 0 nor 1.
LEMMA TwoOrMore ==
    ASSUME NEW n \in Nat, n # 0, n # 1
    PROVE  n >= 2
OBVIOUS

\* A producer that forgot its chain forks the log at block 0 or not at all,
\* and of two forked chains one never grows past that block.
THEOREM ForkOnlyAtFirstBlockHolds == SpecWithRestarts => []ForkOnlyAtFirstBlock
<1>1. ASSUME TypeOK, RestartInv
      PROVE  ForkOnlyAtFirstBlock
    <2> SUFFICES ASSUME NEW u \in Validators, NEW v \in Validators,
                        Len(chain_file[u]) # 1, Len(chain_file[v]) # 1
                 PROVE  \/ IsPrefix(chain_file[u], chain_file[v])
                        \/ IsPrefix(chain_file[v], chain_file[u])
        BY DEF ForkOnlyAtFirstBlock
    <2>1. /\ IsSeq(chain_file[u]) /\ IsSeq(chain_file[v])
          /\ Len(chain_file[u]) \in Nat /\ Len(chain_file[v]) \in Nat
          /\ chain_file[u] = <<>> <=> Len(chain_file[u]) = 0
          /\ chain_file[v] = <<>> <=> Len(chain_file[v]) = 0
        BY <1>1, FileFacts, SeqFacts
    <2>2. CASE chain_file[u] = <<>> \/ chain_file[v] = <<>>
        BY <2>1, <2>2, PrefixOrder
    <2>3. CASE chain_file[u] # <<>> /\ chain_file[v] # <<>>
        <3>1. Len(chain_file[u]) >= 2 /\ Len(chain_file[v]) >= 2
            BY <2>1, <2>3, TwoOrMore
        <3> QED
            BY <1>1, <3>1, NoFork
    <2> QED
        BY <2>2, <2>3
<1> QED
    BY <1>1, TypeCorrectWithRestarts, RestartInvHolds, PTL

-----------------------------------------------------------------------------
(* While the producer runs: a lost last block.                             *)

StoredBlocks == UNION {Range(chain_file[v]) : v \in Validators}

\* Whatever a start-up learned, or has built from it, is in some chain file:
\* a peer saves before it answers, and chain files only grow.
LearnedAreStored ==
    /\ \A r \in Callers : AnswersAmong(call[r], StoredBlocks)
    /\ FilesAmong(StoredBlocks, {})

\* What is stored stays so.
LEMMA StoredBlocksGrow ==
    ASSUME ValidatorTypeOK, ValidatorTypeOK', FilesGrow
    PROVE  StoredBlocks \subseteq StoredBlocks'
<1>1. ASSUME NEW v \in Validators
      PROVE  Range(chain_file[v]) \subseteq Range(chain_file'[v])
    BY PrefixRange DEF FilesGrow, ValidatorTypeOK, IsChain
<1> QED
    BY <1>1 DEF StoredBlocks

\* What is among the blocks stored before a step is among those stored after it.
LEMMA LearnedStay ==
    ASSUME NEW S, S \subseteq StoredBlocks',
           \A r \in Callers : AnswersAmong(call'[r], S),
           \A v \in Validators : StartUpAmong(sync'[v], S)
    PROVE  LearnedAreStored'
<1>1. PICK T : T = StoredBlocks'
    OBVIOUS
<1>2. /\ \A r \in Callers : AnswersAmong(call'[r], T)
      /\ \A v \in Validators : StartUpAmong(sync'[v], T)
    BY <1>1 DEF AnswersAmong, StartUpAmong
<1>3. \A v \in Validators : Range(chain_file'[v]) \subseteq T
    BY <1>1 DEF StoredBlocks
<1>4. FilesAmong(T, {})'
    BY <1>2, <1>3 DEF FilesAmong, StartUpAmong
<1>5. \A r \in Callers : AnswersAmong(call[r], T)'
    BY <1>2 DEF AnswersAmong
<1> QED
    BY <1>1, <1>4, <1>5 DEF LearnedAreStored, FilesAmong, StartUpAmong, AnswersAmong

\* A call is answered with stored blocks or with none at all.
LEMMA AnswersAreStored ==
    ASSUME NetworkTypeOK, NEW S, S = StoredBlocks,
           \A r \in Callers : AnswersAmong(call[r], S),
           [Next]_vars
    PROVE  \A r \in Callers : AnswersAmong(call'[r], S)
<1>1. ASSUME \A r \in Callers :
                call'[r] = call[r] \/ call'[r].type # "SYNC_RESPONSE"
                                   \/ call'[r].blocks \subseteq S
      PROVE  \A r \in Callers : AnswersAmong(call'[r], S)
    BY <1>1 DEF AnswersAmong
<1>2. ASSUME NEW v \in Validators, NEW response, AnswersAmong(response, S), Reply(v, response)
      PROVE  \A r \in Callers : AnswersAmong(call'[r], S)
    <2>1. \A r \in Callers : call'[r] = call[r] \/ call'[r] = response
        BY <1>2 DEF Reply, NetworkTypeOK
    <2> QED
        BY <1>2, <2>1
<1>3. CASE \E v \in Validators : HandleProposeBlock(v) \/ HandleCommitBlock(v)
                                    \/ HandleCommitSaveFails(v) \/ RejectExpired(v)
    <2>1. PICK v \in Validators : HandleProposeBlock(v) \/ HandleCommitBlock(v)
                                    \/ HandleCommitSaveFails(v) \/ RejectExpired(v)
        BY <1>3
    <2>2. PICK response : response.type # "SYNC_RESPONSE" /\ Reply(v, response)
        BY <2>1 DEF HandleProposeBlock, HandleCommitBlock, HandleCommitSaveFails,
                    RejectExpired, AckMessage, OkReply, ErrorReply
    <2> QED
        BY <1>2, <2>2 DEF AnswersAmong
<1>4. CASE \E v \in Validators : HandleSyncRequest(v)
    <2>1. PICK v \in Validators : HandleSyncRequest(v)
        BY <1>4
    <2> DEFINE response == SyncResponse(v, Head(inbox[v]).latest_index)
    <2>2. Range(chain_file[v]) \subseteq S
        BY DEF StoredBlocks
    <2>3. AnswersAmong(response, S)
        BY <2>2 DEF AnswersAmong, SyncResponse, Closed, GetBlocksAfterIndex, Range
    <2>4. Reply(v, response)
        BY <2>1 DEF HandleSyncRequest
    <2> HIDE DEF response
    <2> QED
        BY <1>2, <2>3, <2>4
<1>5. CASE UNCHANGED call
    BY <1>5
<1>6. CASE \E r \in Callers : \E answer \in {Idle, Waiting, Closed} :
              call' = [call EXCEPT ![r] = answer]
    <2>1. PICK r \in Callers, answer \in {Idle, Waiting, Closed} :
             call' = [call EXCEPT ![r] = answer]
        BY <1>6
    <2>2. answer.type # "SYNC_RESPONSE"
        BY DEF Idle, Waiting, Closed
    <2>3. \A w \in Callers : call'[w] = call[w] \/ call'[w] = answer
        BY <2>1 DEF NetworkTypeOK
    <2> QED
        BY <1>1, <2>2, <2>3
<1>7. ASSUME \/ \E v \in Validators : \/ RequestSync(v) \/ CollectSyncResponse(v)
                                      \/ StartValidator(v) \/ SelectConsistentBlocks(v)
                                      \/ AppendSyncedBlock(v) \/ SaveSyncedChain(v)
                                      \/ Listen(v) \/ Crash(v)
             \/ \E log \in LOGS : AcceptLog(log)
             \/ HandleLog
             \/ \E r \in Callers : CallEnds(r)
             \/ UNCHANGED vars
      PROVE  \/ UNCHANGED call
             \/ \E r \in Callers : \E answer \in {Idle, Waiting, Closed} :
                   call' = [call EXCEPT ![r] = answer]
    <2>1. PRODUCER \in Callers /\ \A v \in Validators : v \in Callers
        BY DEF Callers
    <2> QED
        BY <1>7, <2>1
           DEF RequestSync, CollectSyncResponse, StartValidator, SelectConsistentBlocks,
               AppendSyncedBlock, SaveSyncedChain, Listen, Crash, DropSockets, AcceptLog,
               ReceiveLog, HandleLog, ProposeBlock, CollectAck, AbortCommit, AppendCandidate,
               CommitBlock, IgnoreCommitReply, FinishCommit, CallEnds, GiveUp, Connect,
               FailToSend, networkVars, vars
<1> QED
    BY <1>3, <1>4, <1>5, <1>6, <1>7 DEF Next, Serve, Synchronise, Environment

\* No step brings a start-up a block that no chain file holds.
LEMMA NextLearned ==
    ASSUME TypeOK, TypeOK', SyncInv, FilesGrow, LearnedAreStored, [Next]_vars
    PROVE  LearnedAreStored'
<1>1. PICK S : S = StoredBlocks
    OBVIOUS
<1>2. FilesAmong(S, {}) /\ \A r \in Callers : AnswersAmong(call[r], S)
    BY <1>1 DEF LearnedAreStored, FilesAmong, StartUpAmong, AnswersAmong
<1>3. S \subseteq StoredBlocks'
    BY <1>1, StoredBlocksGrow DEF TypeOK
<1>4. \A r \in Callers : AnswersAmong(call'[r], S)
    BY <1>1, <1>2, AnswersAreStored DEF TypeOK
<1>5. ASSUME NEW v \in Validators,
             \/ StartValidator(v) \/ SelectConsistentBlocks(v) \/ AppendSyncedBlock(v)
             \/ Listen(v) \/ CollectSyncResponse(v) \/ SaveSyncedChain(v)
      PROVE  FilesAmong(S, {})'
    <2>1. CASE CollectSyncResponse(v)
        <3>1. AnswersAmong(call[v], S)
            BY <1>2 DEF Callers
        <3> QED
            BY <1>2, <2>1, <3>1, CollectAmong DEF TypeOK
    <2>2. CASE SaveSyncedChain(v)
        BY <1>2, <2>2, SaveAmong DEF TypeOK
    <2>3. CASE ~CollectSyncResponse(v) /\ ~SaveSyncedChain(v)
        BY <1>2, <1>5, <2>3, LocalSyncAmong DEF TypeOK
    <2> QED
        BY <2>1, <2>2, <2>3
<1>6. \A v \in Validators : StartUpAmong(sync'[v], S)
    <2>1. CASE \E v \in Validators : FilesAmong(S, {})'
        BY <2>1 DEF FilesAmong, StartUpAmong
    <2>2. CASE UNCHANGED sync
        BY <1>2, <2>2 DEF FilesAmong
    <2>3. CASE \E v \in Validators : Crash(v)
        <3>1. PICK v \in Validators : sync' = [sync EXCEPT ![v] = NoSync]
            BY <2>3 DEF Crash
        <3>2. \A w \in Validators : sync'[w] = sync[w] \/ sync'[w] = NoSync
            BY <3>1 DEF TypeOK, ValidatorTypeOK
        <3> QED
            BY <1>2, <3>2, NoStartUpAmong DEF FilesAmong
    <2>4. \/ UNCHANGED sync
          \/ \E v \in Validators : Crash(v)
          \/ \E v \in Validators :
                \/ StartValidator(v) \/ SelectConsistentBlocks(v) \/ AppendSyncedBlock(v)
                \/ Listen(v) \/ CollectSyncResponse(v) \/ SaveSyncedChain(v)
        BY DEF Next, Serve, Synchronise, Environment, AcceptLog, HandleLog, CallEnds, vars,
               validatorVars, HandleProposeBlock, HandleCommitBlock, HandleSyncRequest,
               RequestSync, HandleCommitSaveFails, RejectExpired
    <2> QED
        BY <1>5, <2>1, <2>2, <2>3, <2>4
<1> QED
    BY <1>3, <1>4, <1>6, LearnedStay

LEMMA InitLearned == Init => LearnedAreStored
<1> SUFFICES ASSUME Init PROVE LearnedAreStored
    OBVIOUS
<1>1. \A v \in Validators : chain_file[v] = <<>> /\ sync[v] = NoSync
    BY DEF Init, ValidatorInit
<1>2. \A r \in Callers : call[r] = Idle
    BY DEF Init, NetworkInit
<1>3. PICK S : S = StoredBlocks
    OBVIOUS
<1>4. FilesAmong(S, {})
    BY <1>1, EmptyVerifies, NoStartUpAmong DEF FilesAmong
<1> QED
    BY <1>2, <1>3, <1>4 DEF LearnedAreStored, FilesAmong, StartUpAmong, AnswersAmong, Idle

\* No quorum accepts a candidate that continues a block no validator has.
LEMMA LostTipStopsCommits ==
    ASSUME TypeOK, ReplicationInv, TipIsLost, [Next]_vars
    PROVE  producer_chain' = producer_chain /\ step' # "commit"
<1>1. ~AppendCandidate
    <2> SUFFICES ASSUME AppendCandidate PROVE FALSE
        OBVIOUS
    <2>1. Cardinality(WholeChainHolders) >= QUORUM
        BY AckQuorum DEF AppendCandidate
    <2>2. WholeChainHolders = {}
        <3>1. Len(producer_chain) \in Nat
            BY SeqFacts DEF TypeOK, ProducerTypeOK, IsChain
        <3> QED
            BY <3>1 DEF WholeChainHolders, TipIsLost
    <2> QED
        BY <2>1, <2>2, FS_EmptySet, QuorumAssumption
<1>2. CASE \E v \in Validators : Serve(v) \/ Synchronise(v) \/ Environment(v)
    BY <1>2 DEF Serve, Synchronise, Environment, producerVars, TipIsLost
<1>3. CASE ~\E v \in Validators : Serve(v) \/ Synchronise(v) \/ Environment(v)
    BY <1>1, <1>3
       DEF Next, AcceptLog, ReceiveLog, HandleLog, ProposeBlock, CollectAck, AbortCommit,
           AcceptNext, CommitBlock, IgnoreCommitReply, FinishCommit, CallEnds, vars,
           producerVars, TipIsLost
<1> QED
    BY <1>2, <1>3

\* Nothing that is stored, learned or on its way is the lost block, so no
\* step can store it.
LEMMA LostTipStep ==
    ASSUME TypeOK, TypeOK', ReplicationInv, ReplicationInv', RestartInv', LearnedAreStored,
           TipIsLost, [Next]_vars
    PROVE  TipIsLost' /\ producer_chain' = producer_chain
<1> DEFINE chain == producer_chain
<1>1. chain' = chain /\ step' # "commit"
    BY LostTipStopsCommits
<1>2. /\ IsSeq(chain) /\ Len(chain) \in Nat /\ DOMAIN chain = 1..Len(chain)
      /\ chain # <<>> /\ Len(chain) # 0
      /\ \A n \in 1..Len(chain) : chain[n].index = n - 1
      /\ GetLatestIndex(chain) = Len(chain) - 1
    BY SeqFacts, LatestIndexOfIndexed
       DEF TypeOK, ProducerTypeOK, IsChain, ReplicationInv, CandidateInv, Indexed, TipIsLost
<1>3. PICK S : S = {b \in Range(chain) : b.index < Len(chain) - 1}
    OBVIOUS
<1>4. ASSUME NEW v \in Validators
      PROVE  Range(chain_file[v]) \subseteq S
    <2> DEFINE file == chain_file[v]
    <2>1. IsSeq(file) /\ IsPrefix(file, chain) /\ Len(file) < Len(chain)
        BY DEF TypeOK, ValidatorTypeOK, IsChain, ReplicationInv, ChainsFollowProducer, TipIsLost
    <2>2. Len(file) \in Nat /\ DOMAIN file = 1..Len(file)
        BY <2>1, SeqFacts
    <2>3. \A n \in 1..Len(file) : file[n] = chain[n]
        BY <1>2, <2>1, PrefixFacts
    <2> HIDE DEF file
    <2>4. ASSUME NEW n \in 1..Len(file)
          PROVE  file[n] \in S
        <3>1. n \in 1..Len(chain) /\ n - 1 < Len(chain) - 1
            BY <1>2, <2>1, <2>2
        <3> QED
            BY <1>2, <1>3, <2>3, <3>1 DEF Range
    <2> QED
        BY <2>2, <2>4 DEF Range, file
<1>5. FilesAmong(S, {}) /\ InFlightAmong(S)
    <2>1. StoredBlocks \subseteq S
        BY <1>4 DEF StoredBlocks
    <2>2. FilesAmong(S, {}) /\ \A r \in Callers : AnswersAmong(call[r], S)
        <3>1. PICK T : T = StoredBlocks
            OBVIOUS
        <3>2. FilesAmong(T, {}) /\ \A r \in Callers : AnswersAmong(call[r], T)
            BY <3>1 DEF LearnedAreStored, FilesAmong, StartUpAmong, AnswersAmong
        <3>3. T \subseteq S
            BY <2>1, <3>1
        <3> QED
            BY <3>2, <3>3 DEF FilesAmong, StartUpAmong, AnswersAmong
    <2>3. \A v \in Validators : CommitsAmong(inbox[v], S)
        BY <1>2, <1>3 DEF TipIsLost, CommitsAmong, ReplicationInv, InFlightInv, InFlightAmong
    <2> QED
        BY <2>2, <2>3 DEF InFlightAmong
<1>6. FilesAmong(S, {})' /\ InFlightAmong(S)'
    <2>1. SyncInv /\ step # "commit" /\ [NextWithRestarts]_vars
        BY DEF ReplicationInv, TipIsLost, NextWithRestarts
    <2> QED
        BY <1>5, <2>1, StepAmong
<1>7. ASSUME NEW v \in Validators
      PROVE  Len(chain_file'[v]) < Len(chain)
    <2> DEFINE file == chain_file'[v]
    <2>1. IsSeq(file) /\ IsPrefix(file, chain)
        BY <1>1 DEF TypeOK, ValidatorTypeOK, IsChain, ReplicationInv, ChainsFollowProducer
    <2>2. VerifyChain(file)
        BY DEF RestartInv, Chains
    <2>3. Range(file) \subseteq S
        BY <1>6, <2>2 DEF FilesAmong
    <2> HIDE DEF file
    <2>4. Len(file) \in Nat /\ Len(file) <= Len(chain)
        BY <1>2, <2>1, SeqFacts, PrefixFacts
    <2>5. Len(file) # Len(chain)
        <3> SUFFICES ASSUME Len(file) = Len(chain) PROVE FALSE
            OBVIOUS
        <3>1. file = chain
            BY <1>2, <2>1, PrefixOfSameLength
        <3>2. chain[Len(chain)] \in S
            BY <1>2, <2>3, <3>1 DEF Range
        <3>3. chain[Len(chain)].index = Len(chain) - 1
            BY <1>2
        <3> QED
            BY <1>2, <1>3, <3>2, <3>3
    <2>6. Len(file) < Len(chain)
        BY <1>2, <2>4, <2>5
    <2> QED
        BY <2>6 DEF file
<1>8. ASSUME NEW v \in Validators, NEW n \in DOMAIN inbox'[v],
             inbox'[v][n].type = "COMMIT_BLOCK"
      PROVE  inbox'[v][n].block.index < Len(chain) - 1
    BY <1>3, <1>6, <1>8 DEF InFlightAmong, CommitsAmong
<1> QED
    BY <1>1, <1>2, <1>7, <1>8 DEF TipIsLost

\* A last block that nobody stored and nobody will be sent is lost for good,
\* and nothing is committed after it.
THEOREM LostTipBlocksTheLogHolds == Spec => LostTipBlocksTheLog
<1>1. TypeOK /\ TypeOK' /\ OneCallAtATime /\ ReplicationInv /\ LearnedAreStored /\ [Next]_vars
         => LearnedAreStored'
    <2> SUFFICES ASSUME TypeOK, TypeOK', OneCallAtATime, ReplicationInv, LearnedAreStored,
                        [Next]_vars
                 PROVE  LearnedAreStored'
        OBVIOUS
    <2>1. SyncInv /\ FilesGrow
        BY NextInv DEF ReplicationInv, FilesGrow
    <2> QED
        BY <2>1, NextLearned
<1>2. /\ TypeOK /\ TypeOK' /\ ReplicationInv /\ ReplicationInv' /\ RestartInv'
      /\ LearnedAreStored /\ [Next]_vars
      => [TipIsLost => TipIsLost' /\ producer_chain' = producer_chain]_vars
    BY LostTipStep
<1>3. [Next]_vars => [NextWithRestarts]_vars
    BY DEF NextWithRestarts
<1>4. Spec => SpecWithRestarts
    BY <1>3, PTL DEF Spec, SpecWithRestarts
<1> QED
    BY <1>1, <1>2, <1>4, InitLearned, TypeCorrect, OneCallAtATimeHolds, ReplicationInvHolds,
       RestartInvHolds, PTL DEF Spec, LostTipBlocksTheLog

=============================================================================
