# A TLA+ model of the blockchain log system

This directory specifies the replicated log of this repository in TLA+: one
block producer, three validators that each keep a chain of hash-linked blocks
in a JSON file, and the TCP calls between them. The specification is checked
with TLC on small instances, and every safety property that a passing run checks
is proved with TLAPS for every value of the constants.

Contents: 1 the system and its parts, 2 what is hard about it, 3 the modules
and how they correspond to the code, 4 abstractions and bounds, 5 the runs,
6 fairness, 7 the proofs, 8 what the README of the repository says and the code
does not do, 9 what is left out, 10 the plan.

## 1. The system and its parts

| Part | Source | State | Operations |
|---|---|---|---|
| Block producer | `block_producer.py` | `producer_chain`, in memory only; the locals of one running handler | accept a LOG, build a candidate, propose it to A, B, C in turn, count ACKs, abort or attach the proof, append and send COMMIT_BLOCK to A, B, C in turn, answer the client |
| Validator, serving | `validator_node.py` | chain file | `handle_propose_block`, `handle_commit_block`, `handle_sync_request` |
| Validator, starting | `validator_node.py` | chain file; the blocks collected and the working chain, in memory | ask both peers, compare their answers, apply the blocks to a working chain, save, listen |
| Block and chain functions | `blockchain.py` | none | build, prove, verify, append idempotently |
| Chain storage | `blockchain.py` (`load_chain`, `save_chain`) | the file, its temporary file, what of both is on the disk | load; write, flush, fsync, replace, or fail at any of them |
| Framing and sockets | `network_utils.py`, `config.py` | accept queues, open connections | connect, send, receive, time out |
| Signatures | `crypto_utils.py` | none | sign, verify, refuse messages older than 300 s |
| Log clients | `log_node.py`, `run_experiment.py` (normal), `c_client/log_sender.c` | what was printed of each log | send a LOG, wait for the answer: 5 s in Python, for ever in C |
| Tamper tool, audit | `tamper.py`, `check_validators.py` | the chain files | edit a block; verify and compare the files |
| Experiments | `run_experiment.py`, `reset_data.py` | none | send logs, tamper, audit, count the logs of a client, reset the files |

Interaction between running processes is by request and response over TCP only.
The clients call the producer, the producer calls the validators, a starting
validator calls its two peers; a validator calls nobody while serving. The
tools share the chain files with the validators. Every process has one thread: a server handles one connection
at a time, and the others wait in the kernel's accept queue of
`SOCKET_BACKLOG`. What makes each part correct:

- producer: a block is counted as committed only with a quorum of ACCEPTs of
  this very block by different validators, each of which has everything before
  it; every LOG connection ends;
- validator: the file only ever grows, along the producer's chain; what it
  stores verifies;
- start-up: it ends, never damages the file, and brings the missing blocks;
- chain functions: acceptance of a block pins the whole chain below it;
- sockets: an answer belongs to the call it is read in; a request is handled
  whole or not at all, however its bytes arrive;
- storage: the file is whole at every moment the program or the machine may
  stop, and a save that was reported is what the next load returns;
- clients: the answer is true, and a client that waits for ever gets one;
- audit: "synchronized" is said only of equal, intact and complete chains, and
  an edited file never spoils another one.

## 2. What is hard about it

`PROJECT.json` lists each hazard at its line. The ones that shaped the model:

- The producer appends a block to its chain *before* any COMMIT_BLOCK is sent
  and ignores the answers. Nothing resends a lost one. So which blocks are
  durable? (All but the last: `DurableButTip`. And if nobody stored the last
  one, the log is stuck: `LostTipBlocksTheLog`.)
- A timed-out request is not gone. Its bytes wait in the accept queue of a slow
  validator, and are handled after the producer has moved on.
- A validator synchronises first and listens afterwards. Blocks committed in
  between reach it by neither path; the two peers answer at different times.
- `append_synced_blocks` loads the file, works in memory and replaces the file
  many steps later.
- The producer's chain is volatile; a restarted producer proposes block 0 again.
- Writes fail, validators crash, messages exceed 10 MiB, queues fill up.
- A client gives up after 5 s; its log stays in the producer's queue or handler
  (six calls of 5 s) and may be committed while the client sends the next one.
- A validator checks a proposal against its last block only, so one whose file
  was edited further down goes on to vote and to store.
- The audit reads one file after the other while validators write them.
- `save_chain` has five steps that fail, and a crash between any two; the
  directory that holds the file is not synced.

## 3. The modules

```
Blockchain        Network
     \            /    \
   ValidatorNode   BlockProducer        CommittedLog (abstract)
             \      /                        |
           LogReplication --- INSTANCE ------'
             |       |  \
 MCLogReplication    |   proofs: LogReplicationProofs, ReplicationSafetyProofs,
                     |           RestartProofs
        .------------+-----------------.
        |                              |
  ClientReplication               ReplicaAudit
  (with LogClient)                     |
        |        \             .-------+-------.
        |         \            |               |
 MCClientReplication \         |        TamperedReplication
                    ClientCheck         (with Tamper)
                      |      \             |        \
            MCClientCheck     \   MCTamperedReplication \
                       proofs: ClientProofs       proofs: TamperProofs

 StorageCell (abstract) --- INSTANCE --- ChainStorage --- MCChainStorage, proofs: StorageProofs
 Call (abstract) ---------- INSTANCE --- Exchange ------- MCExchange, proofs: ExchangeProofs
```

The lower two lines justify what the upper ones take for granted.
`ValidatorNode` loads and saves a chain file in one step: `ChainStorage` takes
the steps of `save_chain` apart and implements the cell `StorageCell`.
`Network` moves whole requests and responses: `Exchange` takes one connection
apart into bytes and implements `Call`, whose steps (`Send`, `Lose`, `Handle`,
`Answer`, `Fail`) are `Connect`, `DropSockets`, `Reply` for the server, `Reply`
for the caller and `GiveUp` of `Network`.

**Blockchain** holds the functions of `blockchain.py` as operators of the same
names. A chain is a sequence of block records. `VerifyBlock(block, previous)`
takes the chain that ends in `previous_block`, empty for `None`.

**Network** is one request and one response over TCP. `inbox[v]` is the accept
queue of v, `call[r]` the one open call of r, `listening` the set of bound
servers. `Connect` is `socket.create_connection` plus `send_json`; `GiveUp` ends
a call by the timeout or because the server closed it; the request then stays
in the queue, marked as having nobody who waits (`live = FALSE`). `Reply` is the
end of a handler. `DropSockets` is the death of a process.

**ValidatorNode**: `chain_file[v]` is the file, `sync[v]` the local state of
`run_validator` before it listens.

| Action | Code |
|---|---|
| `HandleProposeBlock`, `HandleCommitBlock`, `HandleSyncRequest` | the handlers of these names, from the received message to the response |
| `HandleCommitSaveFails` | `save_chain` raising inside `handle_commit_block`; `handle_connection` answers ERROR |
| `RejectExpired` | the age check of `verify_message_signature` in `handle_connection` |
| `StartValidator` | `run_validator` up to `get_latest_index` in `sync_from_peers` |
| `RequestSync`, `CollectSyncResponse` | one turn of the loop in `collect_sync_responses` |
| `SelectConsistentBlocks` | `select_consistent_blocks` and the load in `append_synced_blocks` |
| `AppendSyncedBlock`, `SaveSyncedChain` | the loop of `append_synced_blocks`, and its `save_chain` |
| `Listen` | bind and listen |
| `Crash` | the process stops at any point after its start |

A handler is one step: it loads the file, decides, saves and answers with
nothing in between that another process can see, for no other process touches
the file and nobody reads the socket before the answer. A crash between the
save and the answer looks to the others like a crash just after the answer
whose caller had given up, and both are in the model.

**BlockProducer**: `step` says where `handle_log_connection` is (waiting for a
connection, in the propose loop, in the commit loop); `turn` is the position of
the loop in `VALIDATOR_IDS`. Each turn of a loop is two steps, `ProposeBlock`
and `CollectAck` (or `CommitBlock` and `IgnoreCommitReply`), with the whole
network between them. `AppendCandidate` is `add_commit_proof` and
`producer_chain.append`; `AbortCommit` and `FinishCommit` answer the client.
`RestartProducer` empties the chain.

**LogReplication** composes them and states the properties. `Spec` has crashes
and restarts of validators, `SpecWithRestarts` also restarts of the producer,
`FairSpec` is `Spec` with fairness.

**CommittedLog** is what the protocol promises, without messages or hashes: one
log that grows by one entry at a time, and only when a quorum of replicas holds
all earlier entries; replicas that only store more of it. The refinement
mapping is `log <- producer_chain`, `replica <- chain_file`.

**LogClient** has the accept queue of the producer (`log_inbox`), the log its
handler works on (`log_request`) and what each client was told of each of its
logs (`answer`). `PATIENT` are the clients that run the C program.

| Action | Code |
|---|---|
| `SendLog` | one turn of the loops in `run_log_node`, `run_normal` and C `main`, up to the read; or a connect refused for want of room |
| `GiveUpLog` | `recv_json` raising after `SOCKET_TIMEOUT_SECONDS`, in the Python programs |
| `AcceptOldestLog` | `accept()` in `run_block_producer` |
| `AnswerLog` | `send_producer_message` at the end of `handle_log_connection` and the read of the client |
| `RejectExpiredLog` | the age check in `handle_log_connection` |

**ClientReplication** joins these with `LogReplication`: a log enters the
producer only through its queue, and an answer leaves with `AbortCommit` or
`FinishCommit`. `ClientSteps` is this system without fairness, `ClientSpec` the
fair one.

**ReplicaAudit** is `check_validators.py`, which `load_validator_state` of
`run_experiment.py` repeats: `LoadNextFile` reads one file per step, while the
validators go on, and `PrintVerdict` gives the verdict on what was read.

**ClientCheck** runs it beside the clients, as `c-client-check` does and as the
normal experiment does at its end (`CheckNextFile`, `EndCheck`), and remembers
in `answered_before` which logs the clients had an OK for when the audit began.

**Tamper** is `tamper.py`: the four edits, hashes left as they are.
**TamperedReplication** adds to `LogReplication` an operator who stops a
validator and edits its file (`TamperFile`), and an audit that reads one file
per step (`AuditNextFile`, `EndAudit`, on `ReplicaAudit`), both at any time; it
is `run_tamper` and `recovery-check` too, whose audits are the same.

**ChainStorage** is one chain file. `pending` is what the path may hold after a
loss of power, oldest first, the last entry being what it holds now; `tmp` is the
temporary file; a file is missing, empty, torn or whole, and `synced` or not.
`StartValidator`, `SaveBlocks`, `Listen` and `RunTool` are the programs that
call `save_chain`; `OpenTmp`, `DumpChain`, `FlushTmp`, `FsyncTmp`,
`ReplaceFile` and `ReturnFromSave` are its lines, `FailSave` its `except`;
`Kill`, `FlushDirectory` and `LosePower` are the environment.

**StorageCell** promises that a load sees a whole version, that a save replaces
it at once, and that a program that dies undoes nothing. It does *not* promise that a
save survives a loss of power: `save_chain` syncs the file but not its
directory, so the replacement may be undone. `StoredBlocksStay` therefore is
about processes that crash, not about machines that lose their power.

**Exchange** is one connection: `send_json` and `recv_json` (or `send_framed_json`
and `recv_framed_json` of the C client) at the caller, and the same in a server.
`RunCaller` and `RunServer` are the steps of the two programs; `TimeOut` is the
socket timeout, which every single `recv` starts anew and which only Python
callers have; `AcceptConnection` is the end of the server's previous connection.
`failure` says what broke off the server's work: its process died, or its
handler raised a `ValueError` (a `ChainLoadError`, say), which
`handle_connection` prints before it closes the connection without an answer.

The proof modules extend one another in the order ChainLemmas (on sequences and
the operators of `Blockchain`), LogReplicationProofs (types and calls),
ReplicationSafetyProofs (the producer runs), RestartProofs (it restarts);
ClientProofs extends ReplicationSafetyProofs and ClientCheck, TamperProofs extends
RestartProofs and TamperedReplication. Section 7 says what they prove.

**MCLogReplication** and the other MC modules give the constants their values
for TLC.

Operators marked "Faulty variant" are no part of the specification. Each is the
definition that follows it with a plausible bug (a dropped check, an off-by-one,
a missing load); with the variant in its place, TLC finds the property that
`PROJECT.json` names violated, which shows that the property is not vacuous.

## 4. Abstractions and bounds

- A hash is the hashed payload itself, so hashes are equal exactly when the
  four hashed fields are: SHA-256 without collisions. The commit proof is
  outside the hash, as in the code.
- Signatures between the processes modelled are always right. Only the age
  limit is modelled: any request that nobody waits for may be found expired
  (the limit of 300 s is far above the timeout of 5 s), and any log of a client
  without a timeout.
- Blocks sent in a SYNC_RESPONSE travel as a set; the receiver sorts by index.
- `MAX_MESSAGE_SIZE` appears where it changes behaviour: `MAX_SYNC_BLOCKS`
  blocks fit in a SYNC_RESPONSE, and the logs in `EDGE_LOGS` fit in
  PROPOSE_BLOCK but not, with the proof, in COMMIT_BLOCK. A log too large even
  for a proposal gets no ACK, like one that reaches nobody. The empty
  connection that a failed `send_json` leaves in an accept queue is left out.
- `SOCKET_BACKLOG` is 1 or 2 in the runs, 5 in the code. Three callers share a
  queue, so 2 already has room, fullness and a late request behind a live one;
  the proofs hold for any backlog.
- `MAX_CREATED`, `MAX_FAULTS` and `MAX_RESTARTS` bound the blocks created, the
  crashes and failed writes, and the producer restarts of a behaviour. They are
  guards of `ReceiveLog`, of `Crash` and `HandleCommitSaveFails`, and of
  `RestartProducer`, and nothing else reads them except `StartsInQuiet`, which
  uses them to say that no new log and no fault will come.
- The producer's `time.time()` is `clock`, a new value for every block, which
  survives a restart of the producer.
- Except in `TamperedReplication`, no other program writes the chain files; there
  it is one edit per file and at most `MAX_TAMPERED` files.
- A log of a client is its number. The logs of `ClientReplication` are
  `COUNT[c]` per client; that a client's texts may repeat (`LOG_MESSAGES`) makes
  no difference to the code, which compares no logs.
- A client whose connect is refused for want of room is told `FAILED` at once
  instead of after 5 s. The C client would retry its connect until the kernel
  gives up; here it fails too.
- A saved chain is the number of its save (`MAX_SAVES` bounds them); what a loss
  of power leaves of an unsynced file is the file, nothing or a part of it.
- Sizes are counted in bytes with a header of 2 and a limit of 3 in `Exchange`;
  payloads of 1, 3 and 4 bytes are below, at and above it. A response above the
  limit exists in the model although a server never builds one for a log.

Most runs set `CHECK_DEADLOCK FALSE`: when the bounds are used up and every
process waits in `accept()`, the model stops, and so does the program.

## 5. The runs

All runs of the composed system use validators A, B, C and a quorum of 2, as
`config.py` and `commit_candidate` do.

| Run | Bounds | Properties |
|---|---|---|
| `replication` | 2 blocks, 1 fault, backlog 2, timeouts at any time; 1.2 million states | `TypeOK`, `ChainsFollowProducer`, `DurableButTip`, `StoredBlocksStay`, `ImplementsCommittedLog` |
| `late_start` | C starts late; 3 blocks, 2 logs, one of them undeliverable in COMMIT_BLOCK; one block per SYNC_RESPONSE; 1.1 million states | `DurableButTip`, `OneCallAtATime`, `ReplicationInv`, `LostTipBlocksTheLog` |
| `producer_restart` | 4 blocks, 2 producer restarts, 1 fault; 0.5 million states | `SameTipSameChain`, `StoredChainsVerify`, `ForkOnlyAtFirstBlock`, `RestartInv` |
| `progress` | 1 patient client, 1 block, 1 fault, C starts late, backlog 1, timeouts; 0.15 million states | `StartupEnds`, `EveryLogIsAnswered` |
| `delivery` | 2 blocks, 1 fault, C starts late, no timeouts; 90,000 states | `ReplicationInv`, `CommitsReachEveryValidator`, `QuietRestartCatchesUp` |
| `recovery` | 2 blocks, 1 fault | `RestartRecoversAgreedBlocks`, violated (section 8) |
| `clients` | a Python client with 2 logs, a C client with 1, 3 blocks, B and C start late, backlog 1; 0.5 million states | `ClientTypeOK`, `AnswersAreTrue`, `LogsKeepClientOrder`, `ClientInv` |
| `client_check` | a C client with 2 logs, a Python client with 1, 3 blocks, C starts late, backlog 1, audits at any time; 1.4 million states | `CheckFindsAnsweredLogs`, `CheckInv` |
| `report` | as `clients` | `ReportedCountIsCommitted`, violated (section 8) |
| `audit` | 2 blocks, one file tampered with, backlog 1; 0.8 million states | `VerifiedChainsFollowProducer`, `EvidenceStays`, `DurabilityLosesOnlyTampered`, `AuditTellsTheTruth`, `SynchronizedMeansComplete`, `TamperInv` |
| `storage` | 4 saves; 3,200 states | `ChainFileIsWhole`, `AnsweredSaveIsLoaded`, `ImplementsStorageCell` |
| `exchange` | payloads below, at and above the limit; 1,300 states | `CloseHasReason`, `ImplementsCall`, `CallerEnds`, `ServerIsFreed` |

What they show:

- `ChainsFollowProducer`: while the producer runs, no chain file is ever
  anything but a prefix of the producer's chain, whatever was lost, delayed,
  handled late or learned from a peer.
- `DurableButTip`: although the answers to COMMIT_BLOCK are ignored, every block
  but the last is stored by a quorum, because the ACCEPTs for the next block
  come only from validators that have it.
- `StoredBlocksStay`: no step drops or changes a stored block.
- `ImplementsCommittedLog`: refinement of `CommittedLog`.
- `LostTipBlocksTheLog`: a last block that nobody stored and whose COMMIT_BLOCKs
  are gone is lost, and nothing is ever committed after it.
- `ReplicationInv`, `RestartInv`, `ClientInv`, `CheckInv`, `TamperInv`: the inductive
  invariants of section 7 hold on the instances.
- `SameTipSameChain`, `StoredChainsVerify`, `ForkOnlyAtFirstBlock`: what is left
  when the producer restarts. Chains verify (so peers do not refuse to help);
  equal tips mean equal chains (the comparison `check_validators.py` makes);
  chains may fork at block 0, but one of the two branches never grows beyond it.
- `StartupEnds`, `EveryLogIsAnswered`: no loop, call or start-up hangs, also when
  two starting validators ask each other and neither listens yet, and a
  client without a timeout, whose connection was accepted into the queue, is
  answered.
- `CommitsReachEveryValidator`: without timeouts, and until the first fault, every
  block reaches every validator that runs.
- `QuietRestartCatchesUp`: with nothing being committed and peers up to date, a
  restart ends with the whole chain, whether the validator had crashed, had
  missed blocks between its synchronisation and `listen()`, or had been killed
  in its first start.
- `AnswersAreTrue`: OK is said only of a committed log, and ERROR only of one
  that is in no chain and never will be. A client that fails or times out knows nothing.
- `LogsKeepClientOrder`: the logs of a client are committed in the order it sent
  them and none twice, although one it gave up is handled after it has gone on.
- `CheckFindsAnsweredLogs`: when an audit finds the validators synchronized, each
  chain it read holds the very logs that the clients had an OK for when it began,
  all but at most one, which is then the last of its client; so the equal counts
  of `c-client-check` are not made up by logs that were given up and committed
  all the same. The files are read one after the other and may lack the last
  block together.
- `VerifiedChainsFollowProducer`, `DurabilityLosesOnlyTampered`: a validator with
  an edited file votes, stores and answers SYNC_REQUESTs, but its damage stays
  its own: it spreads to no file, and each block but the last is intact at as
  many validators as a quorum less the edited ones.
- `EvidenceStays`: a chain that does not verify never verifies again. Nothing
  repairs it either: a validator restarted on it stays out of line until its file is
  reset. Only the deletion of last blocks leaves a chain that verifies; it is
  noticed by comparison alone, and a start-up repairs it.
- `AuditTellsTheTruth`, `SynchronizedMeansComplete`: a positive verdict means
  equal, intact chains that every untampered file begins with, and that hold
  everything committed before the audit but perhaps the last block, although
  the files were read at different moments. A negative verdict may be due to
  just that; `recovery-check` waits and audits again.
- `ChainFileIsWhole`, `AnsweredSaveIsLoaded`, `ImplementsStorageCell`: at every
  moment of a save, with and without power, the file is missing or whole, so no
  validator refuses to start and none mistakes a truncated file for an empty
  chain, and a save that was reported is loaded, unless the power was lost.
- `ImplementsCall`, `CloseHasReason`, `CallerEnds`, `ServerIsFreed`: a request is
  handled whole, at most once; an answer follows from a handled request; a
  connection is closed on a caller only because the server died, because its
  handler raised, because the C program sent too large a request, which was not
  handled, or because the response was too large; Python callers always come
  back, the C caller does from a server that has accepted it, and
  a server is released by the death or timeout of its caller.

Two blocks are enough for a block that has a successor, a late request from the
previous block, and a synchronisation that returns blocks in part; three are
used where a lost tip must have both a predecessor and a later candidate; four
with two restarts, so that two producers without memory each get past block 0.
One fault is enough for one crash or failed write while a block is proposed,
committed or learned, followed by a restart. When all validators run from the
beginning, as in `replication`, a crash in a start-up would be a second fault;
there the proofs cover it, for any number of faults. `progress` and `delivery`
have a validator that starts at any time instead, which one fault can hit at
any step of its start-up, and beside which another one can crash and start. Two clients with three logs are enough for a log that is
given up, the next one of the same client, and one of another client between
them; one slot in the producer's queue beside the log at work is enough for a
late log and for a refused connect. One edited file is the largest number below
the quorum. Four saves make a first save, a failed or killed one that leaves
its temporary file, and two later ones that the power may undo.

## 6. Fairness

`Fairness` is weak fairness of the producer's handler, of each validator's
serving and starting code, and of the end of each blocked call. It states that
a runnable thread runs, which the operating system provides, and that a caller
blocked in `recv_json` returns after `SOCKET_TIMEOUT_SECONDS` at the latest,
which `socket.create_connection(timeout=...)` provides. Nothing is assumed of
clients, of the operator (`StartValidator`), of expiry or of
faults. `ClientFairness` is the same for `ClientReplication`, the handler with
its accept loop being `ServeLog`. With `SLOW = TRUE` a call may time out although the server is alive;
with `SLOW = FALSE` a call ends only when no live server holds its request.
`CommitsReachEveryValidator` and `QuietRestartCatchesUp` are checked with
`SLOW = FALSE`: when calls time out, a COMMIT_BLOCK can expire or meet a full
queue, a SYNC_REQUEST can stay without an answer, and neither is sent again.

`ExchangeSpec` has weak fairness of the two programs and of the timeout.
`AcceptConnection` is not fair: a server may be busy with another connection for
ever, which is why a C caller, having no timeout, may wait for ever in a queue;
`CallerEnds` excepts just that. `TimeOut` applies to one `recv` at a time, and a
caller that goes on receiving pieces does not time out, but it comes to the end of the message.

## 7. The proofs

Every theorem holds for any set and order of validators, any quorum size of at
least 1, any backlog, logs, size limits and bounds, as far as the `ASSUME`s of
the modules allow; TLC evaluates those in every run. The constants have their
types, `VALIDATOR_IDS` has no duplicates and the producer is none of them.
Beyond that: two quorums have a validator in common (`QuorumsIntersect`, used
for `ForkOnlyAtFirstBlock` only; 2 of 3 in the code), the logs are those of the
clients (`LogsAssumption`), and a tampered log is another text than the log
(`TamperAssumption`). That no block hashes to `GENESIS_PREVIOUS_HASH` or to the
texts `tamper.py` writes is not assumed: these constants of the code are
definitions, and a hash is a record of another kind.

| Module | Theorems |
|---|---|
| `ChainLemmas` | lemmas on sequences, prefixes and the operators of `Blockchain`; among them `VerifiedIsIndexed` (the n-th block of a chain that verifies has index n - 1) and `SameTipSameHashes` (equal tip hashes mean equal hashes all the way down) |
| `LogReplicationProofs` | `TypeCorrectWithRestarts`, `TypeCorrect`, `OneCallAtATimeWithRestarts`, `OneCallAtATimeHolds` |
| `ReplicationSafetyProofs` | `ReplicationInvHolds`, `ChainsFollowProducerHolds`, `StoredBlocksStayHolds`, `DurableButTipHolds`, `Refinement` |
| `RestartProofs` | with producer restarts: `RestartInvHolds`, `StoredBlocksStayWithRestarts`, `StoredChainsVerifyHolds`, `SameTipSameChainHolds`, `ForkOnlyAtFirstBlockHolds`; without: `LostTipBlocksTheLogHolds` |
| `ClientProofs` | `ClientsImplementSpec`, `ClientInvHolds`, `ClientTypeCorrect`, `LogsKeepClientOrderHolds`, `AnswersAreTrueHolds`, `CheckInvHolds`, `CheckFindsAnsweredLogsHolds` |
| `TamperProofs` | `TamperInvHolds`, `VerifiedChainsFollowProducerHolds`, `EvidenceStaysHolds`, `DurabilityLosesOnlyTamperedHolds`, `AuditTellsTheTruthHolds`, `SynchronizedMeansCompleteHolds` |
| `StorageProofs` | `ChainFileIsWholeHolds`, `AnsweredSaveIsLoadedHolds`, `ImplementsStorageCellHolds` |
| `ExchangeProofs` | `CloseHasReasonHolds`, `ImplementsCallHolds` |

### While the producer runs

`OneCallAtATime` says that of all queued requests of a caller at most one is
still waited for, and only while the caller is in its call. So an answer read by
a caller was made for its present request, although requests that timed out are
handled later.

`ChainsFollowProducer` is not inductive: what makes it true is where blocks come
from and when answers are read. `ReplicationInv` adds

- `CandidateInv`: the candidate continues the producer's chain, and once
  committed it is in it;
- `InFlightInv`: every block in a COMMIT_BLOCK, in a SYNC_RESPONSE, or collected
  by a starting validator is in the producer's chain, and a working chain is a
  prefix of it;
- `SyncInv`: a starting validator does not serve, so the working chain it will
  save extends its file;
- `AckInv`: each validator whose ACCEPT is counted, or about to be, has exactly
  the producer's chain, and no validator is counted twice.

The step that carries the rest is the lemma `AcceptedByUpToDate`: a validator
whose file is a prefix of the producer's chain accepts the candidate only if the
file is the whole chain. Its index must be the next one, and as hashes pin the
index, the prefix has the full length. A block appended to a file or working
chain is in the producer's chain and has the next index, hence is the next block
of it (`AppendKeepsPrefix`). `StoredBlocksStay` follows from `SyncInv`. For
`DurableButTip`, when the candidate is appended the counted ACKs inject into the
validators that hold the whole chain (`AckQuorum`), and holders never become
fewer (`MoreValidators`). `Refinement` maps `AppendCandidate` to `Commit`,
`HandleCommitBlock` and `SaveSyncedChain` to `Store`, and everything else to a
stutter.

`LostTipBlocksTheLog` needs to know that the lost block is nowhere else:
`LearnedAreStored` says that every block in a SYNC_RESPONSE or in a start-up is
in some chain file, for a peer saves before it answers and files only grow. So
in a state where the tip is lost, all blocks that a validator could still store
are older ones; and as nobody holds the whole chain, no candidate gets a quorum.

### When the producer restarts

`ReplicationInv` is lost with the producer's memory: files may be longer than
its chain, and the candidate may be a second block 0. `RestartInv` speaks of the
set `CommittedBlocks` of all blocks with a proof that exist anywhere instead.

- Each of them was made at another time, verifies by itself, and links to
  nothing or to an older one. Two of them that link to the same block are
  equal, unless they are blocks 0 (`BlocksInv`). So a hash names one block, a tip one
  chain (`SameTip`), and equal tip hashes mean equal chains.
- The candidate is newer than all of them and, when the producer has a chain,
  would be the first to continue it (`NewCandidateInv`); its ACKs come from
  validators that hold the whole of that chain (`NewAckInv`).
- All chains in files and in memory verify.
- For every block of index 1, a quorum stores the block 0 it links to. A
  file never changes its block 0, and two quorums share a validator, so all blocks of
  index 1 link to the same block 0: chains that go beyond it do not fork.

A step of a validator or of the network takes blocks from one place to another
(`StepAmong`: what was within a set S stays within it), so only
`AppendCandidate` is a step that adds to `CommittedBlocks`.

### Clients

`ClientsImplementSpec` says that a step of the system with clients is a step of
`Spec` or leaves the log alone, so all of the above holds there too. `ClientInv`
follows a log from its client to its answer: a log in `log_inbox` or at work is
the one its client waits for, or one it has given up; what is in the chain is
answered, given up, or at work; in the order chain, log at work, queue, each
client's logs come in the order it sent them. Hence no log is committed twice,
and when a client is told OK or ERROR, the chain at that moment decides for
ever: a later block of the same client can only be a later log.

`ClientsImplementSpec` and what is proved from it need no fairness, so they hold
of `CheckSpec` as well (`CheckSteps`). `CheckInv` keeps that the logs answered
when the audit began are in the first `start` blocks, and that some validator
v shows `start - 1` of them: by `DurableButTip` somebody stores them when the
audit begins, its file only grows, so the audit reads them whenever it comes to v.
When all chains it read are equally long, they are all that long, and as
prefixes of the producer's chain they lack nothing of it but, perhaps, block
`start`. What is in that block comes after everything else of its client
(`LogsKeepClientOrder`).

### Edited files

`TamperInv` is `ReplicationInv` for files that may not verify. What is on its
way, learned by a start-up, or in a file *that verifies* is the producer's
(`InFlightAmong`, `FilesAmong`): an edited block never leaves its file. For an
edit of a log or of a hash breaks the hash of its block (`EditedBlockFails`),
and a deletion of an inner block breaks a link, so neither the file nor any
longer one verifies, and a validator returns no blocks from a file that does
not. Deletion of the last block leaves an earlier prefix (`EditLeavesPrefix`)
and loses what that validator had promised. So quorums are counted with the
edited validators added: as many validators as a quorum hold a block or are
edited. For the audit, `AuditInv` keeps that a chain it has read is a prefix of
its file unless that was edited, and that a quorum of `Witnesses` is edited or
will show, or has shown, all but the last of the blocks committed when the audit
began. With fewer edits than a quorum one of them is not edited, and as all the
chains it read are equal, they are all that long.

### Storage and connections

`StorageInv` says that everything the path may hold is whole and written by
fsync, in the order of the saves; that during a save nothing on the path is as
new as the chain being saved; and that the temporary file holds it from fsync
on. So `ReplaceFile` is the abstract `Store`, `FlushDirectory` is `Harden`, and
a loss of power, which changes no file that fsync has written, goes back to one
of the versions.

`ExchangeInv` relates the byte counts to the places of the two programs: nobody
has read more than the other has written, the server handles only when it has
read the whole frame, it replies only after that, and a connection closed within
a call has one of the reasons that `CloseHasReason` names or brings the whole
response. Its refinement maps the last byte of the request to `Send`, the
handler to `Handle`, the last byte of the response to `Answer`, and each end of
either side to `Fail` or `Lose`.

### Checked by TLC only

- The liveness properties `StartupEnds`, `EveryLogIsAnswered`,
  `CommitsReachEveryValidator`, `QuietRestartCatchesUp`, `CallerEnds` and
  `ServerIsFreed`: temporal reasoning under fairness and `ENABLED` are out of
  the prover's reach.
- The two properties of section 8, which the code violates.
- What a recursive definition computes for every input: no module with a proof
  has one, and the library's induction theorems, which take an operator as a
  parameter, cannot be used. Where a chain must be followed from its end to
  its beginning (`SameHashSamePast`, `VerifiedIsIndexed`), `ChainLemmas` uses
  `Induction`, which speaks of a set of numbers and is proved from `LeastNumber`.

## 8. Where the code differs from its documentation

The run `recovery` checks what `README.md:279` of the repository says of the
start-up synchronisation, "This handles a validator that restarts after missing
committed blocks", in its weakest form: a block that both peers returned alike
is not dropped. TLC finds it violated. C crashes and misses block 0; it restarts
while the producer is sending COMMIT_BLOCK for block 1, so that A already
returns blocks 0 and 1 and B only block 0. `select_consistent_blocks`
(`validator_node.py:432`) returns `None` because block 1 has one witness, and
block 0, on which both agree, is dropped with it. The validator then listens
without the blocks, and no later step fetches them: COMMIT_BLOCK for a later
index is refused as a gap until the validator is restarted once more in a
quieter moment.

The run `report` checks the number that the normal experiment prints:
`committed={successful_logs}/{args.count}` (`run_experiment.py:185`), which
`README.md:390` of the repository heads "Committed". TLC finds a client that
gives up on a log after its 5 s and a producer that commits it afterwards: the
OK answers are fewer than the logs of the client in the producer's chain. The
repository's own figures show it: `README.md:394` reports 631 of 1000 logs, and
`README.md:400` 740 blocks at validator A. What is right about the number is
`AnswersAreTrue`: each log that it counts is committed.

## 9. What is not modelled

- Signature and field checks of messages, and clocks that differ: pure checks
  that every message between the programs of this repository passes, on the one
  host that `config.py` names. The legacy BLOCK message and malformed ones,
  which no component sends and which change nothing.
- Tampering with, or resetting, the file of a running validator, which
  `README.md:508` of the repository rules out: the validator and the tool would
  overwrite each other's saves.
- Caller and server connected by a network that fails without either of them
  dying: a server whose caller is gone without a sign waits in `recv` for ever.
- JSON and SHA-256, in Python and by hand in C; the 32-bit limit that
  `send_framed_json` checks, which the 10 MiB limit of the server is far below.
- `append_block`, `append_blocks_idempotent` and the token functions of
  `crypto_utils.py`, which nothing calls.
- The HMAC benchmark and the CSV file of `run_experiment.py`, and the texts that
  the programs print.

## 10. Plan

The components are modelled, and each safety property that a passing run checks is a
theorem. What is left:

1. that the audit's verdict is not only true but reached: with no faults and no
   edits, an audit after the last commit loop says "synchronized" (liveness, a
   run);
2. which part of the liveness arguments is safety: that a waiting caller is
   always in the queue of a live server or may give up, as an invariant behind
   `StartupEnds` and `EveryLogIsAnswered`;
3. the audit over `SpecWithRestarts`, where a fork at block 0 must show as
   "not synchronized" (`SameTipSameChain` is the lemma for it).
