\* Commit, crash, restart and synchronisation, with late requests.
SPECIFICATION Spec
CONSTANTS
    A = A
    B = B
    C = C
    logX = logX
    logY = logY
    PRODUCER = PRODUCER
    QUORUM = 2
    VALIDATOR_IDS <- MCValidatorIds
    STARTED <- MCAll
    LOGS <- MCLogs
    EDGE_LOGS <- MCNone
    SOCKET_BACKLOG = 2
    SLOW = TRUE
    MAX_SYNC_BLOCKS = 2
    MAX_FAULTS = 1
    MAX_CREATED = 2
    MAX_RESTARTS = 0
\* The system stops when the bounded numbers of blocks, faults and restarts
\* are used up and every process waits for a connection.
CHECK_DEADLOCK FALSE
INVARIANTS
    TypeOK
    ChainsFollowProducer
    DurableButTip
PROPERTIES
    StoredBlocksStay
    ImplementsCommittedLog
