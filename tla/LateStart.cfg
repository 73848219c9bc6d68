\* A validator that starts late, undeliverable COMMIT_BLOCKs and answers.
SPECIFICATION Spec
CONSTANTS
    A = A
    B = B
    C = C
    logX = logX
    logY = logY
    PRODUCER = PRODUCER
    QUORUM = 2
    VALIDATOR_IDS <- MCValidatorIds
    STARTED <- MCTwo
    LOGS <- MCAllLogs
    EDGE_LOGS <- MCEdgeLogs
    SOCKET_BACKLOG = 2
    SLOW = TRUE
    MAX_SYNC_BLOCKS = 1
    MAX_FAULTS = 0
    MAX_CREATED = 3
    MAX_RESTARTS = 0
\* The system stops when the bounded numbers of blocks, faults and restarts
\* are used up and every process waits for a connection.
CHECK_DEADLOCK FALSE
INVARIANTS
    DurableButTip
    OneCallAtATime
    ReplicationInv
PROPERTIES
    LostTipBlocksTheLog
