\* Without timeouts commits reach the validators that run, and one that starts
\* again while nothing is committed catches up, even when it was killed while it
\* started for the first time.
SPECIFICATION FairSpec
CONSTANTS
    A = A
    B = B
    C = C
    logX = logX
    logY = logY
    PRODUCER = PRODUCER
    QUORUM = 2
    VALIDATOR_IDS <- MCValidatorIds
    STARTED <- MCTwo
    LOGS <- MCLogs
    EDGE_LOGS <- MCNone
    SOCKET_BACKLOG = 2
    SLOW = FALSE
    MAX_SYNC_BLOCKS = 2
    MAX_FAULTS = 1
    MAX_CREATED = 2
    MAX_RESTARTS = 0
\* The system stops when the bounded numbers of blocks, faults and restarts
\* are used up and every process waits for a connection.
CHECK_DEADLOCK FALSE
INVARIANTS
    ReplicationInv
PROPERTIES
    CommitsReachEveryValidator
    QuietRestartCatchesUp
