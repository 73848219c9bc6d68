\* Two clients, one that waits for ever and one that gives up, and validators
\* of which two start at any time.
SPECIFICATION ClientSpec
CONSTANTS
    A = A
    B = B
    C = C
    NODE = NODE
    EQUIPMENT = EQUIPMENT
    PRODUCER = PRODUCER
    QUORUM = 2
    VALIDATOR_IDS <- MCValidatorIds
    STARTED <- MCOne
    CLIENTS <- MCClients
    PATIENT <- MCPatient
    COUNT <- MCCount
    LOGS <- MCLogs
    EDGE_LOGS <- MCNone
    SOCKET_BACKLOG = 1
    SLOW = FALSE
    MAX_SYNC_BLOCKS = 3
    MAX_FAULTS = 0
    MAX_CREATED = 3
    MAX_RESTARTS = 0
\* The system stops when all logs are sent and every process waits.
CHECK_DEADLOCK FALSE
INVARIANTS
    ClientTypeOK
    AnswersAreTrue
    LogsKeepClientOrder
    ClientInv
