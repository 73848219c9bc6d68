\* Every log, every call and every start-up ends, although C starts at any time
\* and another validator may have to start again beside it.
SPECIFICATION ClientSpec
CONSTANTS
    A = A
    B = B
    C = C
    NODE = NODE
    EQUIPMENT = EQUIPMENT
    PRODUCER = PRODUCER
    QUORUM = 2
    VALIDATOR_IDS <- MCValidatorIds
    STARTED <- MCTwo
    CLIENTS <- MCPatient
    PATIENT <- MCPatient
    COUNT <- MCCount
    LOGS <- MCLogs
    EDGE_LOGS <- MCNone
    SOCKET_BACKLOG = 1
    SLOW = TRUE
    MAX_SYNC_BLOCKS = 1
    MAX_FAULTS = 1
    MAX_CREATED = 1
    MAX_RESTARTS = 0
\* The system stops when all logs are sent, the fault is used up and every
\* process waits for a connection.
CHECK_DEADLOCK FALSE
PROPERTIES
    StartupEnds
    EveryLogIsAnswered
