\* Audits that read the files one by one while two clients send logs and C
\* starts at any time.
SPECIFICATION CheckSpec
CONSTANTS
    A = A
    B = B
    C = C
    NODE = NODE
    EQUIPMENT = EQUIPMENT
    PRODUCER = PRODUCER
    QUORUM = 2
    VALIDATOR_IDS <- MCValidatorIds
    STARTED <- MCTwo
    CLIENTS <- MCClients
    PATIENT <- MCPatient
    COUNT <- MCCount
    LOGS <- MCLogs
    EDGE_LOGS <- MCNone
    SOCKET_BACKLOG = 1
    SLOW = FALSE
    MAX_SYNC_BLOCKS = 3
    MAX_FAULTS = 0
    MAX_CREATED = 3
    MAX_RESTARTS = 0
INVARIANTS
    CheckFindsAnsweredLogs
    CheckInv
