\* Tampering with one file, and audits at any time.  A starting validator fills
\* the accept queues of its peers, so that COMMIT_BLOCKs are lost.
SPECIFICATION TamperSpec
CONSTANTS
    A = A
    B = B
    C = C
    logX = logX
    PRODUCER = PRODUCER
    QUORUM = 2
    VALIDATOR_IDS <- MCValidatorIds
    STARTED <- MCAll
    LOGS <- MCLogs
    EDGE_LOGS <- MCNone
    SOCKET_BACKLOG = 1
    SLOW = FALSE
    MAX_SYNC_BLOCKS = 2
    MAX_FAULTS = 0
    MAX_CREATED = 2
    MAX_RESTARTS = 0
    MAX_TAMPERED = 1
INVARIANTS
    VerifiedChainsFollowProducer
    DurabilityLosesOnlyTampered
    AuditTellsTheTruth
    SynchronizedMeansComplete
    TamperInv
PROPERTIES
    EvidenceStays
