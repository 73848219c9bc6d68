\* Failures, kills and losses of power between the steps of save_chain.
SPECIFICATION StorageSpec
CONSTANT
    MAX_SAVES = 4
INVARIANTS
    ChainFileIsWhole
    AnsweredSaveIsLoaded
PROPERTIES
    ImplementsStorageCell
