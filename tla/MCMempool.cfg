SPECIFICATION SharedSpec
CONSTANTS
    Configs <- MCConfigs
INVARIANTS
    IndexesAgree
    NextIsReady
    BlockIsExecutable
    NothingIsSkipped
PROPERTIES
    EvictionSparesReady
    SharedUnlessStuck
