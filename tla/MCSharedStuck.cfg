SPECIFICATION SharedSpec
CONSTANTS
    Configs <- OnePeer
PROPERTIES
    EveryTransactionIsShared
