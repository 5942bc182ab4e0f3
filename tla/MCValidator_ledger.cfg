SPECIFICATION Spec
CONSTANTS
    IntWidth = 4
    WalletIds <- TwoWallets
    Coins = 2
    Files <- SomeFiles
    MaxTx = 2
    MaxEvents = 2
CHECK_DEADLOCK FALSE
INVARIANTS
    TypeOK
    TxAccounted
    ProposalVerifies
    ValueKept
    BlockAccounted
