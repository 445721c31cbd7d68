SPECIFICATION Spec
CONSTANTS
    Collections = {c1}
    Users = {u1, u2}
    Workers = {w1, w2}
    NoWorker = NoWorker
    MaxTxs = 3
    MaxSends = 4
    MaxAssets = 2
    MaxFaults = 2
    FaultKinds = {"abort", "error", "save", "crash", "revert", "reorg", "drop"}
    RequestKinds = {"MintAsset", "BurnAsset"}
    BurnStates = {"minted"}
    ReassignStates = {"minted"}
SYMMETRY MCSymmetry
INVARIANTS
    TypeOK
    OneJobInside
    OneAssetPerToken
    PlayersHoldFinalTokens
    BurntIsFinal
    SubmittedIsDone
    RecordedAsSent
    EveryMintHasAnAsset
PROPERTIES
    SubmittedIsFinal
    AssetLifecycle
