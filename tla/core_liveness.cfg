SPECIFICATION FairSpec
CONSTANTS
    Collections = {c1}
    Users = {u1}
    Workers = {w1, w2}
    NoWorker = NoWorker
    MaxTxs = 3
    MaxSends = 4
    MaxAssets = 2
    MaxFaults = 1
    FaultKinds = {"error", "revert"}
    RequestKinds = {"MintAsset", "BurnAsset", "MintResource"}
    BurnStates = {"minted"}
    ReassignStates = {}
INVARIANTS
    MintedOnce
PROPERTIES
    WaitsForReceipts
    EveryRequestIsSubmitted
    EveryAssetSettles
    ImplementsAssetOrders
