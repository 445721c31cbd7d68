SPECIFICATION Spec
CONSTANTS
    Collections = {c1, c2}
    Users = {u1}
    Workers = {w1, w2}
    NoWorker = NoWorker
    MaxTxs = 2
    MaxSends = 2
    MaxAssets = 2
    MaxFaults = 1
    FaultKinds = {"expiry"}
    RequestKinds = {"MintAsset"}
    BurnStates = {"minted"}
    ReassignStates = {}
SYMMETRY MCSymmetry
INVARIANTS
    OneAssetPerToken
    PlayersHoldFinalTokens
PROPERTIES
    AssetLifecycle
