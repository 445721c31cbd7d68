SPECIFICATION Spec
CONSTANTS
    Collections = {c1}
    Users = {u1}
    Workers = {w1, w2}
    NoWorker = NoWorker
    MaxTxs = 1
    MaxSends = 1
    MaxAssets = 1
    MaxFaults = 1
    FaultKinds = {"abort"}
    RequestKinds = {"MintAsset", "BurnAsset", "MintResource"}
    BurnStates = {"minted"}
    ReassignStates = {}
INVARIANT NoOrphanAsset
