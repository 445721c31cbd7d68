SPECIFICATION FairSpec
CONSTANTS
    Collections = {c1}
    Users = {u1}
    Workers = {w1, w2}
    NoWorker = NoWorker
    MaxTxs = 1
    MaxSends = 1
    MaxAssets = 1
    MaxFaults = 0
    FaultKinds = {}
    RequestKinds = {"MintResource"}
    BurnStates = {"minted"}
    ReassignStates = {}
PROPERTY EveryResourceMintIsSent
