SPECIFICATION FairSpec
CONSTANTS
    Users = {u1}
    NoUser = NoUser
    Tokens = {t1}
    FirstUser = u1
    InitialOwner <- MCInitialOwner
    Unknown = {}
    DepositWorkers = {d1}
    WithdrawWorkers = {w1, w2}
    Schedulers = {s1, s2}
    Confirmations = 1
    ScanBatchSize = 1
    MaxBlock = 3
    MaxEvents = 1
    MaxFaults = 1
PROPERTIES
    EveryEventIsApplied
