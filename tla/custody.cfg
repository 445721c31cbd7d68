SPECIFICATION Spec
CONSTANTS
    Users = {u1, u2}
    NoUser = NoUser
    Tokens = {t1}
    FirstUser = u1
    InitialOwner <- MCInitialOwner
    Unknown = {}
    DepositWorkers = {d1}
    WithdrawWorkers = {w1}
    Schedulers = {s1}
    Confirmations = 1
    ScanBatchSize = 2
    MaxBlock = 3
    MaxEvents = 2
    MaxFaults = 0
INVARIANT CustodyIsRecorded
