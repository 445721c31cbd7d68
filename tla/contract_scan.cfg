SPECIFICATION Spec
CONSTANTS
    Users = {u1, u2}
    NoUser = NoUser
    Tokens = {t1, t2}
    FirstUser = u1
    InitialOwner <- MCInitialOwner
    Unknown = {u2}
    DepositWorkers = {d1, d2}
    WithdrawWorkers = {w1}
    Schedulers = {s1}
    Confirmations = 2
    ScanBatchSize = 2
    MaxBlock = 4
    MaxEvents = 3
    MaxFaults = 1
SYMMETRY MCSymmetry
INVARIANTS
    TypeOK
    NoEventSkipped
    ScansOnlyFinal
    
PROPERTY LoneScannerMovesForward
