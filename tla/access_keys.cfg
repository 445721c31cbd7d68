SPECIFICATION Spec
CONSTANTS
    Users = {u1, u2}
    NoUser = NoUser
    Claims = {r1, r2, r3}
    MaxAccessKeysPerPlayer = 2
    MaxKeys = 5
    MaxFaults = 1
SYMMETRY MCSymmetry
INVARIANTS
    TypeOK
    CapPerPlayer
    KeyGivenOnce
    ShortOnlyByRivals
PROPERTY
    ImplementsKeyPool
\* Every claim may be over and every key generated.
CHECK_DEADLOCK FALSE
