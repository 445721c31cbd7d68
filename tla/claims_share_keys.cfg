SPECIFICATION Spec
CONSTANTS
    Users = {u1, u2}
    NoUser = NoUser
    Claims = {r1, r2}
    MaxAccessKeysPerPlayer = 2
    MaxKeys = 3
    MaxFaults = 0
INVARIANT ClaimersGetAllKeys
\* Every claim may be over and every key generated.
CHECK_DEADLOCK FALSE
