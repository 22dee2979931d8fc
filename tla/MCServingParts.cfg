SPECIFICATION Spec
CONSTANTS
    HashXs = {"a"}
    MaxHeight = 3
    MaxChanges = 3
    MaxRequests = 1
    Absent = Absent
    Unknown = Unknown
    Clients = {c1, c2}
    FirstHeaders = 7
    HeaderReorgLimit = 3
    MaxHeaders = 7
    MaxEvents = 3
    Hashes = {1, 2}
    Touches = {{1}, {1, 2}}
    RowEntries = 2
    MaxTxs = 5
    MaxUndos = 1
    MaxKills = 2
    MaxCompactions = 2
    PoolTxs = {"g", "t", "u", "m", "d"}
    FirstBlock = {"g"}
    Outs <- MCOuts
    Ins <- MCIns
    Ads <- MCAds
    Sessions = {"w"}
    SubKeys <- MCSubKeys
    MaxSubs = 1
    MaxBlocks = 2
    MaxUnblocked = 1
INVARIANTS
    ReadsHold
    ProofsHold
    CompactionHolds
    PoolHolds
CHECK_DEADLOCK FALSE
