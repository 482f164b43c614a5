SPECIFICATION Spec
CONSTANTS
    Users = {u1}
    MailUsers = {u1}
    Procs = {p1, p2}
    NoProc = NoProc
    InitialPoints = 1
    InitialFree = 1
    RewardDeltas = {1}
    AdjustDeltas <- MCAdjustDeltas
    MaxDay = 1
    MaxEarned = 2
    MaxDownloads = 2
INVARIANTS LedgerMatchesPoints
CHECK_DEADLOCK FALSE
