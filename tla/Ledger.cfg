SPECIFICATION FairAccountSpec
CONSTANTS
    Users = {u1}
    MailUsers = {}
    Procs = {p1, p2}
    NoProc = NoProc
    InitialPoints = 1
    InitialFree = 1
    RewardDeltas = {1}
    AdjustDeltas <- MCAdjustDeltas
    MaxDay = 2
    MaxEarned = 2
    MaxDownloads = 2
INVARIANTS TypeOK LedgerMatchesPoints DownloadsPaid OverdraftBounded OwnDayCheckinOnce LateCheckinsBounded
PROPERTIES CheckinAnswered
CHECK_DEADLOCK FALSE
