SPECIFICATION MCSpec
CONSTANTS
    Accounts = {u1}
    Sessions = {k1, k2}
    Callers = {p1, p2}
    MaxRecorded = 4
    AbuseLimit = 1
    Channels = {1, 2, 3}
    Levels = {0, 1}
    Configured <- FromConfiguration
    Posters = {p1, p2}
    MaxAttempts = 2
    Budget = 2
    Turns = 6
    Documents = {d1, d2}
    Categories = {g1}
    Slugs = {n1, n2}
    Intros = {n2}
    Editors = {p1, p2}
    FirstSlug = n1
    OtherDocument = d2
    Members = {u1, u2}
    Notes = {k1, k2}
    Subjects = {x1}
    Forms = {1, 2}
    Hands = {p1, p2}
    Receivers = {u1}
    Slots = {1, 2}
    Bulletins = {x1}
    Messengers = {p1, p2}
    Everyone = Everyone
    Nobody = Nobody
    Absent = Absent
    Unlisted = Unlisted
    Missing = Missing
    Null = Null
SYMMETRY Interchangeable
INVARIANTS AccessSound MessagesSound DocumentsSound
PROPERTIES BansExplained DocumentsExplained
CHECK_DEADLOCK FALSE
