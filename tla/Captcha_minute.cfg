SPECIFICATION Spec
CONSTANTS
    Emails = {e1}
    Nobody = Nobody
    Procs = {p1, p2}
    MaxMails = 2
INVARIANTS OneMailPerMinute
CHECK_DEADLOCK FALSE
