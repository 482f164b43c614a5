SPECIFICATION Spec
CONSTANTS
    Emails = {e1}
    Nobody = Nobody
    Procs = {p1, p2, p3}
    MaxMails = 4
SYMMETRY Symmetry
INVARIANTS TypeOK MailsBounded CaptchaUsesBounded
CHECK_DEADLOCK FALSE
