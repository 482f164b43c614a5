SPECIFICATION MCSpec
CONSTANTS
    Emails = {e1, e2}
    Inviters = {i1}
    NoInviter = NoInviter
    Codes = {k1, k2}
    NoCode = NoCode
    Nobody = Nobody
    Procs = {p1, p2, p3}
    Identities = {e1, e2}
    Profiles = {k1, k2}
    Clients = {p1, p2, p3}
    NoOne = NoOne
SYMMETRY Symmetry
INVARIANTS RegistrationSound RewardsEarned SuccessIsComplete OnePendingInvitation
