--------------------------- MODULE MCRegistration ---------------------------
(***************************************************************************)
(* Small instances of Registration and Bindings for TLC.  They share no    *)
(* variable, so a behaviour explores one of them.                          *)
(***************************************************************************)
EXTENDS Registration, Bindings, TLC

VARIABLE part  \* the module whose actions are taken

MCInit ==
    /\ Init /\ BindingsInit
    /\ part \in {"registrations", "bindings"}
    /\ part = "registrations" => \A u \in Profiles : profile[u] = "none"

MCNext ==
    /\ \/ part = "registrations" /\ Next /\ UNCHANGED bindingVars
       \/ part = "bindings" /\ BindingsNext /\ UNCHANGED vars
    /\ UNCHANGED part

MCSpec == MCInit /\ [][MCNext]_<<vars, bindingVars, part>>

\* Whoever logged in by a provider or bound an identity can do so for good, no login leaves
\* an account without a way in; and every variable of both modules has its type.
RegistrationSound == TypeOK /\ BindingsSound

\* Requests, addresses and codes are interchangeable; so are clients, identities and accounts,
\* which are the same values in the instance.
Symmetry == Permutations(Procs) \cup Permutations(Emails) \cup Permutations(Codes)
=============================================================================
