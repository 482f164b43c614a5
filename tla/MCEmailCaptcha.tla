--------------------------- MODULE MCEmailCaptcha ---------------------------
(***************************************************************************)
(* Small instances of EmailCaptcha for TLC.                                *)
(***************************************************************************)
EXTENDS EmailCaptcha, TLC

\* Requests and addresses are interchangeable.
Symmetry == Permutations(Procs) \cup Permutations(Emails)
=============================================================================
