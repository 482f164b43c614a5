--------------------------- MODULE MCPointsLedger ---------------------------
(***************************************************************************)
(* Small instances of PointsLedger for TLC: what a .cfg cannot write.     *)
(***************************************************************************)
EXTENDS PointsLedger

\* One adjustment that adds and one that takes more than a small balance.
MCAdjustDeltas == {-2, 1}
=============================================================================
