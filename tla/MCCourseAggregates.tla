------------------------- MODULE MCCourseAggregates -------------------------
(***************************************************************************)
(* Small instances of CourseAggregates for TLC.                            *)
(***************************************************************************)
EXTENDS CourseAggregates
=============================================================================
