------------------------------- MODULE MCOemVars -------------------------------
(* Two days of a clock with two seconds to the hour.                       *)
EXTENDS OemVars

MCTimes == 1..95
=============================================================================
